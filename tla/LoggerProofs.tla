---------------------------- MODULE LoggerProofs ----------------------------
(***************************************************************************)
(* Proofs about the log buffer for any number of threads, any buffer size  *)
(* and any entry sizes.                                                    *)
(***************************************************************************)
EXTENDS Logger, TLAPS

\* Positions up to which the memory of a buffer can be viewed
Limit == MaxLoggerSize + RdtscSize - 1

\* Sequences with the same elements are the same.
LEMMA SeqEqual ==
  ASSUME NEW S, NEW s \in Seq(S), NEW t \in Seq(S),
         Len(s) = Len(t), \A i \in 1 .. Len(s) : s[i] = t[i]
  PROVE  s = t
OBVIOUS

\* What is appended follows what was there.
LEMMA ConcatProperties ==
  ASSUME NEW S, NEW s \in Seq(S), NEW t \in Seq(S)
  PROVE  /\ s \o t \in Seq(S)
         /\ Len(s \o t) = Len(s) + Len(t)
         /\ \A i \in 1 .. Len(s) + Len(t) :
              (s \o t)[i] = IF i <= Len(s) THEN s[i] ELSE t[i - Len(s)]
OBVIOUS

\* Nothing appended changes nothing.
LEMMA ConcatEmptySeq ==
  ASSUME NEW S, NEW s \in Seq(S)
  PROVE  s \o <<>> = s /\ <<>> \o s = s
OBVIOUS

\* The bytes a flush writes are well typed, and there are as many of them as
\* log_buffer_current says.
LEMMA ViewType ==
  ASSUME NEW m \in [Cells -> Nat], NEW c \in Nat, c <= Limit
  PROVE  /\ View(m, c) \in Seq(Nat)
         /\ Len(View(m, c)) = c
         /\ \A i \in 1 .. c : View(m, c)[i] = m[i - 1]
<1>1. \A i \in 1 .. c : i - 1 \in Cells
  BY LoggerAssumption DEF Cells, Limit
<1>2. \A i \in 1 .. c : m[i - 1] \in Nat
  BY <1>1
<1> QED
  BY <1>2 DEF View

\* An entry's units form a sequence of its length.
LEMMA CopiesType ==
  ASSUME NEW v \in Nat, NEW n \in Nat
  PROVE  /\ Copies(v, n) \in Seq(Nat)
         /\ Len(Copies(v, n)) = n
         /\ \A i \in 1 .. n : Copies(v, n)[i] = v
BY DEF Copies

\* A rewound buffer has nothing to flush.
LEMMA ViewEmpty ==
  ASSUME NEW m
  PROVE  View(m, 0) = <<>>
BY DEF View

\* A store into a buffer changes cells only.
LEMMA StoredType ==
  ASSUME NEW m \in [Cells -> Nat], NEW p \in Nat, NEW v \in Nat, NEW n \in Nat
  PROVE  /\ Stored(m, p, v, n) \in [Cells -> Nat]
         /\ \A i \in Cells : p <= i /\ i < p + n => Stored(m, p, v, n)[i] = v
         /\ \A i \in Cells : i < p => Stored(m, p, v, n)[i] = m[i]
BY LoggerAssumption DEF Stored, Cells

\* The memset of a flush leaves a buffer of the same type.
LEMMA ClearedType ==
  ASSUME NEW m \in [Cells -> Nat]
  PROVE  Cleared(m) \in [Cells -> Nat]
BY DEF Cleared

\* Moving log_buffer_current behind n units of one entry appends that entry to
\* what the next flush writes.
LEMMA ViewGrows ==
  ASSUME NEW m \in [Cells -> Nat], NEW c \in Nat, NEW v \in Nat, NEW n \in Nat,
         c + n <= Limit,
         \A i \in Cells : c <= i /\ i < c + n => m[i] = v
  PROVE  View(m, c + n) = View(m, c) \o Copies(v, n)
<1> DEFINE a == View(m, c + n)
           b == View(m, c)
           d == Copies(v, n)
<1>1. c <= Limit
  BY LoggerAssumption DEF Limit
<1>2. /\ a \in Seq(Nat) /\ Len(a) = c + n
      /\ \A i \in 1 .. c + n : a[i] = m[i - 1]
  BY ViewType
<1>3. /\ b \in Seq(Nat) /\ Len(b) = c
      /\ \A i \in 1 .. c : b[i] = m[i - 1]
  BY <1>1, ViewType, Zenon
<1>4. /\ d \in Seq(Nat) /\ Len(d) = n
      /\ \A i \in 1 .. n : d[i] = v
  BY CopiesType
<1>5. \A i \in 1 .. c + n : i - 1 \in Cells
  BY LoggerAssumption DEF Cells, Limit
<1> HIDE DEF a, b, d
<1>6. /\ b \o d \in Seq(Nat)
      /\ Len(b \o d) = c + n
      /\ \A i \in 1 .. c + n : (b \o d)[i] = IF i <= c THEN b[i] ELSE d[i - c]
  <2>1. b \in Seq(Nat) /\ Len(b) = c /\ d \in Seq(Nat) /\ Len(d) = n
    BY <1>3, <1>4
  <2> QED
    BY <2>1, ConcatProperties, Zenon
<1>7. ASSUME NEW i \in 1 .. Len(a) PROVE a[i] = (b \o d)[i]
  <2>1. CASE i <= c
    <3>1. i \in 1 .. c /\ i \in 1 .. c + n
      BY <2>1, <1>2
    <3>2. a[i] = m[i - 1] /\ b[i] = m[i - 1] /\ (b \o d)[i] = b[i]
      BY <3>1, <2>1, <1>2, <1>3, <1>6, Zenon
    <3> QED
      BY <3>2
  <2>2. CASE ~(i <= c)
    <3>1. i - c \in 1 .. n /\ c <= i - 1 /\ i - 1 < c + n /\ i - 1 \in Cells
      BY <2>2, <1>2, <1>5
    <3> QED
      BY <3>1, <2>2, <1>2, <1>4, <1>6, Zenon
  <2> QED
    BY <2>1, <2>2, Zenon
<1> QED
  BY <1>2, <1>6, <1>7, SeqEqual, Zenon DEF a, b, d

\* A store behind log_buffer_current does not change what a flush writes.
LEMMA ViewKept ==
  ASSUME NEW m \in [Cells -> Nat], NEW c \in Nat, NEW v \in Nat, NEW n \in Nat,
         c <= Limit
  PROVE  View(Stored(m, c, v, n), c) = View(m, c)
<1>1. \A i \in 1 .. c : i - 1 \in Cells /\ i - 1 < c
  BY LoggerAssumption DEF Cells, Limit
<1>2. \A j \in Cells : j < c => Stored(m, c, v, n)[j] = m[j]
  BY StoredType
<1>3. ASSUME NEW i \in 1 .. c
      PROVE  Stored(m, c, v, n)[i - 1] = m[i - 1]
  BY <1>1, <1>2
<1> QED
  BY <1>3 DEF View

-----------------------------------------------------------------------------
(* Types and bounds                                                        *)

\* A thread is at rest below log_buffer_end; only the end of a log phase may
\* leave log_buffer_current at or behind it, until do_check_logger_buffer.
BoundsInv ==
  \A t \in Threads :
    /\ current[t] <= Limit
    /\ pc[t] # "check" => current[t] < MaxLoggerSize
    /\ pc[t] \in {"store", "addl", "commit"} =>
         /\ reg[t].ebx < MaxLoggerSize
         /\ reg[t].size \in {BranchSize, RdtscSize}
    /\ pc[t] = "commit" => reg[t].old < MaxLoggerSize

TypeInv == TypeOK /\ BoundsInv

BlockSet == [mark : {COMPRESSED, UNCOMPRESSED}, real_sz : Nat, data : Seq(Unit)]

\* What the operations make of well-typed operands is well typed.
LEMMA OperandTypes ==
  ASSUME TypeInv, NEW t \in Threads
  PROVE  /\ Buffered(t) \in Seq(Nat)
         /\ Len(Buffered(t)) = current[t]
         /\ Cleared(mem[t]) \in [Cells -> Nat]
         /\ \A n \in Nat : Copies(count[t] + 1, n) \in Seq(Nat)
         /\ \A p \in Nat, n \in Nat : Stored(mem[t], p, count[t] + 1, n) \in [Cells -> Nat]
         /\ \A p \in Nat, n \in Nat : Stored(Cleared(mem[t]), p, count[t] + 1, n) \in [Cells -> Nat]
<1>1. /\ mem[t] \in [Cells -> Nat] /\ current[t] \in Nat
      /\ current[t] <= Limit /\ count[t] + 1 \in Nat
  <2>1. /\ mem \in [Threads -> [Cells -> Nat]]
        /\ current \in [Threads -> Nat]
        /\ count \in [Threads -> Nat]
    BY Zenon DEF TypeInv, TypeOK, Unit
  <2>2. current[t] <= Limit
    BY DEF TypeInv, BoundsInv
  <2> QED
    BY <2>1, <2>2
<1>2. Cleared(mem[t]) \in [Cells -> Nat]
  BY <1>1, ClearedType
<1>3. /\ Buffered(t) \in Seq(Nat)
      /\ Len(Buffered(t)) = current[t]
  BY <1>1, ViewType DEF Buffered
<1>4. \A n \in Nat : Copies(count[t] + 1, n) \in Seq(Nat)
  BY <1>1, CopiesType
<1>5. /\ \A p \in Nat, n \in Nat : Stored(mem[t], p, count[t] + 1, n) \in [Cells -> Nat]
      /\ \A p \in Nat, n \in Nat : Stored(Cleared(mem[t]), p, count[t] + 1, n) \in [Cells -> Nat]
  BY <1>1, <1>2, StoredType, Zenon
<1> QED
  BY <1>2, <1>3, <1>4, <1>5, Zenon

\* A block built from well-typed parts is one the file may hold.
LEMMA BlockType ==
  ASSUME NEW mark \in {COMPRESSED, UNCOMPRESSED}, NEW sz \in Nat,
         NEW data \in Seq(Nat), NEW f \in Seq(BlockSet)
  PROVE  Append(f, Block(mark, sz, data)) \in Seq(BlockSet)
<1>1. Block(mark, sz, data) \in BlockSet
  BY DEF Block, BlockSet, Unit
<1> QED
  BY <1>1

\* The history of an entry is well typed.
LEMMA RecordType ==
  ASSUME TypeInv, NEW t \in Threads, NEW n \in Nat, Record(t, n)
  PROVE  /\ logged' \in [Threads -> Seq(Unit)]
         /\ bounds' \in [Threads -> SUBSET Nat]
         /\ count' \in [Threads -> Nat]
<1>1. Copies(count[t] + 1, n) \in Seq(Nat)
  BY OperandTypes
<1>2. logged[t] \in Seq(Nat) /\ Len(logged[t]) \in Nat
  BY DEF TypeInv, TypeOK, Unit
<1>3. logged[t] \o Copies(count[t] + 1, n) \in Seq(Nat)
  BY <1>1, <1>2, ConcatProperties
<1>4. logged' \in [Threads -> Seq(Unit)]
  <2>1. logged \in [Threads -> Seq(Nat)]
    BY DEF TypeInv, TypeOK, Unit
  <2>2. logged' = [logged EXCEPT ![t] = @ \o Copies(count[t] + 1, n)]
    BY DEF Record
  <2> QED
    BY <2>1, <2>2, <1>3 DEF Unit
<1>5. bounds \in [Threads -> SUBSET Nat]
  BY DEF TypeInv, TypeOK
<1>6. bounds' \in [Threads -> SUBSET Nat]
  <2>1. bounds[t] \cup {Len(logged[t]) + n} \in SUBSET Nat
    BY <1>2, <1>5
  <2>2. bounds' = [bounds EXCEPT ![t] = @ \cup {Len(logged[t]) + n}]
    BY DEF Record
  <2> QED
    BY <1>5, <2>1, <2>2
<1>7. count \in [Threads -> Nat]
  BY DEF TypeInv, TypeOK
<1>8. count' \in [Threads -> Nat]
  BY <1>7 DEF Record
<1> QED
  BY <1>4, <1>6, <1>8

\* One flush of a logger: types of what it writes and of what it leaves.
LEMMA FlushType ==
  ASSUME TypeInv, NEW t \in Threads, flush_logger_buffer(t)
  PROVE  /\ current' \in [Threads -> Nat]
         /\ mem' \in [Threads -> [Cells -> Unit]]
         /\ file' \in [Threads -> Seq(BlockSet)]
         /\ flushed' \in [Threads -> Seq(Unit)]
         /\ current' = [current EXCEPT ![t] = 0]
<1>1. /\ Buffered(t) \in Seq(Nat) /\ Cleared(mem[t]) \in [Cells -> Nat]
  BY OperandTypes
<1>2. /\ file \in [Threads -> Seq(BlockSet)] /\ flushed \in [Threads -> Seq(Nat)]
      /\ current \in [Threads -> Nat] /\ mem \in [Threads -> [Cells -> Nat]]
  BY Zenon DEF TypeInv, TypeOK, BlockSet, Unit
<1>3. Append(file[t], Block(COMPRESSED, current[t], Buffered(t))) \in Seq(BlockSet)
  BY <1>1, <1>2, BlockType
<1>4. flushed[t] \o Buffered(t) \in Seq(Nat)
  BY <1>1, <1>2, ConcatProperties
<1> QED
  BY <1>1, <1>2, <1>3, <1>4 DEF flush_logger_buffer, Unit

\* append_buffer, whichever way the entry takes: types, and the buffer's end.
LEMMA AppendType ==
  ASSUME TypeInv, NEW t \in Threads, NEW n \in AppendSizes,
         \/ AppendInPlace(t, n) \/ AppendAfterFlush(t, n) \/ AppendDirect(t, n)
  PROVE  /\ current' \in [Threads -> Nat]
         /\ mem' \in [Threads -> [Cells -> Unit]]
         /\ file' \in [Threads -> Seq(BlockSet)]
         /\ flushed' \in [Threads -> Seq(Unit)]
         /\ Record(t, n)
         /\ \A s \in Threads : s # t => current'[s] = current[s]
         /\ current'[t] < MaxLoggerSize
<1> DEFINE cleared == Cleared(mem[t])
           data == Copies(count[t] + 1, n)
<1>1. /\ Buffered(t) \in Seq(Nat) /\ cleared \in [Cells -> Nat]
      /\ data \in Seq(Nat)
      /\ Stored(mem[t], current[t], count[t] + 1, n) \in [Cells -> Nat]
      /\ Stored(cleared, 0, count[t] + 1, n) \in [Cells -> Nat]
  BY OperandTypes, LoggerAssumption, Zenon DEF TypeInv, TypeOK
<1>2. /\ file \in [Threads -> Seq(BlockSet)] /\ flushed \in [Threads -> Seq(Nat)]
      /\ current \in [Threads -> Nat] /\ mem \in [Threads -> [Cells -> Nat]]
  BY Zenon DEF TypeInv, TypeOK, BlockSet, Unit
<1>0. n \in Nat /\ MaxLoggerSize \in Nat /\ 0 < MaxLoggerSize
  BY LoggerAssumption
<1>3. Append(file[t], Block(COMPRESSED, current[t], Buffered(t))) \in Seq(BlockSet)
  BY <1>1, <1>2, BlockType
<1>4. FileFlushed(t) \in Seq(BlockSet)
  BY <1>2, <1>3 DEF FileFlushed
<1>5. Append(FileFlushed(t), Block(UNCOMPRESSED, n, data)) \in Seq(BlockSet)
  BY <1>0, <1>1, <1>2, <1>4, BlockType
<1>6. flushed[t] \o Buffered(t) \in Seq(Nat)
  BY <1>1, <1>2, ConcatProperties
<1>7. flushed[t] \o Buffered(t) \o data \in Seq(Nat)
  BY <1>1, <1>6, ConcatProperties
<1> HIDE DEF cleared, data
<1>8. CASE AppendInPlace(t, n)
  BY <1>0, <1>1, <1>2, <1>8 DEF AppendInPlace, Fits, Unit
<1>9. CASE AppendAfterFlush(t, n)
  BY <1>0, <1>1, <1>2, <1>3, <1>6, <1>9 DEF AppendAfterFlush, Fits, Unit, cleared
<1>10. CASE AppendDirect(t, n)
  BY <1>0, <1>1, <1>2, <1>5, <1>7, <1>10, Zenon DEF AppendDirect, Unit, cleared, data
<1> QED
  BY <1>8, <1>9, <1>10
\* A step to rest, and a rewind of any logger, keep the bounds.
LEMMA BoundsKept ==
  ASSUME TypeInv, NEW t \in Threads,
         NEW l \in {"run", "flush", "exiting", "fa_next", "fa_compress", "fa_reset",
                    "exit", "dead", "abort"},
         pc' = [pc EXCEPT ![t] = l], reg' = reg,
         current' \in [Threads -> Nat], current'[t] < MaxLoggerSize,
         \A s \in Threads : s # t => current'[s] = 0 \/ current'[s] = current[s]
  PROVE  BoundsInv'
<1>m. /\ MaxLoggerSize \in Nat /\ RdtscSize \in Nat
      /\ 0 < MaxLoggerSize /\ 0 < RdtscSize
  BY LoggerAssumption
<1>t. /\ current \in [Threads -> Nat] /\ pc \in [Threads -> Pcs]
      /\ BoundsInv
  BY DEF TypeInv, TypeOK
<1> SUFFICES ASSUME NEW s \in Threads
             PROVE  /\ current'[s] <= Limit
                    /\ pc'[s] # "check" => current'[s] < MaxLoggerSize
                    /\ pc'[s] \in {"store", "addl", "commit"} =>
                         /\ reg'[s].ebx < MaxLoggerSize
                         /\ reg'[s].size \in {BranchSize, RdtscSize}
                    /\ pc'[s] = "commit" => reg'[s].old < MaxLoggerSize
  BY DEF BoundsInv, Limit
<1>1. CASE s = t
  BY <1>1, <1>m, <1>t DEF Limit
<1>2. CASE s # t
  <2>1. pc'[s] = pc[s] /\ (current'[s] = 0 \/ current'[s] = current[s])
    BY <1>2, <1>t
  <2>2. current[s] \in Nat /\ current'[s] \in Nat
    BY <1>t
  <2> QED
    BY <1>t, <1>m, <2>1, <2>2 DEF BoundsInv, Limit
<1> QED
  BY <1>1, <1>2

\* The initial loggers are empty.
LEMMA TypeInit == Init => TypeInv
<1> SUFFICES ASSUME Init PROVE TypeInv
  OBVIOUS
<1> USE DEF Init
<1>1. Clean \in [Cells -> Nat]
  BY DEF Clean
<1>2. TypeOK
  BY <1>1 DEF TypeOK, Pcs, Unit
<1>3. BoundsInv
  BY LoggerAssumption DEF BoundsInv, Limit
<1> QED
  BY <1>2, <1>3 DEF TypeInv

\* Every step of the recorder keeps types and bounds.
LEMMA TypeStep == TypeInv /\ [Next]_vars => TypeInv'
<1> SUFFICES ASSUME TypeInv, [Next]_vars PROVE TypeInv'
  OBVIOUS
<1> USE DEF TypeInv
<1>t. /\ current \in [Threads -> Nat]
      /\ mem \in [Threads -> [Cells -> Nat]]
      /\ file \in [Threads -> Seq(BlockSet)]
      /\ flushed \in [Threads -> Seq(Nat)]
      /\ pc \in [Threads -> Pcs]
      /\ reg \in [Threads -> [size : Nat, ebx : Nat, old : Nat]]
  BY Zenon DEF TypeOK, Unit, BlockSet
<1>m. /\ MaxLoggerSize \in Nat /\ 0 < MaxLoggerSize
      /\ RdtscSize \in Nat /\ BranchSize \in Nat /\ 0 < RdtscSize
      /\ BranchSize <= RdtscSize /\ AppendSizes \subseteq Nat
  BY LoggerAssumption
<1>1. ASSUME NEW t \in Threads, NEW n \in AppendSizes, NEW next \in {"run", "flush", "exiting"},
             append_buffer(t, n, next)
      PROVE  TypeInv'
  <2>1. \/ AppendInPlace(t, n) \/ AppendAfterFlush(t, n) \/ AppendDirect(t, n)
    BY <1>1 DEF append_buffer
  <2>2. /\ current' \in [Threads -> Nat]
        /\ mem' \in [Threads -> [Cells -> Unit]]
        /\ file' \in [Threads -> Seq(BlockSet)]
        /\ flushed' \in [Threads -> Seq(Unit)]
        /\ Record(t, n)
        /\ \A s \in Threads : s # t => current'[s] = current[s]
        /\ current'[t] < MaxLoggerSize
    BY <2>1, AppendType
  <2>3. /\ logged' \in [Threads -> Seq(Unit)]
        /\ bounds' \in [Threads -> SUBSET Nat]
        /\ count' \in [Threads -> Nat]
    BY <1>m, <2>2, RecordType
  <2>4. pc' = [pc EXCEPT ![t] = next] /\ UNCHANGED <<lock, tlsLock, torn, reg, fa>>
    BY <1>1 DEF append_buffer, Goto
  <2>5. TypeOK'
    BY <2>2, <2>3, <2>4, Zenon DEF TypeOK, BlockSet, Pcs
  <2>6. BoundsInv'
    BY <2>2, <2>4, BoundsKept, Zenon
  <2> QED
    BY <2>5, <2>6
<1>2. ASSUME NEW t \in Threads, NEW n \in AppendSizes, AppendAssertFails(t, n)
      PROVE  TypeInv'
  <2>1. /\ Buffered(t) \in Seq(Nat) /\ Cleared(mem[t]) \in [Cells -> Nat]
    BY OperandTypes
  <2>2. Append(file[t], Block(COMPRESSED, current[t], Buffered(t))) \in Seq(BlockSet)
    BY <1>t, <2>1, BlockType
  <2>3. FileFlushed(t) \in Seq(BlockSet)
    BY <1>t, <2>2 DEF FileFlushed
  <2>4. flushed[t] \o Buffered(t) \in Seq(Nat)
    BY <1>t, <2>1, ConcatProperties
  <2>5. /\ file' \in [Threads -> Seq(BlockSet)]
        /\ flushed' \in [Threads -> Seq(Nat)]
        /\ mem' \in [Threads -> [Cells -> Nat]]
        /\ current' = [current EXCEPT ![t] = 0]
        /\ pc' = [pc EXCEPT ![t] = "abort"]
        /\ lock' = [lock EXCEPT ![t] = t]
        /\ UNCHANGED <<tlsLock, logged, bounds, torn, count, reg, fa>>
    BY <1>2, <1>t, <2>1, <2>3, <2>4, Zenon DEF AppendAssertFails, Goto
  <2>6. TypeOK'
    BY <2>5, <1>t, Zenon DEF TypeOK, Unit, BlockSet, Pcs
  <2>7. BoundsInv'
    <3>1. /\ current' \in [Threads -> Nat]
          /\ current'[t] < MaxLoggerSize
          /\ \A s \in Threads : s # t => current'[s] = 0 \/ current'[s] = current[s]
      BY <2>5, <1>t, <1>m
    <3> QED
      BY <2>5, <3>1, BoundsKept, Zenon
  <2> QED
    BY <2>6, <2>7
<1>3. ASSUME NEW t \in Threads, NEW n \in {BranchSize, RdtscSize}, LogLoad(t, n)
      PROVE  TypeInv'
  <2>1. /\ reg' = [reg EXCEPT ![t].size = n, ![t].ebx = current[t]]
        /\ pc' = [pc EXCEPT ![t] = "store"] /\ pc[t] = "run"
        /\ UNCHANGED <<current, mem, lock, tlsLock, file, flushed, logged, bounds,
                       torn, count, fa>>
    BY <1>3 DEF LogLoad, Goto
  <2>2. TypeOK'
    <3>1. n \in Nat /\ current[t] \in Nat
      BY <1>t, <1>m
    <3>2. reg' \in [Threads -> [size : Nat, ebx : Nat, old : Nat]]
      BY <2>1, <3>1, <1>t, Zenon
    <3> QED
      BY <2>1, <3>2, Zenon DEF TypeOK, Pcs
  <2>3. BoundsInv'
    BY <2>1, <1>t, <1>m, SMTT(30) DEF BoundsInv, Limit
  <2> QED
    BY <2>2, <2>3
<1>4. ASSUME NEW t \in Threads, LogStore(t) PROVE TypeInv'
  <2>1. Stored(mem[t], reg[t].ebx, count[t] + 1, reg[t].size) \in [Cells -> Nat]
    BY <1>t, OperandTypes, Zenon
  <2>2. /\ mem' \in [Threads -> [Cells -> Nat]]
        /\ pc' = [pc EXCEPT ![t] = "addl"] /\ pc[t] = "store"
        /\ UNCHANGED <<current, lock, tlsLock, file, flushed, logged, bounds,
                       torn, count, reg, fa>>
    BY <1>4, <1>t, <2>1 DEF LogStore, Goto
  <2>3. TypeOK'
    BY <2>2, <1>t, Zenon DEF TypeOK, Unit, Pcs
  <2>4. BoundsInv'
    BY <2>2, <1>t, <1>m DEF BoundsInv, Limit
  <2> QED
    BY <2>3, <2>4
<1>5. ASSUME NEW t \in Threads, LogAddlRead(t) PROVE TypeInv'
  <2>1. /\ reg' = [reg EXCEPT ![t].old = current[t]]
        /\ pc' = [pc EXCEPT ![t] = "commit"] /\ pc[t] = "addl"
        /\ UNCHANGED <<current, mem, lock, tlsLock, file, flushed, logged, bounds,
                       torn, count, fa>>
    BY <1>5 DEF LogAddlRead, Goto
  <2>2. TypeOK'
    <3>1. pc' \in [Threads -> Pcs]
      BY <2>1 DEF TypeOK, Pcs
    <3>2. reg' \in [Threads -> [size : Nat, ebx : Nat, old : Nat]]
      BY <2>1, <1>t, Zenon
    <3> QED
      BY <2>1, <3>1, <3>2, Zenon DEF TypeOK
  <2>3. BoundsInv'
    BY <2>1, <1>t, <1>m DEF BoundsInv, Limit
  <2> QED
    BY <2>2, <2>3
<1>6. ASSUME NEW t \in Threads, LogCommit(t) PROVE TypeInv'
  <2>1. /\ current' = [current EXCEPT ![t] = reg[t].old + reg[t].size]
        /\ Record(t, reg[t].size)
        /\ torn' \in [Threads -> BOOLEAN]
        /\ pc' = [pc EXCEPT ![t] = "check"] /\ pc[t] = "commit"
        /\ UNCHANGED <<mem, lock, tlsLock, file, flushed, reg, fa>>
    BY <1>6 DEF LogCommit, Goto, TypeOK
  <2>2. /\ logged' \in [Threads -> Seq(Unit)]
        /\ bounds' \in [Threads -> SUBSET Nat]
        /\ count' \in [Threads -> Nat]
    BY <1>t, <2>1, RecordType
  <2>3. TypeOK'
    <3>1. reg[t].old + reg[t].size \in Nat
      BY <1>t
    <3>2. current' \in [Threads -> Nat]
      BY <2>1, <3>1, <1>t
    <3> QED
      BY <2>1, <2>2, <3>2, Zenon DEF TypeOK, Pcs
  <2>4. BoundsInv'
    <3>1. reg[t].old < MaxLoggerSize /\ reg[t].size \in {BranchSize, RdtscSize}
      BY <2>1 DEF BoundsInv
    <3>2. reg[t].old \in Nat /\ reg[t].size \in Nat
      BY <1>t
    <3>3. reg[t].old + reg[t].size <= Limit
      BY <3>1, <3>2, <1>m DEF Limit
    <3>4. /\ current'[t] = reg[t].old + reg[t].size /\ pc'[t] = "check"
          /\ \A s \in Threads : s # t => current'[s] = current[s] /\ pc'[s] = pc[s]
      BY <2>1, <1>t
    <3> QED
      BY <2>1, <3>3, <3>4 DEF BoundsInv
  <2> QED
    BY <2>3, <2>4
<1>7. ASSUME NEW t \in Threads, do_check_logger_buffer(t) \/ flush_logger(t)
      PROVE  TypeInv'
  <2>1. /\ pc' = [pc EXCEPT ![t] = "run"]
        /\ UNCHANGED <<lock, tlsLock, logged, bounds, torn, count, reg, fa>>
    BY <1>7 DEF do_check_logger_buffer, flush_logger, Goto
  <2>2. CASE flush_logger_buffer(t)
    <3>1. /\ current' \in [Threads -> Nat]
          /\ mem' \in [Threads -> [Cells -> Unit]]
          /\ file' \in [Threads -> Seq(BlockSet)]
          /\ flushed' \in [Threads -> Seq(Unit)]
          /\ current' = [current EXCEPT ![t] = 0]
      BY <2>2, FlushType
    <3>2. TypeOK'
      BY <2>1, <3>1, Zenon DEF TypeOK, BlockSet, Pcs
    <3>3. BoundsInv'
      <4>1. /\ current'[t] < MaxLoggerSize
            /\ \A s \in Threads : s # t => current'[s] = 0 \/ current'[s] = current[s]
        BY <3>1, <1>t, <1>m
      <4> QED
        BY <2>1, <3>1, <4>1, BoundsKept, Zenon
    <3> QED
      BY <3>2, <3>3
  <2>3. CASE current[t] < MaxLoggerSize /\ UNCHANGED <<current, mem, file, flushed>>
    <3>1. TypeOK'
      BY <2>1, <2>3, Zenon DEF TypeOK, Pcs
    <3>2. BoundsInv'
      BY <2>1, <2>3, <1>t, <1>m DEF BoundsInv, Limit
    <3> QED
      BY <3>1, <3>2
  <2> QED
    BY <1>7, <1>t, <1>m, <2>2, <2>3 DEF do_check_logger_buffer, flush_logger
<1>8. ASSUME NEW t \in Threads,
             FaStart(t) \/ (\E p \in Threads : FaLock(t, p)) \/ FaDone(t) \/ ProcessExit(t)
      PROVE  TypeInv'
  <2>1. /\ UNCHANGED <<current, mem, file, flushed, logged, bounds, torn, count, reg>>
        /\ pc[t] # "check"
        /\ \E l \in {"fa_next", "fa_compress", "exit", "dead"} : pc' = [pc EXCEPT ![t] = l]
    BY <1>8 DEF FaStart, FaLock, FaDone, ProcessExit, Goto
  <2>2. /\ lock' \in [Threads -> Threads \cup {None}]
        /\ tlsLock' \in Threads \cup {None}
        /\ fa' \in [Threads -> [todo : SUBSET Threads, pos : Threads, log_sz : Nat]]
    <3>1. CASE FaStart(t)
      <4>1. /\ lock' = lock /\ tlsLock' = t
            /\ fa' = [fa EXCEPT ![t].todo = Threads]
        BY <3>1 DEF FaStart
      <4>2. /\ lock \in [Threads -> Threads \cup {None}]
            /\ fa \in [Threads -> [todo : SUBSET Threads, pos : Threads, log_sz : Nat]]
        BY Zenon DEF TypeOK
      <4> QED
        BY <4>1, <4>2
    <3>2. ASSUME NEW p \in Threads, FaLock(t, p) PROVE <2>2
      BY <3>2, Zenon DEF FaLock, TypeOK
    <3>3. CASE FaDone(t) \/ ProcessExit(t)
      BY <3>3, Zenon DEF FaDone, ProcessExit, TypeOK
    <3> QED
      BY <1>8, <3>1, <3>2, <3>3
  <2>3. TypeOK'
    <3>1. pc' \in [Threads -> Pcs]
      BY <2>1 DEF TypeOK, Pcs
    <3> QED
      BY <2>1, <2>2, <3>1, Zenon DEF TypeOK
  <2>4. BoundsInv'
    BY <2>1, <1>t DEF BoundsInv
  <2> QED
    BY <2>3, <2>4
<1>9. ASSUME NEW t \in Threads, FaCompress(t) PROVE TypeInv'
  <2> DEFINE p == fa[t].pos
  <2>1. p \in Threads /\ fa[t].log_sz \in Nat
    BY Zenon DEF TypeOK
  <2>2. Buffered(p) \in Seq(Nat)
    BY <2>1, OperandTypes, Zenon
  <2>3. Append(file[p], Block(COMPRESSED, fa[t].log_sz, Buffered(p))) \in Seq(BlockSet)
    BY <1>t, <2>1, <2>2, BlockType, Zenon
  <2>4. flushed[p] \o Buffered(p) \in Seq(Nat)
    BY <1>t, <2>1, <2>2, ConcatProperties
  <2>5. /\ file' \in [Threads -> Seq(BlockSet)]
        /\ flushed' \in [Threads -> Seq(Nat)]
        /\ pc' = [pc EXCEPT ![t] = "fa_reset"] /\ pc[t] = "fa_compress"
        /\ UNCHANGED <<current, mem, lock, tlsLock, logged, bounds, torn, count,
                       reg, fa>>
    BY <1>9, <1>t, <2>1, <2>3, <2>4, Zenon DEF FaCompress, Goto
  <2>6. TypeOK'
    BY <2>5, <1>t, Zenon DEF TypeOK, Unit, BlockSet, Pcs
  <2>7. BoundsInv'
    BY <2>5, <1>t DEF BoundsInv
  <2> QED
    BY <2>6, <2>7
<1>10. ASSUME NEW t \in Threads, FaReset(t) PROVE TypeInv'
  <2> DEFINE p == fa[t].pos
  <2>1. p \in Threads
    BY DEF TypeOK
  <2>2. Cleared(mem[p]) \in [Cells -> Nat]
    BY <2>1, OperandTypes, Zenon
  <2>3. /\ mem' \in [Threads -> [Cells -> Nat]]
        /\ current' = [current EXCEPT ![p] = 0]
        /\ lock' \in [Threads -> Threads \cup {None}]
        /\ torn' \in [Threads -> BOOLEAN]
        /\ pc' = [pc EXCEPT ![t] = "fa_next"] /\ pc[t] = "fa_reset"
        /\ UNCHANGED <<tlsLock, file, flushed, logged, bounds, count, reg, fa>>
    BY <1>10, <1>t, <2>1, <2>2, Zenon DEF FaReset, Goto, TypeOK
  <2>4. TypeOK'
    BY <2>1, <2>3, <1>t, ZenonT(40) DEF TypeOK, Unit, Pcs
  <2>5. /\ current' \in [Threads -> Nat]
        /\ current'[t] < MaxLoggerSize
        /\ \A s \in Threads : s # t => current'[s] = 0 \/ current'[s] = current[s]
    <3>1. current[t] < MaxLoggerSize
      BY <2>3 DEF BoundsInv
    <3> QED
      BY <2>1, <2>3, <3>1, <1>t, <1>m
  <2>6. BoundsInv'
    BY <2>3, <2>5, BoundsKept, Zenon
  <2> QED
    BY <2>4, <2>6
<1>11. CASE UNCHANGED vars
  BY <1>11, Zenon DEF vars, TypeOK, BoundsInv
<1> QED
  BY <1>1, <1>2, <1>3, <1>4, <1>5, <1>6, <1>7, <1>8, <1>9, <1>10, <1>11 DEF Next, Step

\* Types and bounds hold in every state.
THEOREM TypeInvariant == Spec => []TypeInv
<1> QED
  BY TypeInit, TypeStep, PTL DEF Spec

\* The recorder's variables keep their types, whatever the threads do.
THEOREM TypeCorrect == Spec => []TypeOK
<1>1. TypeInv => TypeOK
  BY DEF TypeInv
<1> QED
  BY <1>1, TypeInvariant, PTL

\* With records that start on the grid the additional space is measured in
\* (RdtscSize <= Additional + 1), no log phase stores outside the allocation of
\* MAX_LOGGER_SIZE + LOGGER_ADDITIONAL_BYTES.
THEOREM OverrunFree ==
  ASSUME RdtscSize <= Additional + 1
  PROVE  Spec => []NoOverrun
<1>1. TypeInv => NoOverrun
  <2> SUFFICES ASSUME TypeInv, NEW t \in Threads
               PROVE  /\ current[t] <= MaxLoggerSize + Additional
                      /\ pc[t] = "store" =>
                           reg[t].ebx + reg[t].size <= MaxLoggerSize + Additional
    BY DEF NoOverrun
  <2>1. /\ current[t] \in Nat /\ reg[t].ebx \in Nat /\ reg[t].size \in Nat
    BY Zenon DEF TypeInv, TypeOK
  <2>2. /\ current[t] <= MaxLoggerSize + RdtscSize - 1
        /\ pc[t] = "store" => /\ reg[t].ebx < MaxLoggerSize
                              /\ reg[t].size \in {BranchSize, RdtscSize}
    BY DEF TypeInv, BoundsInv, Limit
  <2> QED
    BY <2>1, <2>2, LoggerAssumption
<1> QED
  BY <1>1, TypeInvariant, PTL

\* Unless an entry is exactly as large as the buffer, the assertion of
\* append_buffer on the size of a direct write never fails.
THEOREM AssertionHolds ==
  ASSUME MaxLoggerSize \notin AppendSizes
  PROVE  Spec => []NoAssertFailure
<1>1. Init => NoAssertFailure
  BY DEF Init, NoAssertFailure
<1>2. TypeInv /\ NoAssertFailure /\ [Next]_vars => NoAssertFailure'
  <2> SUFFICES ASSUME TypeInv, NoAssertFailure, [Next]_vars PROVE NoAssertFailure'
    OBVIOUS
  <2>t. pc \in [Threads -> Pcs]
    BY DEF TypeInv, TypeOK
  <2>1. ASSUME NEW t \in Threads, NEW n \in AppendSizes PROVE ~AppendAssertFails(t, n)
    BY <2>1, LoggerAssumption DEF AppendAssertFails, Fits
  <2>2. ASSUME NEW t \in Threads, NEW n \in AppendSizes, NEW next \in {"run", "flush", "exiting"},
               append_buffer(t, n, next)
        PROVE  NoAssertFailure'
    BY <2>2, <2>t DEF append_buffer, Goto, NoAssertFailure
  <2>3. ASSUME NEW t \in Threads, NEW n \in {BranchSize, RdtscSize}, LogLoad(t, n)
        PROVE  NoAssertFailure'
    BY <2>3, <2>t DEF LogLoad, Goto, NoAssertFailure
  <2>4. ASSUME NEW t \in Threads,
               \/ LogStore(t) \/ LogAddlRead(t) \/ LogCommit(t)
               \/ do_check_logger_buffer(t) \/ flush_logger(t)
        PROVE  NoAssertFailure'
    BY <2>4, <2>t DEF LogStore, LogAddlRead, LogCommit, do_check_logger_buffer,
                      flush_logger, Goto, NoAssertFailure
  <2>5. ASSUME NEW t \in Threads,
               \/ FaStart(t) \/ FaCompress(t) \/ FaReset(t) \/ FaDone(t)
               \/ ProcessExit(t) \/ \E p \in Threads : FaLock(t, p)
        PROVE  NoAssertFailure'
    BY <2>5, <2>t, Zenon DEF FaStart, FaLock, FaCompress, FaReset, FaDone, ProcessExit,
                      Goto, NoAssertFailure
  <2>6. CASE UNCHANGED vars
    BY <2>6 DEF vars, NoAssertFailure
  <2> QED
    BY <2>1, <2>2, <2>3, <2>4, <2>5, <2>6 DEF Next, Step
<1> QED
  BY <1>1, <1>2, TypeInvariant, PTL DEF Spec

-----------------------------------------------------------------------------
(* The log file followed by the log buffer is the log, for every thread    *)
(* whose log phases no foreign flush has interrupted, and what follows for *)
(* the blocks of the file and for a process that exits.                    *)

\* What a thread has logged and its file does not hold yet
Pending(t) == IF Rewinding(t) THEN <<>> ELSE Buffered(t)

\* A thread inside a flush of a logger holds that logger's lock.
LockInv ==
  \A t \in Threads :
    pc[t] \in {"fa_compress", "fa_reset"} => lock[fa[t].pos] = t

\* The stream of one thread: file and buffer make up the log, blocks end
\* between entries, tags hold the size of the data.
StreamAt(t) ==
  /\ logged[t] = flushed[t] \o Pending(t)
  /\ Len(logged[t]) \in bounds[t]
  /\ Len(flushed[t]) \in bounds[t]
  /\ \A i \in DOMAIN file[t] : file[t][i].real_sz = Len(file[t][i].data)

\* Inside a log phase the registers agree with the logger, and the entry that
\* was stored lies behind log_buffer_current.
PhaseAt(t) ==
  /\ pc[t] \in {"store", "addl", "commit"} => reg[t].ebx = current[t]
  /\ pc[t] \in {"addl", "commit"} =>
       \A i \in Cells : current[t] <= i /\ i < current[t] + reg[t].size
                          => mem[t][i] = count[t] + 1
  /\ pc[t] = "commit" => reg[t].old = current[t]

StreamInv == \A t \in Threads : ~torn[t] => StreamAt(t) /\ PhaseAt(t)

\* A foreign flush tags a block with the size it is about to compress.
TagInv ==
  \A t \in Threads :
    pc[t] = "fa_compress" /\ ~torn[fa[t].pos] => fa[t].log_sz = current[fa[t].pos]

\* The buffer of a thread that has flushed itself in flush_all_logger, or has
\* left it, stays empty.
Drained(t) ==
  \/ pc[t] \in {"exit", "dead"}
  \/ pc[t] = "fa_next" /\ t \notin fa[t].todo
  \/ pc[t] \in {"fa_compress", "fa_reset"} /\ t \notin fa[t].todo /\ fa[t].pos # t

DrainInv == \A t \in Threads : Drained(t) => current[t] = 0

OrderInv == TypeInv /\ LockInv /\ StreamInv /\ TagInv /\ DrainInv

-----------------------------------------------------------------------------
\* A logger that is not locked is not being rewound by another thread.
LEMMA NotRewinding ==
  ASSUME LockInv, NEW t \in Threads, lock[t] = None
  PROVE  ~Rewinding(t)
BY LoggerAssumption DEF LockInv, Rewinding

\* A thread whose own state does not change keeps its stream and its phase.
LEMMA StreamFrame ==
  ASSUME NEW u \in Threads, StreamAt(u), PhaseAt(u),
         Rewinding(u)' = Rewinding(u),
         current'[u] = current[u], mem'[u] = mem[u], file'[u] = file[u],
         flushed'[u] = flushed[u], logged'[u] = logged[u], bounds'[u] = bounds[u],
         count'[u] = count[u], pc'[u] = pc[u], reg'[u] = reg[u]
  PROVE  StreamAt(u)' /\ PhaseAt(u)'
<1>1. Buffered(u)' = Buffered(u)
  BY DEF Buffered
<1>2. Pending(u)' = Pending(u)
  BY <1>1, Zenon DEF Pending
<1>3. StreamAt(u)'
  BY <1>2, SMTT(30) DEF StreamAt
<1>4. PhaseAt(u)'
  BY DEF PhaseAt
<1> QED
  BY <1>3, <1>4

\* A thread outside a log phase keeps its stream when only its control moves.
LEMMA RestFrame ==
  ASSUME NEW u \in Threads, StreamAt(u), Rewinding(u)' = Rewinding(u),
         pc'[u] \notin {"store", "addl", "commit"},
         current'[u] = current[u], mem'[u] = mem[u], file'[u] = file[u],
         flushed'[u] = flushed[u], logged'[u] = logged[u], bounds'[u] = bounds[u]
  PROVE  StreamAt(u)' /\ PhaseAt(u)'
<1>1. Buffered(u)' = Buffered(u)
  BY Zenon DEF Buffered
<1>2. Pending(u)' = Pending(u)
  BY <1>1 DEF Pending
<1> QED
  BY <1>2 DEF StreamAt, PhaseAt

\* A thread that works on its own logger, outside flush_all_logger, keeps what
\* holds of the flushes of the others: it waits for the lock, or it marks its
\* log phase as torn.
LEMMA OwnStep ==
  ASSUME OrderInv, NEW t \in Threads,
         NEW l \in Pcs \ {"fa_next", "fa_compress", "fa_reset", "exit", "dead"},
         pc' = [pc EXCEPT ![t] = l],
         pc[t] \notin {"fa_next", "fa_compress", "fa_reset", "exit", "dead"},
         fa' = fa,
         lock' = lock \/ (lock[t] = None /\ lock' = [lock EXCEPT ![t] = t]),
         \A s \in Threads : s # t => current'[s] = current[s] /\ torn'[s] = torn[s],
         torn[t] => torn'[t],
         lock[t] = None \/ current'[t] = current[t] \/ torn'[t]
  PROVE  /\ LockInv' /\ TagInv' /\ DrainInv'
         /\ \A u \in Threads : Rewinding(u)' = Rewinding(u)
<1>t. /\ pc \in [Threads -> Pcs] /\ lock \in [Threads -> Threads \cup {None}]
      /\ \A s \in Threads : fa[s].pos \in Threads
      /\ None \notin Threads
  BY LoggerAssumption, Zenon DEF OrderInv, TypeInv, TypeOK
<1>1. \A s \in Threads : pc'[s] = IF s = t THEN l ELSE pc[s]
  BY <1>t
<1>2. \A s \in Threads : pc'[s] \in {"fa_compress", "fa_reset"} =>
        /\ s # t /\ pc[s] = pc'[s] /\ lock[fa[s].pos] = s
  BY <1>1 DEF OrderInv, LockInv
<1>3. LockInv'
  <2> SUFFICES ASSUME NEW s \in Threads, pc'[s] \in {"fa_compress", "fa_reset"}
               PROVE  lock'[fa[s].pos] = s
    BY DEF LockInv
  <2> QED
    BY <1>t, <1>2
<1>4. TagInv'
  <2> SUFFICES ASSUME NEW s \in Threads, pc'[s] = "fa_compress", ~torn'[fa[s].pos]
               PROVE  fa[s].log_sz = current'[fa[s].pos]
    BY DEF TagInv
  <2>1. pc[s] = "fa_compress" /\ lock[fa[s].pos] = s
    BY <1>2
  <2>2. CASE fa[s].pos = t
    BY <1>t, <2>1, <2>2 DEF OrderInv, TagInv
  <2>3. CASE fa[s].pos # t
    BY <1>t, <2>1, <2>3 DEF OrderInv, TagInv
  <2> QED
    BY <2>2, <2>3
<1>5. DrainInv'
  <2> SUFFICES ASSUME NEW u \in Threads, Drained(u)' PROVE current'[u] = 0
    BY DEF DrainInv
  <2>1. u # t
    BY <1>1 DEF Drained
  <2>2. Drained(u)
    BY <2>1, <1>1 DEF Drained
  <2> QED
    BY <2>1, <2>2 DEF OrderInv, DrainInv
<1>6. ASSUME NEW u \in Threads PROVE Rewinding(u)' = Rewinding(u)
  BY <1>1 DEF Rewinding
<1> QED
  BY <1>3, <1>4, <1>5, <1>6, Zenon
-----------------------------------------------------------------------------
TagsOf(f) == \A i \in DOMAIN f : f[i].real_sz = Len(f[i].data)

\* A block tagged with the size of its data keeps a file's tags right.
LEMMA TagsAppend ==
  ASSUME NEW f \in Seq(BlockSet), TagsOf(f), NEW mark \in {COMPRESSED, UNCOMPRESSED},
         NEW data \in Seq(Nat)
  PROVE  TagsOf(Append(f, Block(mark, Len(data), data)))
<1> DEFINE b == Block(mark, Len(data), data)
           g == Append(f, b)
<1>1. b \in BlockSet /\ b.real_sz = Len(b.data)
  BY DEF Block, BlockSet, Unit
<1> HIDE DEF b
<1>2. /\ DOMAIN g = 1 .. Len(f) + 1
      /\ \A i \in 1 .. Len(f) : g[i] = f[i]
      /\ g[Len(f) + 1] = b
      /\ DOMAIN f = 1 .. Len(f) /\ Len(f) \in Nat
  BY <1>1
<1>3. ASSUME NEW i \in DOMAIN g PROVE g[i].real_sz = Len(g[i].data)
  <2>1. CASE i = Len(f) + 1
    BY <1>1, <1>2, <2>1
  <2>2. CASE i # Len(f) + 1
    <3>1. i \in 1 .. Len(f)
      BY <1>2, <2>2
    <3> QED
      BY <1>2, <3>1 DEF TagsOf
  <2> QED
    BY <2>1, <2>2
<1> QED
  BY <1>3 DEF TagsOf, b

\* Concatenation of streams is associative.
LEMMA StreamAssociative ==
  ASSUME NEW x \in Seq(Nat), NEW y \in Seq(Nat), NEW z \in Seq(Nat)
  PROVE  (x \o y) \o z = x \o (y \o z)
BY SMTT(30)

\* Storing an entry at log_buffer_current and moving it appends the entry to
\* what the next flush writes.
LEMMA StoreGrows ==
  ASSUME NEW m \in [Cells -> Nat], NEW c \in Nat, NEW v \in Nat, NEW n \in Nat,
         c + n <= Limit
  PROVE  View(Stored(m, c, v, n), c + n) = View(m, c) \o Copies(v, n)
<1>1. /\ Stored(m, c, v, n) \in [Cells -> Nat]
      /\ \A i \in Cells : c <= i /\ i < c + n => Stored(m, c, v, n)[i] = v
  BY StoredType
<1>2. View(Stored(m, c, v, n), c + n) = View(Stored(m, c, v, n), c) \o Copies(v, n)
  BY <1>1, ViewGrows, ZenonT(40)
<1>3. c <= Limit
  BY LoggerAssumption DEF Limit
<1> QED
  BY <1>2, <1>3, ViewKept, Zenon

\* The facts about one thread's stream that its own steps start from
LEMMA StreamFacts ==
  ASSUME OrderInv, NEW t \in Threads, ~torn[t], lock[t] = None
  PROVE  /\ flushed[t] \in Seq(Nat) /\ Buffered(t) \in Seq(Nat)
         /\ logged[t] \in Seq(Nat) /\ file[t] \in Seq(BlockSet)
         /\ logged[t] = flushed[t] \o Buffered(t)
         /\ Len(Buffered(t)) = current[t]
         /\ current[t] \in Nat /\ count[t] + 1 \in Nat
         /\ mem[t] \in [Cells -> Nat] /\ Cleared(mem[t]) \in [Cells -> Nat]
         /\ Len(logged[t]) \in bounds[t] /\ Len(flushed[t]) \in bounds[t]
         /\ TagsOf(file[t])
         /\ TagsOf(Append(file[t], Block(COMPRESSED, current[t], Buffered(t))))
         /\ Append(file[t], Block(COMPRESSED, current[t], Buffered(t))) \in Seq(BlockSet)
<1>1. /\ flushed[t] \in Seq(Nat) /\ logged[t] \in Seq(Nat)
      /\ file[t] \in Seq(BlockSet) /\ current[t] \in Nat
      /\ count[t] + 1 \in Nat /\ mem[t] \in [Cells -> Nat]
  <2>1. /\ flushed \in [Threads -> Seq(Nat)] /\ logged \in [Threads -> Seq(Nat)]
        /\ file \in [Threads -> Seq(BlockSet)] /\ current \in [Threads -> Nat]
        /\ count \in [Threads -> Nat] /\ mem \in [Threads -> [Cells -> Nat]]
    BY ZenonT(40) DEF OrderInv, TypeInv, TypeOK, Unit, BlockSet
  <2> QED
    BY <2>1
<1>2. /\ Buffered(t) \in Seq(Nat) /\ Len(Buffered(t)) = current[t]
      /\ Cleared(mem[t]) \in [Cells -> Nat]
  BY OperandTypes DEF OrderInv
<1>3. ~Rewinding(t)
  BY NotRewinding DEF OrderInv
<1>4. StreamAt(t)
  BY DEF OrderInv, StreamInv
<1>5. logged[t] = flushed[t] \o Buffered(t)
  BY <1>3, <1>4 DEF StreamAt, Pending
<1>6. TagsOf(file[t])
  BY <1>4 DEF StreamAt, TagsOf
<1>7. /\ TagsOf(Append(file[t], Block(COMPRESSED, current[t], Buffered(t))))
      /\ Append(file[t], Block(COMPRESSED, current[t], Buffered(t))) \in Seq(BlockSet)
  BY <1>1, <1>2, <1>6, TagsAppend, BlockType
<1> QED
  BY <1>1, <1>2, <1>4, <1>5, <1>6, <1>7 DEF StreamAt

\* append_buffer keeps the stream of the calling thread, whichever way the
\* entry takes.
LEMMA AppendStream ==
  ASSUME OrderInv, NEW t \in Threads, NEW n \in AppendSizes, ~torn[t], lock[t] = None,
         \/ AppendInPlace(t, n) \/ AppendAfterFlush(t, n) \/ AppendDirect(t, n),
         ~Rewinding(t)'
  PROVE  StreamAt(t)'
<1> DEFINE v == count[t] + 1
           data == Copies(v, n)
           b == Buffered(t)
<1>1. n \in Nat /\ 0 < n /\ MaxLoggerSize \in Nat /\ RdtscSize \in Nat /\ 0 < RdtscSize
  BY LoggerAssumption
<1>2. /\ flushed[t] \in Seq(Nat) /\ b \in Seq(Nat) /\ logged[t] \in Seq(Nat)
      /\ logged[t] = flushed[t] \o b
      /\ current[t] \in Nat /\ v \in Nat
      /\ mem[t] \in [Cells -> Nat] /\ Cleared(mem[t]) \in [Cells -> Nat]
      /\ Len(logged[t]) \in bounds[t] /\ Len(flushed[t]) \in bounds[t]
  BY StreamFacts, Zenon
<1>3. data \in Seq(Nat) /\ Len(data) = n
  BY <1>1, <1>2, CopiesType, Zenon
<1>4. /\ logged'[t] = logged[t] \o data
      /\ bounds'[t] = bounds[t] \cup {Len(logged[t]) + n}
  <2>1. Record(t, n)
    BY AppendType DEF OrderInv
  <2> QED
    BY <2>1, Zenon DEF Record, OrderInv, TypeInv, TypeOK
<1> HIDE DEF v, data, b
<1>5. /\ Len(logged'[t]) \in bounds'[t]
      /\ (logged[t] \o data) \in Seq(Nat)
      /\ Len(logged[t] \o data) = Len(logged[t]) + n
  <2>1. /\ (logged[t] \o data) \in Seq(Nat)
        /\ Len(logged[t] \o data) = Len(logged[t]) + Len(data)
    BY <1>2, <1>3, ConcatProperties, Zenon
  <2> QED
    BY <1>3, <1>4, <2>1
<1>6. Pending(t)' = Buffered(t)'
  BY DEF Pending
<1>u. /\ file \in [Threads -> Seq(BlockSet)] /\ flushed \in [Threads -> Seq(Nat)]
      /\ current \in [Threads -> Nat] /\ mem \in [Threads -> [Cells -> Nat]]
  BY Zenon DEF OrderInv, TypeInv, TypeOK, Unit, BlockSet
<1>7. CASE AppendInPlace(t, n)
  <2>1. /\ current'[t] = current[t] + n /\ mem'[t] = Stored(mem[t], current[t], v, n)
        /\ file'[t] = file[t] /\ flushed'[t] = flushed[t]
        /\ current[t] + n < MaxLoggerSize
    BY <1>7, <1>u, Zenon DEF AppendInPlace, Fits, v
  <2>2. current[t] + n <= Limit
    <3>1. n \in Nat /\ current[t] \in Nat
      BY <1>1, <1>2
    <3>2. MaxLoggerSize <= Limit
      BY LoggerAssumption DEF Limit
    <3>3. Limit \in Nat /\ MaxLoggerSize \in Nat
      BY LoggerAssumption DEF Limit
    <3> QED
      BY <2>1, <3>1, <3>2, <3>3
  <2>3. Buffered(t)' = b \o data
    <3>1. n \in Nat /\ current[t] \in Nat /\ v \in Nat /\ mem[t] \in [Cells -> Nat]
      BY <1>1, <1>2
    <3>2. View(Stored(mem[t], current[t], v, n), current[t] + n)
            = View(mem[t], current[t]) \o Copies(v, n)
      BY <3>1, <2>2, StoreGrows, ZenonT(40)
    <3> QED
      BY <2>1, <3>2, SMTT(30) DEF Buffered, b, data
  <2>4. logged'[t] = flushed'[t] \o Buffered(t)'
    <3>0. flushed[t] \in Seq(Nat) /\ b \in Seq(Nat) /\ data \in Seq(Nat)
      BY <1>2, <1>3
    <3>1. (flushed[t] \o b) \o data = flushed[t] \o (b \o data)
      BY <3>0, StreamAssociative, ZenonT(40)
    <3> QED
      BY <1>2, <1>4, <2>1, <2>3, <3>1, Zenon
  <2>5. TagsOf(file'[t])
    BY <2>1, StreamFacts, Zenon
  <2> QED
    BY <1>2, <1>4, <1>5, <1>6, <2>1, <2>4, <2>5, Zenon DEF StreamAt, TagsOf
<1>8. CASE AppendAfterFlush(t, n)
  <2>1. /\ current'[t] = n /\ mem'[t] = Stored(Cleared(mem[t]), 0, v, n)
        /\ file'[t] = Append(file[t], Block(COMPRESSED, current[t], b))
        /\ flushed'[t] = flushed[t] \o b
        /\ 0 + n < MaxLoggerSize
    BY <1>8, <1>u DEF AppendAfterFlush, Fits, v, b
  <2>2. 0 + n <= Limit
    BY <1>1, <2>1 DEF Limit
  <2>3. View(Stored(Cleared(mem[t]), 0, v, n), 0 + n) = View(Cleared(mem[t]), 0) \o data
    <3>1. n \in Nat /\ 0 \in Nat /\ v \in Nat /\ Cleared(mem[t]) \in [Cells -> Nat]
      BY <1>1, <1>2
    <3> QED
      BY <3>1, <2>2, StoreGrows, Zenon DEF data
  <2>4. Buffered(t)' = data
    <3>1. 0 + n = n
      BY <1>1, SMTT(30)
    <3> QED
      BY <1>3, <2>1, <2>3, <3>1, ViewEmpty, ConcatEmptySeq, Zenon DEF Buffered
  <2>5. logged'[t] = flushed'[t] \o Buffered(t)'
    BY <1>2, <1>4, <2>1, <2>4, SMTT(30)
  <2>6. TagsOf(file'[t])
    BY <2>1, StreamFacts DEF b
  <2>7. Len(flushed'[t]) \in bounds'[t]
    BY <1>2, <1>4, <2>1, ZenonT(40)
  <2> QED
    BY <1>5, <1>6, <2>5, <2>6, <2>7, Zenon DEF StreamAt, TagsOf
<1>9. CASE AppendDirect(t, n)
  <2>1. /\ current'[t] = 0
        /\ file'[t] = Append(FileFlushed(t), Block(UNCOMPRESSED, n, data))
        /\ flushed'[t] = flushed[t] \o b \o data
    BY <1>9, <1>u, SMTT(30) DEF AppendDirect, v, b, data
  <2>2. Buffered(t)' = <<>>
    BY <2>1, ViewEmpty DEF Buffered
  <2>3. logged'[t] = flushed'[t] \o Buffered(t)'
    BY <1>2, <1>4, <1>5, <2>1, <2>2, ConcatEmptySeq, Zenon
  <2>4. FileFlushed(t) \in Seq(BlockSet) /\ TagsOf(FileFlushed(t))
    BY StreamFacts DEF FileFlushed
  <2>5. TagsOf(file'[t])
    BY <1>3, <2>1, <2>4, TagsAppend
  <2>6. Len(flushed'[t]) \in bounds'[t]
    BY <1>2, <1>4, <1>5, <2>1, Zenon
  <2> QED
    BY <1>5, <1>6, <2>3, <2>5, <2>6, SMTT(30) DEF StreamAt, TagsOf
<1> QED
  BY <1>7, <1>8, <1>9
\* A thread that flushes its own logger keeps its stream.
LEMMA FlushStream ==
  ASSUME OrderInv, NEW t \in Threads, ~torn[t], lock[t] = None,
         flush_logger_buffer(t), logged' = logged, bounds' = bounds
  PROVE  StreamAt(t)'
<1>1. /\ flushed'[t] = logged[t] /\ current'[t] = 0
      /\ file'[t] = Append(file[t], Block(COMPRESSED, current[t], Buffered(t)))
  BY StreamFacts, ZenonT(40) DEF flush_logger_buffer, OrderInv, TypeInv, TypeOK
<1>2. Pending(t)' = <<>>
  BY <1>1, ViewEmpty DEF Pending, Buffered
<1>3. logged'[t] = flushed'[t] \o Pending(t)'
  BY <1>1, <1>2, StreamFacts, ConcatEmptySeq, SMTT(30)
<1>4. TagsOf(file'[t])
  BY <1>1, StreamFacts
<1> QED
  BY <1>1, <1>3, <1>4, StreamFacts, Zenon DEF StreamAt, TagsOf

\* The commit of a log phase, with the logger unlocked, appends the entry.
LEMMA CommitStream ==
  ASSUME OrderInv, NEW t \in Threads, LogCommit(t), ~torn'[t], ~Rewinding(t)'
  PROVE  StreamAt(t)'
<1> DEFINE n == reg[t].size
           data == Copies(count[t] + 1, n)
<1>1. ~torn[t] /\ lock[t] = None
  BY Zenon DEF LogCommit, OrderInv, TypeInv, TypeOK
<1>2. /\ flushed[t] \in Seq(Nat) /\ Buffered(t) \in Seq(Nat) /\ logged[t] \in Seq(Nat)
      /\ logged[t] = flushed[t] \o Buffered(t)
      /\ current[t] \in Nat /\ count[t] + 1 \in Nat
      /\ mem[t] \in [Cells -> Nat]
      /\ Len(logged[t]) \in bounds[t] /\ Len(flushed[t]) \in bounds[t]
      /\ TagsOf(file[t])
  BY <1>1, StreamFacts, Zenon
<1>3. n \in Nat /\ n <= RdtscSize
  <2>1. n \in {BranchSize, RdtscSize}
    BY Zenon DEF LogCommit, OrderInv, TypeInv, BoundsInv
  <2> QED
    BY <2>1, LoggerAssumption
<1>4. /\ reg[t].old = current[t]
      /\ \A i \in Cells : current[t] <= i /\ i < current[t] + n => mem[t][i] = count[t] + 1
      /\ current[t] < MaxLoggerSize
  BY <1>1, Zenon DEF LogCommit, OrderInv, StreamInv, PhaseAt, TypeInv, BoundsInv
<1>5. current[t] + n <= Limit
  BY <1>2, <1>3, <1>4, LoggerAssumption, SMTT(30) DEF Limit
<1>6. /\ current'[t] = current[t] + n /\ mem' = mem /\ file' = file /\ flushed' = flushed
      /\ logged'[t] = logged[t] \o data
      /\ bounds'[t] = bounds[t] \cup {Len(logged[t]) + n}
  BY <1>4, Zenon DEF LogCommit, Record, OrderInv, TypeInv, TypeOK
<1>7. Buffered(t)' = Buffered(t) \o data
  <2>1. View(mem[t], current[t] + n) = View(mem[t], current[t]) \o data
    BY <1>2, <1>3, <1>4, <1>5, ViewGrows, Zenon
  <2> QED
    BY <1>6, <2>1 DEF Buffered
<1>8. data \in Seq(Nat) /\ Len(data) = n
  BY <1>2, <1>3, CopiesType, Zenon
<1> HIDE DEF data
<1>9. logged'[t] = flushed'[t] \o Pending(t)'
  <2>1. flushed[t] \in Seq(Nat) /\ Buffered(t) \in Seq(Nat) /\ data \in Seq(Nat)
    BY <1>2, <1>8
  <2>2. (flushed[t] \o Buffered(t)) \o data = flushed[t] \o (Buffered(t) \o data)
    BY <2>1, StreamAssociative, Zenon
  <2> QED
    BY <1>2, <1>6, <1>7, <2>2, Zenon DEF Pending
<1>10. Len(logged'[t]) \in bounds'[t]
  <2>1. Len(logged[t] \o data) = Len(logged[t]) + Len(data)
    BY <1>2, <1>8, ConcatProperties, Zenon
  <2> QED
    BY <1>6, <1>8, <2>1
<1> QED
  BY <1>2, <1>6, <1>9, <1>10 DEF StreamAt, TagsOf

\* Storing the entry of a log phase leaves the stream alone.
LEMMA StoreStream ==
  ASSUME OrderInv, NEW t \in Threads, LogStore(t), ~torn[t],
         Rewinding(t)' = Rewinding(t)
  PROVE  StreamAt(t)' /\ PhaseAt(t)'
<1>1. /\ reg[t].ebx = current[t] /\ StreamAt(t)
  BY DEF OrderInv, StreamInv, PhaseAt, LogStore
<1>2. /\ mem[t] \in [Cells -> Nat] /\ current[t] \in Nat /\ current[t] <= Limit
      /\ count[t] + 1 \in Nat /\ reg[t].size \in Nat
  <2>1. /\ mem \in [Threads -> [Cells -> Nat]] /\ current \in [Threads -> Nat]
        /\ count \in [Threads -> Nat]
        /\ reg \in [Threads -> [size : Nat, ebx : Nat, old : Nat]]
    BY Zenon DEF OrderInv, TypeInv, TypeOK, Unit
  <2>2. current[t] <= Limit
    BY DEF OrderInv, TypeInv, BoundsInv
  <2> QED
    BY <2>1, <2>2
<1>3. /\ mem'[t] = Stored(mem[t], current[t], count[t] + 1, reg[t].size)
      /\ pc'[t] = "addl" /\ current' = current /\ file' = file /\ flushed' = flushed
      /\ logged' = logged /\ bounds' = bounds /\ count' = count /\ reg' = reg
  <2>1. mem \in [Threads -> [Cells -> Nat]] /\ pc \in [Threads -> Pcs]
    BY SMTT(30) DEF OrderInv, TypeInv, TypeOK, Unit
  <2>2. /\ mem' = [mem EXCEPT ![t] = Stored(@, reg[t].ebx, count[t] + 1, reg[t].size)]
        /\ pc' = [pc EXCEPT ![t] = "addl"]
        /\ UNCHANGED <<current, file, flushed, logged, bounds, count, reg>>
    BY DEF LogStore, Goto
  <2> QED
    BY <1>1, <2>1, <2>2
<1>4. Buffered(t)' = Buffered(t)
  <2>1. View(Stored(mem[t], current[t], count[t] + 1, reg[t].size), current[t])
          = View(mem[t], current[t])
    BY <1>2, ViewKept, ZenonT(40)
  <2>2. View(mem'[t], current'[t]) = View(mem[t], current[t])
    BY <1>3, <2>1
  <2> QED
    BY <2>2 DEF Buffered
<1>5. Pending(t)' = Pending(t)
  BY <1>4 DEF Pending
<1>6. StreamAt(t)'
  BY <1>1, <1>3, <1>5, Zenon DEF StreamAt
<1>7. \A i \in Cells : current[t] <= i /\ i < current[t] + reg[t].size
                          => mem'[t][i] = count[t] + 1
  <2>1. \A i \in Cells : current[t] <= i /\ i < current[t] + reg[t].size =>
          Stored(mem[t], current[t], count[t] + 1, reg[t].size)[i] = count[t] + 1
    BY Zenon DEF Stored
  <2> QED
    BY <1>3, <2>1
<1>8. PhaseAt(t)'
  BY <1>1, <1>3, <1>7 DEF PhaseAt
<1> QED
  BY <1>6, <1>8
-----------------------------------------------------------------------------
(* The steps of a thread on its own logger.                                *)

OwnAction(t) ==
  \/ \E n \in AppendSizes, next \in {"run", "flush", "exiting"} : append_buffer(t, n, next)
  \/ \E n \in AppendSizes : AppendAssertFails(t, n)
  \/ \E n \in {BranchSize, RdtscSize} : LogLoad(t, n)
  \/ LogStore(t) \/ LogAddlRead(t) \/ LogCommit(t)
  \/ do_check_logger_buffer(t) \/ flush_logger(t)

\* What such a step leaves alone
LEMMA OwnFrame ==
  ASSUME OrderInv, NEW t \in Threads, OwnAction(t)
  PROVE  /\ LockInv' /\ TagInv' /\ DrainInv'
         /\ \A u \in Threads : Rewinding(u)' = Rewinding(u)
         /\ \A u \in Threads : u # t =>
              /\ current'[u] = current[u] /\ mem'[u] = mem[u] /\ file'[u] = file[u]
              /\ flushed'[u] = flushed[u] /\ logged'[u] = logged[u]
              /\ bounds'[u] = bounds[u] /\ count'[u] = count[u] /\ pc'[u] = pc[u]
              /\ reg'[u] = reg[u] /\ torn'[u] = torn[u]
<1>t. /\ current \in [Threads -> Nat] /\ pc \in [Threads -> Pcs]
      /\ torn \in [Threads -> BOOLEAN] /\ mem \in [Threads -> [Cells -> Unit]]
      /\ file \in [Threads -> Seq(BlockSet)] /\ flushed \in [Threads -> Seq(Unit)]
      /\ logged \in [Threads -> Seq(Unit)] /\ bounds \in [Threads -> SUBSET Nat]
      /\ count \in [Threads -> Nat]
      /\ reg \in [Threads -> [size : Nat, ebx : Nat, old : Nat]]
  BY ZenonT(40) DEF OrderInv, TypeInv, TypeOK, BlockSet
<1> DEFINE Rest(l) ==
         /\ pc' = [pc EXCEPT ![t] = l]
         /\ pc[t] \notin {"fa_next", "fa_compress", "fa_reset", "exit", "dead"}
         /\ fa' = fa
         /\ lock' = lock \/ (lock[t] = None /\ lock' = [lock EXCEPT ![t] = t])
         /\ torn[t] => torn'[t]
         /\ lock[t] = None \/ current'[t] = current[t] \/ torn'[t]
           Others ==
       \A u \in Threads : u # t =>
         /\ current'[u] = current[u] /\ mem'[u] = mem[u] /\ file'[u] = file[u]
         /\ flushed'[u] = flushed[u] /\ logged'[u] = logged[u]
         /\ bounds'[u] = bounds[u] /\ count'[u] = count[u] /\ pc'[u] = pc[u]
         /\ reg'[u] = reg[u] /\ torn'[u] = torn[u]
           Free == {"run", "store", "addl", "commit", "check", "flush", "exiting", "abort"}
<1>1. ASSUME NEW n \in AppendSizes, NEW next \in {"run", "flush", "exiting"}, append_buffer(t, n, next)
      PROVE  Rest(next) /\ Others
  <2>1. Rest(next)
    BY <1>1, Zenon DEF append_buffer, Goto
  <2>2. CASE AppendInPlace(t, n)
    BY <1>1, <1>t, <2>2, Zenon DEF append_buffer, AppendInPlace, Record, Goto
  <2>3. CASE AppendAfterFlush(t, n)
    BY <1>1, <1>t, <2>3, Zenon DEF append_buffer, AppendAfterFlush, Record, Goto
  <2>4. CASE AppendDirect(t, n)
    BY <1>1, <1>t, <2>4 DEF append_buffer, AppendDirect, Record, Goto
  <2> QED
    BY <1>1, <2>2, <2>3, <2>4, Zenon DEF append_buffer
<1>2. ASSUME NEW n \in AppendSizes, AppendAssertFails(t, n) PROVE Rest("abort") /\ Others
  <2>1. Rest("abort")
    BY <1>2, <1>t, Zenon DEF AppendAssertFails, Goto
  <2>2. Others
    BY <1>2, <1>t DEF AppendAssertFails, Goto
  <2> QED
    BY <2>1, <2>2, Zenon
<1>3. ASSUME NEW n \in {BranchSize, RdtscSize}, LogLoad(t, n) PROVE Rest("store") /\ Others
  BY <1>3, <1>t DEF LogLoad, Goto
<1>4. ASSUME LogStore(t) PROVE Rest("addl") /\ Others
  BY <1>4, <1>t DEF LogStore, Goto
<1>5. ASSUME LogAddlRead(t) PROVE Rest("commit") /\ Others
  BY <1>5, <1>t DEF LogAddlRead, Goto
<1>6. ASSUME LogCommit(t) PROVE Rest("check") /\ Others
  <2>1. Rest("check")
    BY <1>6, <1>t, Zenon DEF LogCommit, Goto
  <2>2. Others
    BY <1>6, <1>t, Zenon DEF LogCommit, Record, Goto
  <2> QED
    BY <2>1, <2>2, Zenon
<1>7. ASSUME do_check_logger_buffer(t) \/ flush_logger(t) PROVE Rest("run") /\ Others
  <2>1. Rest("run")
    BY <1>7, Zenon DEF do_check_logger_buffer, flush_logger, Goto
  <2>2. Others
    BY <1>7, <1>t, SMTT(30) DEF do_check_logger_buffer, flush_logger, flush_logger_buffer, Goto
  <2> QED
    BY <2>1, <2>2, Zenon
<1>8. \E l \in Free : Rest(l) /\ Others
  <2> HIDE DEF Rest, Others
  <2> QED
    BY <1>1, <1>2, <1>3, <1>4, <1>5, <1>6, <1>7 DEF OwnAction
<1>9. PICK l \in Free : Rest(l) /\ Others
  BY <1>8, Zenon
<1>10. l \in Pcs \ {"fa_next", "fa_compress", "fa_reset", "exit", "dead"}
  BY DEF Pcs
<1>11. /\ LockInv' /\ TagInv' /\ DrainInv'
       /\ \A u \in Threads : Rewinding(u)' = Rewinding(u)
  BY <1>9, <1>10, OwnStep, Zenon
<1> QED
  BY <1>9, <1>11, Zenon
\* A thread's steps on its own logger keep every stream.
LEMMA OwnStream ==
  ASSUME OrderInv, NEW t \in Threads, OwnAction(t)
  PROVE  StreamInv'
<1> SUFFICES ASSUME NEW u \in Threads, ~torn'[u]
             PROVE  StreamAt(u)' /\ PhaseAt(u)'
  BY DEF StreamInv
<1>r. \A w \in Threads : Rewinding(w)' = Rewinding(w)
  BY OwnFrame
<1>t. /\ current \in [Threads -> Nat] /\ pc \in [Threads -> Pcs]
      /\ reg \in [Threads -> [size : Nat, ebx : Nat, old : Nat]]
      /\ torn \in [Threads -> BOOLEAN]
  BY Zenon DEF OrderInv, TypeInv, TypeOK
<1>1. CASE u # t
  <2>1. ~torn[u] /\ StreamAt(u) /\ PhaseAt(u)
    BY <1>1, OwnFrame DEF OrderInv, StreamInv
  <2> QED
    BY <1>1, <1>r, <2>1, OwnFrame, StreamFrame, Zenon
<1>2. CASE u = t
  <2>0. ASSUME lock[t] = None PROVE ~Rewinding(t)'
    BY <2>0, <1>r, NotRewinding DEF OrderInv
  <2>1. ASSUME NEW n \in AppendSizes, NEW next \in {"run", "flush", "exiting"}, append_buffer(t, n, next)
        PROVE  StreamAt(t)' /\ PhaseAt(t)'
    <3>1. lock[t] = None /\ ~torn[t] /\ pc'[t] = next
      BY <2>1, <1>2, <1>t, Zenon DEF append_buffer, Goto
    <3>2. StreamAt(t)'
      BY <2>0, <2>1, <3>1, AppendStream, Zenon DEF append_buffer
    <3>3. PhaseAt(t)'
      BY <3>1, Zenon DEF PhaseAt
    <3> QED
      BY <3>2, <3>3, Zenon
  <2>2. ASSUME NEW n \in AppendSizes, AppendAssertFails(t, n)
        PROVE  StreamAt(t)' /\ PhaseAt(t)'
    <3>1. /\ lock[t] = None /\ ~torn[t] /\ pc'[t] = "abort"
          /\ current'[t] = 0 /\ logged' = logged /\ bounds' = bounds
          /\ file'[t] = FileFlushed(t) /\ flushed'[t] = flushed[t] \o Buffered(t)
      BY <2>2, <1>2, <1>t, Zenon DEF AppendAssertFails, Goto, OrderInv, TypeInv, TypeOK
    <3>2. /\ logged[t] = flushed'[t] /\ logged[t] \in Seq(Nat)
          /\ Len(logged[t]) \in bounds[t]
      BY <3>1, StreamFacts, Zenon
    <3>3. TagsOf(file'[t])
      BY <3>1, StreamFacts DEF FileFlushed
    <3>4. Pending(t)' = <<>>
      BY <3>1, ViewEmpty DEF Pending, Buffered
    <3>5. logged'[t] = flushed'[t] \o Pending(t)'
      BY <3>1, <3>2, <3>4, ConcatEmptySeq
    <3> QED
      BY <3>1, <3>2, <3>3, <3>5, Zenon DEF StreamAt, PhaseAt, TagsOf
  <2>3. ASSUME NEW n \in {BranchSize, RdtscSize}, LogLoad(t, n)
        PROVE  StreamAt(t)' /\ PhaseAt(t)'
    <3>1. /\ ~torn[t] /\ reg'[t].ebx = current[t] /\ pc'[t] = "store"
          /\ UNCHANGED <<current, mem, file, flushed, logged, bounds>>
      BY <2>3, <1>2, <1>t DEF LogLoad, Goto
    <3>2. StreamAt(t)
      BY <3>1, Zenon DEF OrderInv, StreamInv
    <3>3. Pending(t)' = Pending(t)
      BY <1>r, <3>1, Zenon DEF Pending, Buffered
    <3>4. StreamAt(t)'
      BY <3>1, <3>2, <3>3, Zenon DEF StreamAt
    <3>5. PhaseAt(t)'
      BY <3>1, Zenon DEF PhaseAt
    <3> QED
      BY <3>4, <3>5
  <2>4. ASSUME LogStore(t) PROVE StreamAt(t)' /\ PhaseAt(t)'
    <3>1. ~torn[t]
      BY <2>4, <1>2 DEF LogStore
    <3> QED
      BY <1>r, <2>4, <3>1, StoreStream
  <2>5. ASSUME LogAddlRead(t) PROVE StreamAt(t)' /\ PhaseAt(t)'
    <3>1. /\ ~torn[t] /\ pc[t] = "addl" /\ pc'[t] = "commit"
          /\ reg'[t].old = current[t] /\ reg'[t].ebx = reg[t].ebx
          /\ reg'[t].size = reg[t].size
          /\ UNCHANGED <<current, mem, file, flushed, logged, bounds, count>>
      BY <2>5, <1>2, <1>t DEF LogAddlRead, Goto
    <3>2. StreamAt(t) /\ PhaseAt(t)
      BY <3>1, Zenon DEF OrderInv, StreamInv
    <3>3. Pending(t)' = Pending(t)
      BY <1>r, <3>1, Zenon DEF Pending, Buffered
    <3>4. StreamAt(t)'
      BY <3>1, <3>2, <3>3, Zenon DEF StreamAt
    <3>5. PhaseAt(t)'
      BY <3>1, <3>2 DEF PhaseAt
    <3> QED
      BY <3>4, <3>5
  <2>6. ASSUME LogCommit(t) PROVE StreamAt(t)' /\ PhaseAt(t)'
    <3>1. lock[t] = None /\ pc'[t] = "check" /\ ~torn'[t]
      BY <2>6, <1>2, <1>t, ZenonT(40) DEF LogCommit, Goto
    <3>2. StreamAt(t)'
      BY <2>0, <2>6, <3>1, CommitStream
    <3>3. PhaseAt(t)'
      BY <3>1 DEF PhaseAt
    <3> QED
      BY <3>2, <3>3
  <2>7. ASSUME do_check_logger_buffer(t) \/ flush_logger(t)
        PROVE  StreamAt(t)' /\ PhaseAt(t)'
    <3>1. lock[t] = None /\ pc'[t] = "run" /\ ~torn[t] /\ logged' = logged /\ bounds' = bounds
      BY <2>7, <1>2, <1>t DEF do_check_logger_buffer, flush_logger, Goto
    <3>2. CASE flush_logger_buffer(t)
      <4>1. StreamAt(t)'
        BY <3>1, <3>2, FlushStream, Zenon
      <4> QED
        BY <3>1, <4>1 DEF PhaseAt
    <3>3. CASE UNCHANGED <<current, mem, file, flushed>>
      <4>1. StreamAt(t)
        BY <3>1 DEF OrderInv, StreamInv
      <4> QED
        BY <1>r, <3>1, <3>3, <4>1, RestFrame, Zenon
    <3> QED
      BY <2>7, <3>2, <3>3, Zenon DEF do_check_logger_buffer, flush_logger
  <2> QED
    BY <1>2, <2>1, <2>2, <2>3, <2>4, <2>5, <2>6, <2>7 DEF OwnAction
<1> QED
  BY <1>1, <1>2
-----------------------------------------------------------------------------
(* The steps of flush_all_logger.                                          *)

\* Taking __tls_ctl_lock, a logger's lock, releasing the former, and the exit
\* itself move no data.
LEMMA WalkStep ==
  ASSUME OrderInv, NEW t \in Threads,
         FaStart(t) \/ (\E p \in Threads : FaLock(t, p)) \/ FaDone(t) \/ ProcessExit(t)
  PROVE  LockInv' /\ TagInv' /\ DrainInv' /\ StreamInv'
<1>t. /\ pc \in [Threads -> Pcs] /\ lock \in [Threads -> Threads \cup {None}]
      /\ fa \in [Threads -> [todo : SUBSET Threads, pos : Threads, log_sz : Nat]]
      /\ None \notin Threads
  BY LoggerAssumption, Zenon DEF OrderInv, TypeInv, TypeOK
<1>o. LockInv /\ TagInv /\ DrainInv /\ StreamInv
  BY DEF OrderInv
<1>1. /\ UNCHANGED <<current, mem, file, flushed, logged, bounds, torn, count, reg>>
      /\ pc[t] \in {"exiting", "fa_next", "exit"}
      /\ \A s \in Threads : s # t => pc'[s] = pc[s] /\ fa'[s] = fa[s]
      /\ pc'[t] \in {"fa_next", "fa_compress", "exit", "dead"}
  BY <1>t DEF FaStart, FaLock, FaDone, ProcessExit, Goto
<1>2. \A u \in Threads : Rewinding(u)' = Rewinding(u)
  BY <1>1 DEF Rewinding
<1>3. StreamInv'
  <2> SUFFICES ASSUME NEW u \in Threads, ~torn'[u] PROVE StreamAt(u)' /\ PhaseAt(u)'
    BY Zenon DEF StreamInv
  <2>1. StreamAt(u) /\ PhaseAt(u)
    BY <1>1, <1>o, Zenon DEF StreamInv
  <2>a. /\ Rewinding(u)' = Rewinding(u)
        /\ current'[u] = current[u] /\ mem'[u] = mem[u] /\ file'[u] = file[u]
        /\ flushed'[u] = flushed[u] /\ logged'[u] = logged[u]
        /\ bounds'[u] = bounds[u] /\ count'[u] = count[u] /\ reg'[u] = reg[u]
    BY <1>1, <1>2
  <2>2. CASE u = t
    <3>1. pc'[u] \notin {"store", "addl", "commit"}
      BY <1>1, <2>2, ZenonT(40)
    <3> QED
      BY <2>a, <2>1, <3>1, RestFrame
  <2>3. CASE u # t
    <3>1. pc'[u] = pc[u]
      BY <1>1, <2>3
    <3> QED
      BY <2>a, <2>1, <3>1, StreamFrame, SMTT(30)
  <2> QED
    BY <2>2, <2>3
<1>4. ASSUME NEW p \in Threads, FaLock(t, p) PROVE LockInv' /\ TagInv' /\ DrainInv'
  <2>1. /\ pc[t] = "fa_next" /\ pc'[t] = "fa_compress" /\ lock[p] = None
        /\ lock'[p] = t /\ \A q \in Threads : q # p => lock'[q] = lock[q]
        /\ fa'[t].todo = fa[t].todo \ {p} /\ fa'[t].pos = p /\ fa'[t].log_sz = current[p]
    BY <1>4, <1>t, Zenon DEF FaLock, Goto
  <2>2. LockInv'
    <3> SUFFICES ASSUME NEW s \in Threads, pc'[s] \in {"fa_compress", "fa_reset"}
                 PROVE  lock'[fa'[s].pos] = s
      BY Zenon DEF LockInv
    <3>1. CASE s = t
      BY <2>1, <3>1, Zenon
    <3>2. CASE s # t
      <4>1. pc'[s] = pc[s] /\ fa'[s] = fa[s]
        BY <1>1, <3>2, Zenon
      <4>2. lock[fa[s].pos] = s /\ fa[s].pos \in Threads
        BY <1>o, <1>t, <4>1, Zenon DEF LockInv
      <4>3. fa[s].pos # p
        BY <1>t, <2>1, <4>2, Zenon
      <4> QED
        BY <2>1, <4>1, <4>2, <4>3, Zenon
    <3> QED
      BY <3>1, <3>2, Zenon
  <2>3. TagInv'
    <3> SUFFICES ASSUME NEW s \in Threads, pc'[s] = "fa_compress", ~torn[fa'[s].pos]
                 PROVE  fa'[s].log_sz = current[fa'[s].pos]
      BY <1>1, Zenon DEF TagInv
    <3>1. CASE s = t
      BY <2>1, <3>1, Zenon
    <3>2. CASE s # t
      <4>1. pc'[s] = pc[s] /\ fa'[s] = fa[s]
        BY <1>1, <3>2
      <4> QED
        BY <1>o, <4>1, Zenon DEF TagInv
    <3> QED
      BY <3>1, <3>2, Zenon
  <2>4. DrainInv'
    <3> SUFFICES ASSUME NEW u \in Threads, Drained(u)' PROVE current[u] = 0
      BY <1>1 DEF DrainInv
    <3>1. Drained(u)
      BY <1>1, <2>1 DEF Drained
    <3> QED
      BY <3>1, <1>o, Zenon DEF DrainInv
  <2> QED
    BY <2>2, <2>3, <2>4, Zenon
<1>5. ASSUME FaStart(t) \/ FaDone(t) \/ ProcessExit(t)
      PROVE  LockInv' /\ TagInv' /\ DrainInv'
  <2>1. /\ lock' = lock /\ pc'[t] # "fa_compress"
        /\ pc'[t] = "fa_next" => fa'[t].todo = Threads
        /\ pc'[t] \in {"exit", "dead"} => Drained(t)
    BY <1>5, <1>t DEF FaStart, FaDone, ProcessExit, Goto, Drained
  <2>2. LockInv'
    BY <1>t, <1>1, <1>o, <2>1, Zenon DEF LockInv
  <2>3. TagInv'
    BY <1>t, <1>1, <1>o, <2>1 DEF TagInv
  <2>4. DrainInv'
    <3> SUFFICES ASSUME NEW u \in Threads, Drained(u)' PROVE current[u] = 0
      BY <1>1, ZenonT(40) DEF DrainInv
    <3>1. Drained(u)
      BY <1>1, <2>1 DEF Drained
    <3> QED
      BY <3>1, <1>o, Zenon DEF DrainInv
  <2> QED
    BY <2>2, <2>3, <2>4
<1> QED
  BY <1>3, <1>4, <1>5

\* Writing another thread's buffer to its file
LEMMA CompressStep ==
  ASSUME OrderInv, NEW t \in Threads, FaCompress(t)
  PROVE  LockInv' /\ TagInv' /\ DrainInv' /\ StreamInv'
<1>p. PICK p \in Threads : p = fa[t].pos
  BY Zenon DEF OrderInv, TypeInv, TypeOK
<1>t. /\ pc \in [Threads -> Pcs] /\ p \in Threads /\ None \notin Threads
      /\ file \in [Threads -> Seq(BlockSet)] /\ flushed \in [Threads -> Seq(Nat)]
      /\ logged \in [Threads -> Seq(Nat)]
  BY LoggerAssumption, Zenon DEF OrderInv, TypeInv, TypeOK, BlockSet, Unit
<1>o. LockInv /\ TagInv /\ DrainInv /\ StreamInv
  BY DEF OrderInv
<1>1. /\ pc[t] = "fa_compress" /\ pc'[t] = "fa_reset" /\ fa' = fa /\ lock' = lock
      /\ \A s \in Threads : s # t => pc'[s] = pc[s]
      /\ UNCHANGED <<current, mem, logged, bounds, torn, count, reg>>
      /\ flushed'[p] = flushed[p] \o Buffered(p)
      /\ file'[p] = Append(file[p], Block(COMPRESSED, fa[t].log_sz, Buffered(p)))
      /\ \A u \in Threads : u # p => file'[u] = file[u] /\ flushed'[u] = flushed[u]
  <2>1. /\ pc[t] = "fa_compress" /\ pc' = [pc EXCEPT ![t] = "fa_reset"]
        /\ file' = [file EXCEPT ![p] = Append(@, Block(COMPRESSED, fa[t].log_sz, Buffered(p)))]
        /\ flushed' = [flushed EXCEPT ![p] = @ \o Buffered(p)]
        /\ UNCHANGED <<current, mem, lock, logged, bounds, torn, count, reg, fa>>
    BY <1>p, Zenon DEF FaCompress, Goto
  <2>2. pc'[t] = "fa_reset" /\ \A s \in Threads : s # t => pc'[s] = pc[s]
    BY <1>t, <2>1, Zenon
  <2>3. /\ file'[p] = Append(file[p], Block(COMPRESSED, fa[t].log_sz, Buffered(p)))
        /\ \A u \in Threads : u # p => file'[u] = file[u]
    BY <1>t, <2>1, Zenon
  <2>4. /\ flushed'[p] = flushed[p] \o Buffered(p)
        /\ \A u \in Threads : u # p => flushed'[u] = flushed[u]
    BY <1>t, <2>1, SMTT(30)
  <2> QED
    BY <2>1, <2>2, <2>3, <2>4
<1>2. LockInv'
  BY <1>1, <1>o DEF LockInv
<1>3. TagInv'
  BY <1>1, <1>o, Zenon DEF TagInv
<1>4. DrainInv'
  BY <1>1, <1>o, Zenon DEF DrainInv, Drained
<1>5. ASSUME NEW u \in Threads, u # p PROVE Rewinding(u)' = Rewinding(u)
  <2>1. \A s \in Threads : /\ pc[s] = "fa_reset" /\ fa[s].pos = u => s # t
                           /\ fa'[s].pos = u => s # t
    BY <1>p, <1>1, <1>5
  <2> QED
    BY <2>1, <1>1, SMTT(30) DEF Rewinding
<1>6. ~Rewinding(p) /\ Rewinding(p)'
  <2>1. lock[p] = t
    BY <1>p, <1>1, <1>o, Zenon DEF LockInv
  <2>2. ~Rewinding(p)
    BY <2>1, <1>1, <1>o, SMTT(30) DEF Rewinding, LockInv
  <2>3. Rewinding(p)'
    BY <1>p, <1>1 DEF Rewinding
  <2> QED
    BY <2>2, <2>3, Zenon
<1>7. StreamInv'
  <2> SUFFICES ASSUME NEW u \in Threads, ~torn'[u] PROVE StreamAt(u)' /\ PhaseAt(u)'
    BY Zenon DEF StreamInv
  <2>1. ~torn[u] /\ StreamAt(u) /\ PhaseAt(u)
    BY <1>1, <1>o, SMTT(30) DEF StreamInv
  <2>2. PhaseAt(u)'
    BY <1>1, <2>1 DEF PhaseAt
  <2>3. CASE u = p
    <3>1. flushed'[p] = logged[p]
      BY <1>1, <1>6, <2>1, <2>3, Zenon DEF StreamAt, Pending
    <3>2. logged'[p] = flushed'[p] \o Pending(p)'
      <4>1. Pending(p)' = <<>> /\ logged'[p] = logged[p] /\ logged[p] \in Seq(Nat)
        BY <1>1, <1>6, <1>t DEF Pending
      <4> QED
        BY <4>1, <3>1, ConcatEmptySeq, SMTT(30)
    <3>3. /\ fa[t].log_sz = current[p] /\ Len(Buffered(p)) = current[p]
          /\ Buffered(p) \in Seq(Nat)
      BY <1>p, <1>1, <1>t, <1>o, <2>1, <2>3, OperandTypes, ZenonT(40) DEF TagInv, OrderInv
    <3>4. TagsOf(file[p])
      BY <2>1, <2>3, ZenonT(40) DEF StreamAt, TagsOf
    <3>5. TagsOf(file'[p])
      <4>1. /\ file[p] \in Seq(BlockSet)
            /\ file'[p] = Append(file[p], Block(COMPRESSED, Len(Buffered(p)), Buffered(p)))
        BY <1>1, <1>t, <3>3, Zenon
      <4> QED
        BY <4>1, <3>3, <3>4, TagsAppend, ZenonT(40)
    <3> QED
      BY <1>1, <2>1, <2>2, <2>3, <3>1, <3>2, <3>5, ZenonT(40) DEF StreamAt, TagsOf
  <2>4. CASE u # p
    <3>1. Pending(u)' = Pending(u)
      BY <1>1, <1>5, <2>4, Zenon DEF Pending, Buffered
    <3>2. /\ logged'[u] = logged[u] /\ bounds'[u] = bounds[u]
          /\ file'[u] = file[u] /\ flushed'[u] = flushed[u]
      BY <1>1, <2>4, SMTT(30)
    <3>3. StreamAt(u)'
      BY <2>1, <3>1, <3>2 DEF StreamAt
    <3> QED
      BY <2>2, <3>3
  <2> QED
    BY <2>3, <2>4
<1> QED
  BY <1>2, <1>3, <1>4, <1>7, Zenon
\* Rewinding another thread's buffer, and releasing its lock
LEMMA ResetStep ==
  ASSUME OrderInv, NEW t \in Threads, FaReset(t)
  PROVE  LockInv' /\ TagInv' /\ DrainInv' /\ StreamInv'
<1>p. PICK p \in Threads : p = fa[t].pos
  BY SMTT(30) DEF OrderInv, TypeInv, TypeOK
<1>t. /\ pc \in [Threads -> Pcs] /\ p \in Threads /\ None \notin Threads
      /\ lock \in [Threads -> Threads \cup {None}] /\ torn \in [Threads -> BOOLEAN]
      /\ current \in [Threads -> Nat] /\ mem \in [Threads -> [Cells -> Nat]]
      /\ logged \in [Threads -> Seq(Nat)] /\ flushed \in [Threads -> Seq(Nat)]
      /\ \A s \in Threads : fa[s].pos \in Threads
  BY LoggerAssumption, ZenonT(40) DEF OrderInv, TypeInv, TypeOK, Unit
<1>o. LockInv /\ TagInv /\ DrainInv /\ StreamInv
  BY DEF OrderInv
<1>1. /\ pc[t] = "fa_reset" /\ pc'[t] = "fa_next" /\ fa' = fa
      /\ \A s \in Threads : s # t => pc'[s] = pc[s]
      /\ UNCHANGED <<file, flushed, logged, bounds, count, reg>>
      /\ current'[p] = 0
      /\ \A u \in Threads : u # p => /\ current'[u] = current[u] /\ mem'[u] = mem[u]
                                     /\ lock'[u] = lock[u] /\ torn'[u] = torn[u]
      /\ torn'[p] = (torn[p] \/ pc[p] \in {"store", "addl", "commit"})
  <2>1. /\ pc[t] = "fa_reset" /\ pc' = [pc EXCEPT ![t] = "fa_next"]
        /\ mem' = [mem EXCEPT ![p] = Cleared(@)]
        /\ current' = [current EXCEPT ![p] = 0]
        /\ lock' = [lock EXCEPT ![p] = None]
        /\ torn' = [torn EXCEPT ![p] = @ \/ pc[p] \in {"store", "addl", "commit"}]
        /\ UNCHANGED <<file, flushed, logged, bounds, count, reg, fa>>
    BY <1>p DEF FaReset, Goto
  <2>2. pc'[t] = "fa_next" /\ \A s \in Threads : s # t => pc'[s] = pc[s]
    BY <1>t, <2>1, ZenonT(40)
  <2>3. /\ current'[p] = 0
        /\ \A u \in Threads : u # p => current'[u] = current[u] /\ mem'[u] = mem[u]
    BY <1>t, <2>1, SMTT(30)
  <2>4. /\ \A u \in Threads : u # p => lock'[u] = lock[u] /\ torn'[u] = torn[u]
        /\ torn'[p] = (torn[p] \/ pc[p] \in {"store", "addl", "commit"})
    BY <1>t, <2>1
  <2> QED
    BY <2>1, <2>2, <2>3, <2>4, Zenon
<1>2. \A s \in Threads : s # t /\ pc[s] \in {"fa_compress", "fa_reset"} => fa[s].pos # p
  <2>1. LockInv
    BY <1>o, SMTT(30)
  <2>2. pc[t] = "fa_reset"
    BY <1>1
  <2>3. lock[p] = t
    BY <1>p, <2>1, <2>2 DEF LockInv
  <2> SUFFICES ASSUME NEW s \in Threads, s # t, pc[s] \in {"fa_compress", "fa_reset"},
                      fa[s].pos = p
               PROVE  FALSE
    OBVIOUS
  <2>4. lock[p] = s
    BY <2>1 DEF LockInv
  <2> QED
    BY <2>3, <2>4
<1>3. LockInv'
  BY <1>1, <1>2, <1>o, <1>t, ZenonT(40) DEF LockInv
<1>4. TagInv'
  <2> SUFFICES ASSUME NEW s \in Threads, pc'[s] = "fa_compress", ~torn'[fa[s].pos]
               PROVE  fa[s].log_sz = current'[fa[s].pos]
    BY <1>1, ZenonT(40) DEF TagInv
  <2>1. s # t /\ pc[s] = "fa_compress" /\ fa[s].pos # p /\ fa[s].pos \in Threads
    BY <1>1, <1>2, <1>t, SMTT(30)
  <2>2. ~torn[fa[s].pos] /\ current'[fa[s].pos] = current[fa[s].pos]
    BY <1>1, <2>1
  <2> QED
    BY <1>o, <2>1, <2>2, Zenon DEF TagInv
<1>5. DrainInv'
  <2> SUFFICES ASSUME NEW u \in Threads, Drained(u)' PROVE current'[u] = 0
    BY DEF DrainInv
  <2>1. CASE u = p
    BY <1>1, <2>1, Zenon
  <2>2. CASE u # p
    <3>1. Drained(u)
      BY <1>p, <1>1, <2>2 DEF Drained
    <3> QED
      BY <3>1, <1>1, <1>o, <2>2, Zenon DEF DrainInv
  <2> QED
    BY <2>1, <2>2
<1>6. \A u \in Threads : u # p => Rewinding(u)' = Rewinding(u)
  <2> SUFFICES ASSUME NEW u \in Threads, u # p PROVE Rewinding(u)' = Rewinding(u)
    BY Zenon
  <2>1. ASSUME NEW s \in Threads
        PROVE  pc'[s] = "fa_reset" /\ fa'[s].pos = u <=> pc[s] = "fa_reset" /\ fa[s].pos = u
    <3>1. CASE s = t
      BY <1>p, <1>1, <3>1, SMTT(30)
    <3>2. CASE s # t
      BY <1>1, <3>2
    <3> QED
      BY <3>1, <3>2, ZenonT(40)
  <2> QED
    BY <2>1 DEF Rewinding
<1>7. Rewinding(p) /\ ~Rewinding(p)'
  <2>1. Rewinding(p)
    BY <1>p, <1>1, SMTT(30) DEF Rewinding
  <2>2. ~Rewinding(p)'
    BY <1>1, <1>2 DEF Rewinding
  <2> QED
    BY <2>1, <2>2, Zenon
<1>8. StreamInv'
  <2> SUFFICES ASSUME NEW u \in Threads, ~torn'[u] PROVE StreamAt(u)' /\ PhaseAt(u)'
    BY DEF StreamInv
  <2>1. ~torn[u] /\ StreamAt(u) /\ PhaseAt(u)
    BY <1>1, <1>o, ZenonT(40) DEF StreamInv
  <2>2. CASE u = p
    <3>1. flushed[p] = logged[p]
      <4>1. logged[p] = flushed[p] \o <<>> /\ flushed[p] \in Seq(Nat)
        BY <1>7, <1>t, <2>1, <2>2 DEF StreamAt, Pending
      <4> QED
        BY <4>1, ConcatEmptySeq, SMTT(30)
    <3>2. Pending(p)' = <<>>
      BY <1>1, <1>7, ViewEmpty, Zenon DEF Pending, Buffered
    <3>3. logged'[p] = flushed'[p] \o Pending(p)'
      <4>1. logged'[p] = logged[p] /\ flushed'[p] = flushed[p]
        BY <1>1, Zenon
      <4>2. flushed[p] \in Seq(Nat)
        BY <1>t, Zenon
      <4>3. flushed[p] \o <<>> = flushed[p]
        BY <4>2, ConcatEmptySeq, SMTT(30)
      <4> QED
        BY <4>1, <4>3, <3>1, <3>2, Zenon
    <3>4. StreamAt(p)'
      BY <1>1, <2>1, <2>2, <3>3 DEF StreamAt
    <3>5. pc'[p] \notin {"store", "addl", "commit"}
      BY <1>1, <2>2, ZenonT(40)
    <3>6. PhaseAt(p)'
      BY <3>5, Zenon DEF PhaseAt
    <3> QED
      BY <2>2, <3>4, <3>6, Zenon
  <2>3. CASE u # p /\ u # t
    BY <1>1, <1>6, <2>1, <2>3, StreamFrame, Zenon
  <2>4. CASE u # p /\ u = t
    BY <1>1, <1>6, <2>1, <2>4, RestFrame, Zenon
  <2> QED
    BY <2>2, <2>3, <2>4
<1> QED
  BY <1>3, <1>4, <1>5, <1>8

-----------------------------------------------------------------------------
(* The theorems.                                                           *)

\* The invariant holds when recording starts.
LEMMA OrderInit == Init => OrderInv
<1> SUFFICES ASSUME Init PROVE OrderInv
  OBVIOUS
<1>1. TypeInv
  BY TypeInit, Zenon
<1>2. \A t \in Threads : pc[t] = "run" /\ current[t] = 0
  BY DEF Init
<1>3. LockInv /\ TagInv /\ DrainInv
  BY <1>2 DEF LockInv, TagInv, DrainInv, Drained
<1>4. StreamInv
  <2> SUFFICES ASSUME NEW t \in Threads PROVE StreamAt(t) /\ PhaseAt(t)
    BY DEF StreamInv
  <2>1. Pending(t) = <<>>
    BY <1>2, ViewEmpty, SMTT(30) DEF Pending, Buffered
  <2>2. logged[t] = <<>> /\ flushed[t] = <<>> /\ file[t] = <<>> /\ bounds[t] = {0}
    BY DEF Init
  <2>3. <<>> \o <<>> = <<>> /\ Len(<<>>) = 0 /\ DOMAIN <<>> = {}
    OBVIOUS
  <2>4. StreamAt(t)
    BY <2>1, <2>2, <2>3 DEF StreamAt
  <2>5. PhaseAt(t)
    BY <1>2 DEF PhaseAt
  <2> QED
    BY <2>4, <2>5
<1> QED
  BY <1>1, <1>3, <1>4 DEF OrderInv

\* Every step of the recorder keeps the invariant.
LEMMA OrderStep == OrderInv /\ [Next]_vars => OrderInv'
<1> SUFFICES ASSUME OrderInv, [Next]_vars PROVE OrderInv'
  OBVIOUS
<1>1. TypeInv'
  BY TypeStep, Zenon DEF OrderInv
<1>2. ASSUME NEW t \in Threads, Step(t) PROVE OrderInv'
  <2>1. CASE OwnAction(t)
    BY <1>1, <2>1, OwnFrame, OwnStream DEF OrderInv
  <2>2. CASE FaStart(t) \/ (\E p \in Threads : FaLock(t, p)) \/ FaDone(t) \/ ProcessExit(t)
    BY <1>1, <2>2, WalkStep DEF OrderInv
  <2>3. CASE FaCompress(t)
    BY <1>1, <2>3, CompressStep DEF OrderInv
  <2>4. CASE FaReset(t)
    BY <1>1, <2>4, ResetStep DEF OrderInv
  <2> QED
    BY <1>2, <2>1, <2>2, <2>3, <2>4, SMTT(30) DEF Step, OwnAction
<1>3. CASE UNCHANGED vars
  <2>1. UNCHANGED <<current, mem, lock, file, flushed, logged, bounds, torn,
                    count, pc, reg, fa>>
    BY <1>3, Zenon DEF vars
  <2>2. \A u \in Threads : Rewinding(u)' = Rewinding(u)
    BY <2>1, Zenon DEF Rewinding
  <2>3. StreamInv'
    BY <2>1, <2>2, StreamFrame, SMTT(30) DEF OrderInv, StreamInv
  <2>4. LockInv' /\ TagInv' /\ DrainInv'
    BY <2>1 DEF OrderInv, LockInv, TagInv, DrainInv, Drained
  <2> QED
    BY <1>1, <2>3, <2>4 DEF OrderInv
<1> QED
  BY <1>2, <1>3 DEF Next

\* The strengthened invariant holds in every state.
THEOREM OrderInvariant == Spec => []OrderInv
<1> QED
  BY OrderInit, OrderStep, PTL DEF Spec

\* Nothing a thread logs through append_buffer, a log phase or rdtsc is lost,
\* duplicated or reordered on its way to the file, as long as no foreign
\* flush_all_logger runs into one of its log phases.
THEOREM LogPreserved == Spec => []RoundTrip
<1>1. OrderInv => RoundTrip
  BY Zenon DEF OrderInv, StreamInv, StreamAt, RoundTrip, Pending
<1> QED
  BY <1>1, OrderInvariant, PTL

\* Blocks end between entries.
THEOREM BlocksWhole == Spec => []WholeEntries
<1>1. OrderInv => WholeEntries
  BY Zenon DEF OrderInv, StreamInv, StreamAt, WholeEntries
<1> QED
  BY <1>1, OrderInvariant, PTL

\* The tag of a block written by flush_logger_buffer or by the direct write of
\* append_buffer holds the size of the block's data.
THEOREM TagsCorrect == Spec => []TagsMatch
<1>1. OrderInv => TagsMatch
  BY SMTT(30) DEF OrderInv, StreamInv, StreamAt, TagsMatch
<1> QED
  BY <1>1, OrderInvariant, PTL

\* A thread that has left flush_all_logger has nothing in its buffer.
LEMMA DrainedLog == OrderInv => ExitKeepsLog
<1> SUFFICES ASSUME OrderInv, NEW t \in Threads, pc[t] \in {"exit", "dead"}, ~torn[t]
             PROVE  flushed[t] = logged[t]
  BY DEF ExitKeepsLog
<1>1. current[t] = 0
  BY Zenon DEF OrderInv, DrainInv, Drained
<1>2. Pending(t) = <<>>
  BY <1>1, ViewEmpty DEF Pending, Buffered
<1>3. logged[t] = flushed[t] \o <<>> /\ flushed[t] \in Seq(Nat)
  BY <1>2, Zenon DEF OrderInv, StreamInv, StreamAt, TypeInv, TypeOK, Unit
<1> QED
  BY <1>3, ConcatEmptySeq

\* A thread that has passed flush_all_logger has its whole log in its file.
THEOREM ExitComplete == Spec => []ExitKeepsLog
<1> QED
  BY DrainedLog, OrderInvariant, PTL
=============================================================================
