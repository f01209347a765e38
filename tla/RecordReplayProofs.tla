------------------------- MODULE RecordReplayProofs -------------------------
(***************************************************************************)
(* Proofs about the log file and its reader, from the first entry a thread *)
(* logs to the last one the replayer reads, for any number of threads, any *)
(* buffer size and any entry sizes.                                        *)
(***************************************************************************)
EXTENDS RecordReplay, LoggerProofs, WellFoundedInduction, TLAPS

-----------------------------------------------------------------------------
(* The file as one stream, which is what the replayer reads                *)

\* A set of naturals has a smallest element.
LEMMA SmallestExists ==
  ASSUME NEW T, T \subseteq Nat, T # {}
  PROVE  \E x \in T : \A y \in T : x <= y
<1> DEFINE Less == OpToRel(<, Nat)
<1>1. Less = {ss \in Nat \X Nat : ss[1] < ss[2]}
  BY Zenon DEF OpToRel
<1>2. IsWellFoundedOn(Less, Nat)
  BY NatLessThanWellFounded, Zenon
<1> HIDE DEF Less
<1>3. PICK x \in T : \A y \in T : ~(<<y, x>> \in Less)
  BY <1>2, WFMin, Zenon
<1>4. ASSUME NEW y \in T PROVE ~(y < x)
  <2>1. <<y, x>> \in Nat \X Nat /\ <<y, x>>[1] = y /\ <<y, x>>[2] = x
    OBVIOUS
  <2> QED
    BY <2>1, <1>1, <1>3, Zenon
<1> QED
  BY <1>4

\* What holds of 0 and is handed on by each block holds of all blocks.
LEMMA BlockInduction ==
  ASSUME NEW n \in Nat, NEW S, 0 \in S, \A j \in 1 .. n : j - 1 \in S => j \in S
  PROVE  \A j \in 0 .. n : j \in S
<1> DEFINE T == {j \in 0 .. n : j \notin S}
<1>1. SUFFICES ASSUME T # {} PROVE FALSE
  OBVIOUS
<1>2. PICK x \in T : \A y \in T : x <= y
  <2>1. T \subseteq Nat
    OBVIOUS
  <2> HIDE DEF T
  <2> QED
    BY <1>1, <2>1, SmallestExists, Zenon
<1>3. x \in 1 .. n /\ x \notin S
  OBVIOUS
<1>4. x - 1 \in S
  BY <1>2, <1>3
<1> QED
  BY <1>3, <1>4

\* Stream is what its recursion says.
LEMMA StreamRec ==
  ASSUME NEW bs, Len(bs) \in Nat
  PROVE  Stream(bs) =
           [i \in 0 .. Len(bs) |->
              IF i = 0 THEN <<>> ELSE Joined(Stream(bs)[i - 1], bs[i])]
<1> DEFINE E(g, n) == g = [i \in 0 .. n |-> IF i = 0 THEN <<>> ELSE Joined(g[i - 1], bs[i])]
           S == {n \in 0 .. Len(bs) : \E g : E(g, n)}
<1>1. 0 \in S
  <2> DEFINE g == [i \in 0 .. 0 |-> <<>>]
  <2>1. E(g, 0)
    OBVIOUS
  <2>2. \E h : E(h, 0)
    <3> HIDE DEF g, E
    <3> QED
      BY <2>1
  <2> HIDE DEF g, E
  <2> QED
    BY <2>2
<1>2. ASSUME NEW n \in 1 .. Len(bs), n - 1 \in S PROVE n \in S
  <2>1. PICK g : E(g, n - 1)
    BY <1>2
  <2> DEFINE h == [i \in 0 .. n |-> IF i = n THEN Joined(g[n - 1], bs[n]) ELSE g[i]]
  <2>2. \A i \in 0 .. n - 1 : h[i] = g[i]
    OBVIOUS
  <2>3. ASSUME NEW i \in 0 .. n
        PROVE  h[i] = IF i = 0 THEN <<>> ELSE Joined(h[i - 1], bs[i])
    <3>1. CASE i = 0
      BY <2>1, <2>2, <3>1
    <3>2. CASE i \in 1 .. n - 1
      <4>1. h[i] = g[i] /\ h[i - 1] = g[i - 1]
        BY <2>2, <3>2
      <4>2. g[i] = Joined(g[i - 1], bs[i])
        BY <2>1, <3>2
      <4> HIDE DEF h
      <4> QED
        BY <4>1, <4>2, <3>2
    <3>3. CASE i = n
      <4>1. h[n] = Joined(g[n - 1], bs[n]) /\ h[n - 1] = g[n - 1]
        BY <2>2
      <4> HIDE DEF h
      <4> QED
        BY <4>1, <3>3
    <3> QED
      BY <3>1, <3>2, <3>3
  <2>4. E(h, n)
    <3>1. h = [i \in 0 .. n |-> h[i]]
      OBVIOUS
    <3> HIDE DEF h
    <3> QED
      BY <3>1, <2>3, SMTT(30)
  <2> HIDE DEF h, E
  <2> QED
    BY <2>4
<1>3. Len(bs) \in S
  <2> HIDE DEF S
  <2>1. \A n \in 1 .. Len(bs) : n - 1 \in S => n \in S
    BY <1>2
  <2>2. \A n \in 0 .. Len(bs) : n \in S
    BY <1>1, <2>1, BlockInduction, Zenon
  <2> QED
    BY <2>2
<1>4. \E g : E(g, Len(bs))
  BY <1>3
<1> QED
  BY <1>4, SMTT(30) DEF Stream

\* Block by block, what the stream is
LEMMA StreamFile ==
  ASSUME NEW bs \in Seq(BlockSet)
  PROVE  /\ Len(bs) \in Nat
         /\ Stream(bs)[0] = <<>>
         /\ \A i \in 1 .. Len(bs) : /\ Stream(bs)[i] = Stream(bs)[i - 1] \o bs[i].data
                                    /\ bs[i].data \in Seq(Nat)
         /\ \A i \in 0 .. Len(bs) : Stream(bs)[i] \in Seq(Nat)
<1> DEFINE s == Stream(bs)
<1>1. Len(bs) \in Nat /\ \A i \in 1 .. Len(bs) : bs[i] \in BlockSet
  OBVIOUS
<1>2. \A b \in BlockSet : b.data \in Seq(Nat)
  BY DEF BlockSet, Unit
<1>3. s = [i \in 0 .. Len(bs) |-> IF i = 0 THEN <<>> ELSE Joined(s[i - 1], bs[i])]
  BY <1>1, StreamRec, Zenon
<1> HIDE DEF s
<1>4. s[0] = <<>> /\ \A i \in 1 .. Len(bs) : s[i] = Joined(s[i - 1], bs[i])
  BY <1>1, <1>3
<1>5. \A i \in 1 .. Len(bs) : s[i] = s[i - 1] \o bs[i].data
  BY <1>4, Zenon DEF Joined
<1>6. \A i \in 0 .. Len(bs) : s[i] \in Seq(Nat)
  <2> DEFINE S == {i \in 0 .. Len(bs) : s[i] \in Seq(Nat)}
  <2>1. 0 \in S
    <3>1. <<>> \in Seq(Nat) /\ 0 \in 0 .. Len(bs)
      BY <1>1
    <3> QED
      BY <3>1, <1>4, Zenon
  <2>2. ASSUME NEW i \in 1 .. Len(bs), i - 1 \in S PROVE i \in S
    <3>1. s[i - 1] \in Seq(Nat) /\ bs[i].data \in Seq(Nat) /\ s[i] = s[i - 1] \o bs[i].data
      BY <2>2, <1>1, <1>2, <1>5, Zenon
    <3>2. s[i] \in Seq(Nat)
      BY <3>1, ConcatProperties, Zenon
    <3>3. i \in 0 .. Len(bs)
      BY <1>1
    <3> QED
      BY <3>2, <3>3, Zenon
  <2>3. \A i \in 0 .. Len(bs) : i \in S
    <3> HIDE DEF S
    <3> QED
      BY <1>1, <2>1, <2>2, BlockInduction, Zenon
  <2> QED
    BY <2>3, Zenon
<1> QED
  BY <1>1, <1>2, <1>4, <1>5, <1>6, Zenon DEF s

\* What the first blocks hold is the beginning of the stream.
LEMMA StreamPrefix ==
  ASSUME NEW bs \in Seq(BlockSet), NEW i \in 0 .. Len(bs)
  PROVE  /\ Len(Stream(bs)[i]) <= Len(Stream(bs)[Len(bs)])
         /\ \A k \in 1 .. Len(Stream(bs)[i]) : Stream(bs)[Len(bs)][k] = Stream(bs)[i][k]
<1> DEFINE s == Stream(bs)
           P(j) == /\ Len(s[i]) <= Len(s[j])
                   /\ \A k \in 1 .. Len(s[i]) : s[j][k] = s[i][k]
           S == {j \in 0 .. Len(bs) : i <= j => P(j)}
<1>1. /\ Len(bs) \in Nat
      /\ \A j \in 1 .. Len(bs) : s[j] = s[j - 1] \o bs[j].data /\ bs[j].data \in Seq(Nat)
      /\ \A j \in 0 .. Len(bs) : s[j] \in Seq(Nat)
  BY StreamFile, Zenon
<1> HIDE DEF s
<1>2. s[i] \in Seq(Nat) /\ P(i)
  <2>1. s[i] \in Seq(Nat)
    BY <1>1, Zenon
  <2> QED
    BY <2>1
<1>3. 0 \in S
  <2>1. 0 \in 0 .. Len(bs) /\ (i <= 0 => i = 0)
    BY <1>1
  <2> HIDE DEF P
  <2> QED
    BY <2>1, <1>2, Zenon
<1>4. ASSUME NEW j \in 1 .. Len(bs), j - 1 \in S PROVE j \in S
  <2>1. CASE i <= j - 1
    <3>1. P(j - 1)
      <4> HIDE DEF P
      <4> QED
        BY <1>4, <2>1, Zenon
    <3>2. s[j] = s[j - 1] \o bs[j].data /\ s[j - 1] \in Seq(Nat) /\ bs[j].data \in Seq(Nat)
      <4>1. j - 1 \in 0 .. Len(bs)
        BY <1>1
      <4> QED
        BY <4>1, <1>1, Zenon
    <3>3. P(j)
      <4> DEFINE a == s[j - 1]
                 d == bs[j].data
                 c == s[i]
      <4>1. c \in Seq(Nat) /\ a \in Seq(Nat) /\ d \in Seq(Nat) /\ s[j] = a \o d
            /\ Len(c) <= Len(a) /\ \A k \in 1 .. Len(c) : a[k] = c[k]
        BY <1>2, <3>1, <3>2, Zenon
      <4> HIDE DEF a, d
      <4>2. Len(c) <= Len(a \o d) /\ \A k \in 1 .. Len(c) : (a \o d)[k] = c[k]
        <5> HIDE DEF c
        <5> QED
          BY <4>1, SMTT(30)
      <4> QED
        BY <4>1, <4>2, Zenon
    <3> HIDE DEF P
    <3>4. j \in 0 .. Len(bs)
      BY <1>1
    <3> QED
      BY <3>3, <3>4, Zenon
  <2>2. CASE ~(i <= j - 1)
    <3>1. j \in 0 .. Len(bs) /\ (i <= j => j = i)
      BY <2>2, <1>1
    <3> HIDE DEF P
    <3> QED
      BY <3>1, <1>2, Zenon
  <2> QED
    BY <2>1, <2>2, Zenon
<1>5. \A j \in 0 .. Len(bs) : j \in S
  <2> HIDE DEF S
  <2> QED
    BY <1>1, <1>3, <1>4, BlockInduction, Zenon
<1>6. P(Len(bs))
  <2> HIDE DEF P
  <2>1. Len(bs) \in 0 .. Len(bs) /\ i <= Len(bs)
    BY <1>1
  <2> QED
    BY <2>1, <1>5, Zenon
<1> QED
  BY <1>6, Zenon DEF s

\* A block more leaves what is in front of it alone.
LEMMA StreamGrows ==
  ASSUME NEW bs \in Seq(BlockSet), NEW b \in BlockSet
  PROVE  /\ Append(bs, b) \in Seq(BlockSet) /\ Len(Append(bs, b)) = Len(bs) + 1
         /\ \A i \in 0 .. Len(bs) : Stream(Append(bs, b))[i] = Stream(bs)[i]
         /\ Stream(Append(bs, b))[Len(bs) + 1] = Stream(bs)[Len(bs)] \o b.data
<1> DEFINE cs == Append(bs, b)
           s == Stream(bs)
           t == Stream(cs)
           S == {i \in 0 .. Len(bs) : t[i] = s[i]}
<1>1. /\ cs \in Seq(BlockSet) /\ Len(cs) = Len(bs) + 1 /\ Len(bs) \in Nat
      /\ \A i \in 1 .. Len(bs) : cs[i] = bs[i]
      /\ cs[Len(bs) + 1] = b
  OBVIOUS
<1> HIDE DEF cs
<1>2. s[0] = <<>> /\ \A i \in 1 .. Len(bs) : s[i] = s[i - 1] \o bs[i].data
  BY StreamFile, Zenon
<1>3. t[0] = <<>> /\ \A i \in 1 .. Len(cs) : t[i] = t[i - 1] \o cs[i].data
  BY <1>1, StreamFile, Zenon
<1> HIDE DEF s, t
<1>4. 0 \in S
  <2>1. 0 \in 0 .. Len(bs)
    BY <1>1
  <2> QED
    BY <2>1, <1>2, <1>3, Zenon
<1>5. ASSUME NEW i \in 1 .. Len(bs), i - 1 \in S PROVE i \in S
  <2>1. i \in 1 .. Len(cs) /\ i \in 0 .. Len(bs)
    BY <1>1
  <2>2. t[i] = t[i - 1] \o cs[i].data /\ s[i] = s[i - 1] \o bs[i].data /\ cs[i] = bs[i]
    BY <2>1, <1>1, <1>2, <1>3, Zenon
  <2>3. t[i - 1] = s[i - 1]
    BY <1>5, Zenon
  <2> QED
    BY <2>1, <2>2, <2>3, Zenon
<1>6. \A i \in 0 .. Len(bs) : i \in S
  <2> HIDE DEF S
  <2> QED
    BY <1>1, <1>4, <1>5, BlockInduction, Zenon
<1>7. t[Len(bs) + 1] = s[Len(bs)] \o b.data
  <2>1. Len(bs) + 1 \in 1 .. Len(cs) /\ (Len(bs) + 1) - 1 = Len(bs) /\ Len(bs) \in 0 .. Len(bs)
    BY <1>1
  <2>2. t[Len(bs) + 1] = t[(Len(bs) + 1) - 1] \o cs[Len(bs) + 1].data
    BY <2>1, <1>3, Zenon
  <2>3. t[Len(bs)] = s[Len(bs)]
    BY <2>1, <1>6, Zenon
  <2> QED
    BY <1>1, <2>1, <2>2, <2>3, Zenon
<1> QED
  BY <1>1, <1>6, <1>7, Zenon DEF cs, s, t

-----------------------------------------------------------------------------
(* What the replayer reads is what the recorder logged                     *)

\* The blocks of a thread's file hold what was flushed, and each of them ends
\* between two entries.
FileAt(t) ==
  /\ flushed[t] = Stream(file[t])[Len(file[t])]
  /\ ~torn[t] => \A i \in 0 .. Len(file[t]) : Len(Stream(file[t])[i]) \in bounds[t]

FileInv == \A t \in Threads : FileAt(t)

\* The type invariant, for the log of one thread
LEMMA LogTypes ==
  ASSUME TypeInv
  PROVE  /\ file \in [Threads -> Seq(BlockSet)] /\ flushed \in [Threads -> Seq(Nat)]
         /\ logged \in [Threads -> Seq(Nat)] /\ bounds \in [Threads -> SUBSET Nat]
         /\ torn \in [Threads -> BOOLEAN]
BY Zenon DEF TypeInv, TypeOK, BlockSet, Unit

\* A thread whose file is left alone
LEMMA FileSame ==
  ASSUME NEW t \in Threads, FileAt(t), file'[t] = file[t], flushed'[t] = flushed[t],
         bounds[t] \subseteq bounds'[t], torn[t] => torn'[t]
  PROVE  FileAt(t)'
BY Zenon DEF FileAt

\* A thread whose file is a block longer
LEMMA FileOne ==
  ASSUME NEW t \in Threads, TypeInv, FileAt(t), NEW b \in BlockSet,
         file'[t] = Append(file[t], b), flushed'[t] = flushed[t] \o b.data,
         bounds[t] \subseteq bounds'[t], torn[t] => torn'[t],
         ~torn'[t] => Len(flushed'[t]) \in bounds'[t]
  PROVE  FileAt(t)'
<1> DEFINE bs == file[t]
           cs == Append(bs, b)
           s == Stream(bs)
           c == Stream(cs)
<1>1. bs \in Seq(BlockSet) /\ Len(bs) \in Nat
  <2>1. bs \in Seq(BlockSet)
    BY LogTypes, Zenon
  <2> QED
    BY <2>1
<1>2. /\ Len(cs) = Len(bs) + 1
      /\ \A i \in 0 .. Len(bs) : c[i] = s[i]
      /\ c[Len(bs) + 1] = s[Len(bs)] \o b.data
  BY <1>1, StreamGrows, Zenon
<1>3. flushed[t] = s[Len(bs)] /\ (~torn[t] => \A i \in 0 .. Len(bs) : Len(s[i]) \in bounds[t])
  BY Zenon DEF FileAt
<1>4. file'[t] = cs
  OBVIOUS
<1> HIDE DEF bs, cs, s, c
<1>5. flushed'[t] = c[Len(cs)]
  BY <1>2, <1>3
<1>6. ASSUME ~torn'[t], NEW i \in 0 .. Len(cs) PROVE Len(c[i]) \in bounds'[t]
  <2>1. CASE i \in 0 .. Len(bs)
    BY <1>2, <1>3, <1>6, <2>1, Zenon
  <2>2. CASE i = Len(cs)
    BY <1>5, <1>6, <2>2, Zenon
  <2>3. i \in 0 .. Len(bs) \/ i = Len(cs)
    BY <1>1, <1>2
  <2> QED
    BY <2>1, <2>2, <2>3
<1> QED
  BY <1>4, <1>5, <1>6, Zenon DEF FileAt, c

\* A thread whose file is two blocks longer, as by the direct write of
\* append_buffer with a buffer that is not empty
LEMMA FileTwo ==
  ASSUME NEW t \in Threads, TypeInv, FileAt(t), NEW b \in BlockSet, NEW d \in BlockSet,
         file'[t] = Append(Append(file[t], b), d),
         flushed'[t] = (flushed[t] \o b.data) \o d.data,
         bounds[t] \subseteq bounds'[t], torn[t] => torn'[t],
         ~torn[t] => Len(flushed[t] \o b.data) \in bounds[t],
         ~torn'[t] => Len(flushed'[t]) \in bounds'[t]
  PROVE  FileAt(t)'
<1> DEFINE bs == file[t]
           cs == Append(bs, b)
           ds == Append(cs, d)
           s == Stream(bs)
           c == Stream(cs)
           e == Stream(ds)
<1>1. bs \in Seq(BlockSet) /\ Len(bs) \in Nat
  <2>1. bs \in Seq(BlockSet)
    BY LogTypes, Zenon
  <2> QED
    BY <2>1
<1>2. /\ cs \in Seq(BlockSet) /\ Len(cs) = Len(bs) + 1
      /\ \A i \in 0 .. Len(bs) : c[i] = s[i]
      /\ c[Len(bs) + 1] = s[Len(bs)] \o b.data
  BY <1>1, StreamGrows, Zenon
<1>3. flushed[t] = s[Len(bs)] /\ (~torn[t] => \A i \in 0 .. Len(bs) : Len(s[i]) \in bounds[t])
  BY Zenon DEF FileAt
<1>4. file'[t] = ds
  OBVIOUS
<1> HIDE DEF bs, cs, s, c
<1>5. /\ Len(ds) = Len(cs) + 1
      /\ \A i \in 0 .. Len(cs) : e[i] = c[i]
      /\ e[Len(cs) + 1] = c[Len(cs)] \o d.data
  <2>1. cs \in Seq(BlockSet)
    BY <1>2, Zenon
  <2> QED
    BY <2>1, StreamGrows, Zenon DEF c
<1> HIDE DEF ds, e
<1>6. c[Len(cs)] = flushed[t] \o b.data
  BY <1>2, <1>3, SMTT(30)
<1>7. flushed'[t] = e[Len(ds)]
  BY <1>5, <1>6
<1>8. ASSUME ~torn'[t], NEW i \in 0 .. Len(ds) PROVE Len(e[i]) \in bounds'[t]
  <2>1. CASE i \in 0 .. Len(bs)
    <3>1. i \in 0 .. Len(cs)
      BY <1>1, <1>2, <2>1
    <3> QED
      BY <1>2, <1>3, <1>5, <1>8, <2>1, <3>1, Zenon
  <2>2. CASE i = Len(cs)
    <3>1. Len(cs) \in 0 .. Len(cs)
      BY <1>1, <1>2
    <3> QED
      BY <1>5, <1>6, <1>8, <2>2, <3>1, Zenon
  <2>3. CASE i = Len(ds)
    BY <1>7, <1>8, <2>3, Zenon
  <2>4. i \in 0 .. Len(bs) \/ i = Len(cs) \/ i = Len(ds)
    BY <1>1, <1>2, <1>5
  <2> QED
    BY <2>1, <2>2, <2>3, <2>4
<1> QED
  BY <1>4, <1>7, <1>8, Zenon DEF FileAt, e

\* The block a flush of thread t writes
LEMMA FlushBlock ==
  ASSUME TypeInv, NEW t \in Threads, NEW sz \in Nat, NEW n \in Nat
  PROVE  /\ Block(COMPRESSED, sz, Buffered(t)) \in BlockSet
         /\ Block(COMPRESSED, sz, Buffered(t)).data = Buffered(t)
         /\ Block(UNCOMPRESSED, n, Copies(count[t] + 1, n)) \in BlockSet
         /\ Block(UNCOMPRESSED, n, Copies(count[t] + 1, n)).data = Copies(count[t] + 1, n)
<1>1. Buffered(t) \in Seq(Nat) /\ Copies(count[t] + 1, n) \in Seq(Nat)
  BY OperandTypes, Zenon
<1> QED
  BY <1>1 DEF Block, BlockSet, Unit

\* A flushed buffer is one block, or nothing when the buffer was empty.
LEMMA FlushedData ==
  ASSUME TypeInv, NEW t \in Threads
  PROVE  /\ current[t] \in Nat
         /\ current[t] = 0 => Buffered(t) = <<>>
<1>1. current[t] \in Nat
  BY DEF TypeInv, TypeOK
<1>2. current[t] = 0 => Buffered(t) = <<>>
  BY ViewEmpty DEF Buffered
<1> QED
  BY <1>1, <1>2

\* append_buffer adds no block, one block or two.
LEMMA FileAppend ==
  ASSUME OrderInv, OrderInv', NEW t \in Threads, FileAt(t), NEW n \in AppendSizes,
         lock[t] = None, torn' = torn,
         \/ AppendInPlace(t, n) \/ AppendAfterFlush(t, n) \/ AppendDirect(t, n)
  PROVE  FileAt(t)'
<1> DEFINE b == Block(COMPRESSED, current[t], Buffered(t))
           d == Block(UNCOMPRESSED, n, Copies(count[t] + 1, n))
<1>1. TypeInv /\ n \in Nat /\ file \in [Threads -> Seq(BlockSet)]
      /\ flushed \in [Threads -> Seq(Nat)] /\ bounds \in [Threads -> SUBSET Nat]
  <2>1. TypeInv
    BY Zenon DEF OrderInv
  <2> QED
    BY <2>1, LogTypes, LoggerAssumption
<1>2. /\ b \in BlockSet /\ b.data = Buffered(t) /\ d \in BlockSet /\ d.data = Copies(count[t] + 1, n)
      /\ current[t] \in Nat /\ (current[t] = 0 => Buffered(t) = <<>>)
  BY <1>1, FlushBlock, FlushedData, Zenon
<1>3. bounds[t] \subseteq bounds'[t]
  <2>1. bounds' = [bounds EXCEPT ![t] = @ \cup {Len(logged[t]) + n}]
    BY Zenon DEF AppendInPlace, AppendAfterFlush, AppendDirect, Record
  <2> QED
    BY <1>1, <2>1, Zenon
<1>4. ~torn'[t] => Len(flushed'[t]) \in bounds'[t]
  BY Zenon DEF OrderInv, StreamInv, StreamAt
<1>5. torn[t] => torn'[t]
  OBVIOUS
<1>6. CASE AppendInPlace(t, n)
  <2>1. file'[t] = file[t] /\ flushed'[t] = flushed[t]
    BY <1>6, Zenon DEF AppendInPlace
  <2> QED
    BY <1>3, <1>5, <2>1, FileSame, Zenon
<1>7. CASE AppendAfterFlush(t, n)
  <2>1. file'[t] = Append(file[t], b) /\ flushed'[t] = flushed[t] \o Buffered(t)
    BY <1>1, <1>7, Zenon DEF AppendAfterFlush
  <2> HIDE DEF b
  <2>2. flushed'[t] = flushed[t] \o b.data
    BY <1>2, <2>1, Zenon
  <2> QED
    BY <1>1, <1>2, <1>3, <1>4, <1>5, <2>1, <2>2, FileOne, Zenon
<1>8. CASE AppendDirect(t, n)
  <2>1. /\ file'[t] = Append(FileFlushed(t), d)
        /\ flushed'[t] = (flushed[t] \o Buffered(t)) \o Copies(count[t] + 1, n)
    BY <1>1, <1>8, Zenon DEF AppendDirect
  <2>2. CASE current[t] > 0
    <3>1. FileFlushed(t) = Append(file[t], b)
      BY <2>2, Zenon DEF FileFlushed
    <3>2. ~torn[t] => Len(flushed[t] \o Buffered(t)) \in bounds[t]
      BY StreamFacts, Zenon
    <3> HIDE DEF b, d
    <3> QED
      BY <1>1, <1>2, <1>3, <1>4, <1>5, <2>1, <3>1, <3>2, FileTwo, ZenonT(40)
  <2>3. CASE ~(current[t] > 0)
    <3>1. FileFlushed(t) = file[t]
      BY <2>3, Zenon DEF FileFlushed
    <3>2. current[t] = 0
      BY <1>2, <2>3
    <3>3. flushed[t] \o Buffered(t) = flushed[t]
      BY <1>1, <1>2, <3>2, ConcatEmptySeq, Zenon
    <3> HIDE DEF b, d
    <3> QED
      BY <1>1, <1>2, <1>3, <1>4, <1>5, <2>1, <3>1, <3>3, FileOne, ZenonT(40)
  <2> QED
    BY <2>2, <2>3
<1> QED
  BY <1>6, <1>7, <1>8


\* A step that leaves a thread's log alone, or adds to its bounds only
LEMMA FileFrame ==
  ASSUME NEW u \in Threads, FileAt(u), file'[u] = file[u], flushed'[u] = flushed[u],
         bounds'[u] = bounds[u], torn[u] => torn'[u]
  PROVE  FileAt(u)'
BY FileSame, Zenon

\* Every step of a thread keeps the files in order.
LEMMA FileStep ==
  ASSUME OrderInv, OrderInv', FileInv, [Next]_vars
  PROVE  FileInv'
<1>1. /\ TypeInv /\ file \in [Threads -> Seq(BlockSet)] /\ flushed \in [Threads -> Seq(Nat)]
      /\ bounds \in [Threads -> SUBSET Nat] /\ torn \in [Threads -> BOOLEAN]
  <2>1. TypeInv
    BY Zenon DEF OrderInv
  <2> QED
    BY <2>1, LogTypes, Zenon
<1>2. \A u \in Threads : FileAt(u)
  BY Zenon DEF FileInv
<1>3. \A u \in Threads : ~torn'[u] => Len(flushed'[u]) \in bounds'[u]
  BY Zenon DEF OrderInv, StreamInv, StreamAt
<1>4. ASSUME UNCHANGED <<file, flushed, bounds>>, \A u \in Threads : torn[u] => torn'[u]
      PROVE  FileInv'
  <2> SUFFICES ASSUME NEW u \in Threads PROVE FileAt(u)'
    BY Zenon DEF FileInv
  <2>1. /\ file'[u] = file[u] /\ flushed'[u] = flushed[u] /\ bounds'[u] = bounds[u]
        /\ torn[u] => torn'[u]
    BY <1>4, Zenon
  <2> QED
    BY <1>2, <2>1, FileFrame, Zenon
<1>5. ASSUME NEW p \in Threads, FileAt(p)', torn' = torn,
             \A u \in Threads : u # p => /\ file'[u] = file[u] /\ flushed'[u] = flushed[u]
                                         /\ bounds'[u] = bounds[u]
      PROVE  FileInv'
  <2> SUFFICES ASSUME NEW u \in Threads PROVE FileAt(u)'
    BY Zenon DEF FileInv
  <2>1. CASE u = p
    BY <1>5, <2>1, Zenon
  <2>2. CASE u # p
    <3>1. /\ file'[u] = file[u] /\ flushed'[u] = flushed[u] /\ bounds'[u] = bounds[u]
          /\ torn[u] => torn'[u]
      BY <1>5, <2>2, Zenon
    <3> QED
      BY <1>2, <3>1, FileFrame, Zenon
  <2> QED
    BY <2>1, <2>2, Zenon
<1>6. ASSUME NEW p \in Threads, NEW sz \in Nat, UNCHANGED <<bounds, torn>>,
             file' = [file EXCEPT ![p] = Append(@, Block(COMPRESSED, sz, Buffered(p)))],
             flushed' = [flushed EXCEPT ![p] = @ \o Buffered(p)]
      PROVE  FileInv'
  <2> DEFINE b == Block(COMPRESSED, sz, Buffered(p))
  <2>1. b \in BlockSet /\ b.data = Buffered(p)
    BY <1>1, <1>6, FlushBlock, Zenon
  <2>2. file'[p] = Append(file[p], b) /\ flushed'[p] = flushed[p] \o Buffered(p)
    BY <1>1, <1>6, Zenon
  <2>3. \A u \in Threads : u # p => /\ file'[u] = file[u] /\ flushed'[u] = flushed[u]
                                    /\ bounds'[u] = bounds[u]
    BY <1>1, <1>6, Zenon
  <2> HIDE DEF b
  <2>4. /\ flushed'[p] = flushed[p] \o b.data /\ FileAt(p)
        /\ bounds[p] \subseteq bounds'[p] /\ (torn[p] => torn'[p])
        /\ ~torn'[p] => Len(flushed'[p]) \in bounds'[p]
    BY <1>2, <1>3, <1>6, <2>1, <2>2, Zenon
  <2>5. FileAt(p)'
    BY <1>1, <2>1, <2>2, <2>4, FileOne, Zenon
  <2> QED
    BY <1>5, <1>6, <2>3, <2>5, Zenon
<1>7. ASSUME NEW t \in Threads, Step(t) PROVE FileInv'
  <2>1. ASSUME NEW n \in AppendSizes, NEW next \in {"run", "flush", "exiting"},
               append_buffer(t, n, next)
        PROVE  FileInv'
    <3>1. /\ lock[t] = None /\ torn' = torn
          /\ AppendInPlace(t, n) \/ AppendAfterFlush(t, n) \/ AppendDirect(t, n)
      BY <2>1, Zenon DEF append_buffer
    <3>2. FileAt(t)'
      BY <1>2, <3>1, FileAppend, Zenon
    <3>3. \A u \in Threads : u # t => /\ file'[u] = file[u] /\ flushed'[u] = flushed[u]
                                      /\ bounds'[u] = bounds[u]
      BY <1>1, <3>1, Zenon DEF AppendInPlace, AppendAfterFlush, AppendDirect, Record
    <3> QED
      BY <1>5, <3>1, <3>2, <3>3, Zenon
  <2>2. ASSUME NEW n \in AppendSizes, AppendAssertFails(t, n) PROVE FileInv'
    <3>1. /\ file' = [file EXCEPT ![t] = FileFlushed(t)]
          /\ flushed' = [flushed EXCEPT ![t] = @ \o Buffered(t)]
          /\ UNCHANGED <<bounds, torn>>
      BY <2>2, Zenon DEF AppendAssertFails
    <3>2. current[t] \in Nat /\ (current[t] = 0 => Buffered(t) = <<>>)
      BY <1>1, FlushedData, Zenon
    <3>3. CASE current[t] > 0
      <4>1. file' = [file EXCEPT ![t] = Append(@, Block(COMPRESSED, current[t], Buffered(t)))]
        BY <1>1, <3>1, <3>3, Zenon DEF FileFlushed
      <4> QED
        BY <1>6, <3>1, <3>2, <4>1, Zenon
    <3>4. CASE ~(current[t] > 0)
      <4>1. current[t] = 0
        BY <3>2, <3>4
      <4>2. flushed[t] \o Buffered(t) = flushed[t]
        BY <1>1, <3>2, <4>1, ConcatEmptySeq, Zenon
      <4>3. file' = file
        BY <1>1, <3>1, <3>4 DEF FileFlushed
      <4>4. flushed' = flushed
        BY <1>1, <3>1, <4>2
      <4> QED
        BY <1>4, <3>1, <4>3, <4>4
    <3> QED
      BY <3>3, <3>4
  <2>3. CASE \/ \E n \in {BranchSize, RdtscSize} : LogLoad(t, n)
             \/ LogStore(t) \/ LogAddlRead(t) \/ FaStart(t)
             \/ \E p \in Threads : FaLock(t, p)
             \/ FaDone(t) \/ ProcessExit(t)
    <3>1. UNCHANGED <<file, flushed, bounds, torn>>
      BY <2>3, Zenon DEF LogLoad, LogStore, LogAddlRead, FaStart, FaLock, FaDone, ProcessExit
    <3> QED
      BY <1>4, <3>1, Zenon
  <2>4. CASE LogCommit(t)
    <3>1. /\ file' = file /\ flushed' = flushed
          /\ torn' = [torn EXCEPT ![t] = @ \/ lock[t] # None]
          /\ bounds' = [bounds EXCEPT ![t] = @ \cup {Len(logged[t]) + reg[t].size}]
      BY <2>4, Zenon DEF LogCommit, Record
    <3> SUFFICES ASSUME NEW u \in Threads PROVE FileAt(u)'
      BY Zenon DEF FileInv
    <3>2. /\ file'[u] = file[u] /\ flushed'[u] = flushed[u]
          /\ bounds[u] \subseteq bounds'[u]
          /\ torn[u] => torn'[u]
      BY <1>1, <3>1
    <3> QED
      BY <1>2, <3>2, FileSame, Zenon
  <2>5. CASE do_check_logger_buffer(t) \/ flush_logger(t)
    <3>1. UNCHANGED <<bounds, torn>> /\ (flush_logger_buffer(t) \/ UNCHANGED <<file, flushed>>)
      BY <2>5, Zenon DEF do_check_logger_buffer, flush_logger
    <3>2. current[t] \in Nat
      BY <1>1, FlushedData, Zenon
    <3>3. CASE flush_logger_buffer(t)
      BY <1>6, <3>1, <3>2, <3>3, ZenonT(40) DEF flush_logger_buffer
    <3>4. CASE UNCHANGED <<file, flushed>>
      BY <1>4, <3>1, <3>4
    <3> QED
      BY <3>1, <3>3, <3>4
  <2>6. CASE FaCompress(t)
    <3>1. fa[t].pos \in Threads /\ fa[t].log_sz \in Nat
      BY Zenon DEF OrderInv, TypeInv, TypeOK
    <3> DEFINE p == fa[t].pos
               sz == fa[t].log_sz
    <3>2. /\ file' = [file EXCEPT ![p] = Append(@, Block(COMPRESSED, sz, Buffered(p)))]
          /\ flushed' = [flushed EXCEPT ![p] = @ \o Buffered(p)]
          /\ UNCHANGED <<bounds, torn>>
      BY <2>6, Zenon DEF FaCompress
    <3> HIDE DEF p, sz
    <3> QED
      BY <1>6, <3>1, <3>2, Zenon DEF p, sz
  <2>7. CASE FaReset(t)
    <3>1. /\ UNCHANGED <<file, flushed, bounds>>
          /\ torn' = [torn EXCEPT ![fa[t].pos] = @ \/ pc[fa[t].pos] \in {"store", "addl", "commit"}]
      BY <2>7, Zenon DEF FaReset
    <3>2. \A u \in Threads : torn[u] => torn'[u]
      BY <1>1, <3>1
    <3> QED
      BY <1>4, <3>1, <3>2, Zenon
  <2> QED
    BY <1>7, <2>1, <2>2, <2>3, <2>4, <2>5, <2>6, <2>7, ZenonT(40) DEF Step
<1>8. CASE UNCHANGED vars
  <2>1. UNCHANGED <<file, flushed, bounds, torn>>
    BY <1>8, Zenon DEF vars
  <2> QED
    BY <1>4, <2>1, Zenon
<1> QED
  BY <1>7, <1>8, Zenon DEF Next

\* An empty file
LEMMA FileInit == Init => FileInv
<1> SUFFICES ASSUME Init, NEW t \in Threads PROVE FileAt(t)
  BY Zenon DEF FileInv
<1>1. file[t] = <<>> /\ flushed[t] = <<>> /\ bounds[t] = {0}
  BY DEF Init
<1>2. <<>> \in Seq(BlockSet) /\ Len(<<>>) = 0 /\ \A i \in 0 .. 0 : i = 0
  OBVIOUS
<1>3. Stream(<<>>)[0] = <<>>
  BY <1>2, StreamFile, Zenon
<1> QED
  BY <1>1, <1>2, <1>3, Zenon DEF FileAt

\* The region in memory and the position in the file
ReaderTypes ==
  /\ blocks \in Seq(BlockSet)
  /\ ends \subseteq Nat
  /\ whole \in 0 .. Len(blocks)
  /\ nextBlock \in 1 .. whole + 1
  /\ region \in Seq(Nat)
  /\ ptr \in 0 .. Len(region)
  /\ got \in Seq(Nat)
  /\ need \in Nat
  /\ rpc \in {"idle", "full", "end", "corrupt"}

\* After a call of read_log that delivered nothing, the region is a block that
\* has just been loaded.
ZeroMoved ==
  Tagged /\ rpc = "full" /\ lastZero =>
    nextBlock > 1 /\ ptr = 0 /\ region = blocks[nextBlock - 1].data

\* What was delivered stays the beginning of what some blocks hold, also after
\* an error has been reported.
Delivered ==
  Tagged =>
    \E i \in 0 .. whole : \E n \in 0 .. Len(Stream(blocks)[i]) :
      got = SubSeq(Stream(blocks)[i], 1, n)

ReaderInv ==
  ReaderTypes /\ ZeroMoved /\ Delivered /\ InOrder /\ PeekIsNext /\ NoFalseAlarm

-----------------------------------------------------------------------------
(* Steps of the reader                                                     *)

\* Rest is what lies between ptr and the end of the region.
LEMMA RestType ==
  ASSUME NEW r \in Seq(Nat), NEW q \in 0 .. Len(r)
  PROVE  /\ SubSeq(r, q + 1, Len(r)) \in Seq(Nat)
         /\ Len(SubSeq(r, q + 1, Len(r))) = Len(r) - q
         /\ \A k \in 1 .. Len(r) - q : SubSeq(r, q + 1, Len(r))[k] = r[q + k]
<1>1. Len(r) \in Nat /\ q \in Nat /\ q <= Len(r)
  OBVIOUS
<1>2. SubSeq(r, q + 1, Len(r)) \in Seq(Nat)
  BY <1>1, SMTT(20)
<1>3. Len(SubSeq(r, q + 1, Len(r))) = Len(r) - q
  BY <1>1, SMTT(20)
<1>4. ASSUME NEW k \in 1 .. Len(r) - q PROVE SubSeq(r, q + 1, Len(r))[k] = r[q + k]
  BY <1>1, SMTT(20)
<1> QED
  BY <1>2, <1>3, <1>4, Zenon

\* The beginning of a sequence
LEMMA PrefixType ==
  ASSUME NEW s \in Seq(Nat), NEW n \in 0 .. Len(s)
  PROVE  /\ SubSeq(s, 1, n) \in Seq(Nat)
         /\ Len(SubSeq(s, 1, n)) = n
         /\ \A k \in 1 .. n : SubSeq(s, 1, n)[k] = s[k]
OBVIOUS

\* Moving k units from the region to what is delivered leaves the whole alone.
LEMMA MoveUnits ==
  ASSUME NEW g \in Seq(Nat), NEW r \in Seq(Nat), NEW q \in 0 .. Len(r),
         NEW k \in 0 .. Len(r) - q
  PROVE  LET a == SubSeq(r, q + 1, Len(r))
             b == SubSeq(r, (q + k) + 1, Len(r))
         IN  /\ g \o SubSeq(a, 1, k) \in Seq(Nat)
             /\ (g \o SubSeq(a, 1, k)) \o b = g \o a
<1> DEFINE a == SubSeq(r, q + 1, Len(r))
           b == SubSeq(r, (q + k) + 1, Len(r))
           h == g \o SubSeq(a, 1, k)
<1>1. /\ a \in Seq(Nat) /\ Len(a) = Len(r) - q
      /\ \A i \in 1 .. Len(r) - q : a[i] = r[q + i]
  BY RestType, Zenon
<1>2. /\ b \in Seq(Nat) /\ Len(b) = Len(r) - (q + k)
      /\ \A i \in 1 .. Len(r) - (q + k) : b[i] = r[(q + k) + i]
  <2>1. q + k \in 0 .. Len(r)
    OBVIOUS
  <2> QED
    BY <2>1, RestType, Zenon
<1> HIDE DEF a, b
<1>3. /\ SubSeq(a, 1, k) \in Seq(Nat) /\ Len(SubSeq(a, 1, k)) = k
      /\ \A i \in 1 .. k : SubSeq(a, 1, k)[i] = a[i]
  <2>1. k \in 0 .. Len(a)
    BY <1>1
  <2> QED
    BY <1>1, <2>1, PrefixType, Zenon
<1> DEFINE m == SubSeq(a, 1, k)
<1> HIDE DEF m
<1>4. /\ h \in Seq(Nat) /\ Len(h) = Len(g) + k
      /\ \A i \in 1 .. Len(g) + k : h[i] = IF i <= Len(g) THEN g[i] ELSE m[i - Len(g)]
      /\ \A i \in 1 .. k : m[i] = a[i]
  <2>1. m \in Seq(Nat) /\ Len(m) = k /\ \A i \in 1 .. k : m[i] = a[i]
    BY <1>3, Zenon DEF m
  <2>2. h = g \o m
    BY Zenon DEF m
  <2> HIDE DEF h
  <2>3. /\ g \o m \in Seq(Nat) /\ Len(g \o m) = Len(g) + Len(m)
        /\ \A i \in 1 .. Len(g) + Len(m) : (g \o m)[i] = IF i <= Len(g) THEN g[i] ELSE m[i - Len(g)]
    BY <2>1, ConcatProperties, Zenon
  <2> QED
    BY <2>1, <2>2, <2>3, Zenon
<1> HIDE DEF h
<1>5. /\ h \o b \in Seq(Nat) /\ Len(h \o b) = Len(h) + Len(b)
      /\ \A i \in 1 .. Len(h) + Len(b) : (h \o b)[i] = IF i <= Len(h) THEN h[i] ELSE b[i - Len(h)]
  BY <1>2, <1>4, ConcatProperties, Zenon
<1>6. /\ g \o a \in Seq(Nat) /\ Len(g \o a) = Len(g) + Len(a)
      /\ \A i \in 1 .. Len(g) + Len(a) : (g \o a)[i] = IF i <= Len(g) THEN g[i] ELSE a[i - Len(g)]
  BY <1>1, ConcatProperties, Zenon
<1>7. /\ Len(g) \in Nat /\ Len(r) \in Nat /\ Len(h) + Len(b) = Len(g) + Len(a)
      /\ Len(h) = Len(g) + k /\ Len(a) = Len(r) - q
  BY <1>1, <1>2, <1>4, SMTT(30)
<1>8. ASSUME NEW i \in 1 .. Len(g) + Len(a) PROVE (h \o b)[i] = (g \o a)[i]
  <2>0. /\ (h \o b)[i] = IF i <= Len(h) THEN h[i] ELSE b[i - Len(h)]
        /\ (g \o a)[i] = IF i <= Len(g) THEN g[i] ELSE a[i - Len(g)]
    BY <1>5, <1>6, <1>7, Zenon
  <2>1. CASE i <= Len(g)
    <3>1. i <= Len(h) /\ i \in 1 .. Len(g) + k
      BY <1>7, <2>1
    <3> QED
      BY <1>4, <2>0, <2>1, <3>1, Zenon
  <2>2. CASE ~(i <= Len(g)) /\ i <= Len(h)
    <3>1. i \in 1 .. Len(g) + k /\ i - Len(g) \in 1 .. k
      BY <1>7, <2>2
    <3> QED
      BY <1>4, <2>0, <2>2, <3>1, Zenon
  <2>3. CASE ~(i <= Len(h))
    <3>1. /\ ~(i <= Len(g)) /\ i - Len(h) \in 1 .. Len(r) - (q + k)
          /\ i - Len(g) \in 1 .. Len(r) - q
          /\ (q + k) + (i - Len(h)) = q + (i - Len(g))
      BY <1>7, <2>3, SMTT(30)
    <3> QED
      BY <1>1, <1>2, <2>0, <2>3, <3>1, Zenon
  <2> QED
    BY <2>1, <2>2, <2>3, Zenon
<1>9. h \o b = g \o a
  BY <1>5, <1>6, <1>7, <1>8, SeqEqual, Zenon
<1> QED
  BY <1>4, <1>9, Zenon DEF a, b, h, m

\* What is in front of a sequence is its beginning.
LEMMA FrontIsPrefix ==
  ASSUME NEW g \in Seq(Nat), NEW r \in Seq(Nat), NEW s, s = g \o r
  PROVE  Len(g) \in 0 .. Len(s) /\ g = SubSeq(s, 1, Len(g)) /\ Len(s) = Len(g) + Len(r)
<1>1. s \in Seq(Nat) /\ Len(s) = Len(g) + Len(r) /\ \A i \in 1 .. Len(g) : s[i] = g[i]
  OBVIOUS
<1>2. Len(g) \in 0 .. Len(s)
  BY <1>1
<1>3. /\ SubSeq(s, 1, Len(g)) \in Seq(Nat) /\ Len(SubSeq(s, 1, Len(g))) = Len(g)
      /\ \A k \in 1 .. Len(g) : SubSeq(s, 1, Len(g))[k] = s[k]
  BY <1>1, <1>2, PrefixType, Zenon
<1>4. g = SubSeq(s, 1, Len(g))
  BY <1>1, <1>3, SeqEqual, Zenon
<1> QED
  BY <1>1, <1>2, <1>4

\* The blocks, the region and the units left in it are sequences of units.
LEMMA ReaderFacts ==
  ASSUME ReaderTypes
  PROVE  /\ blocks \in Seq(BlockSet) /\ ends \subseteq Nat
         /\ Len(blocks) \in Nat /\ whole \in 0 .. Len(blocks)
         /\ nextBlock \in Nat /\ nextBlock - 1 \in 0 .. whole
         /\ got \in Seq(Nat) /\ Len(got) \in Nat
         /\ Rest \in Seq(Nat) /\ Left \in Nat /\ Len(Rest) = Left
         /\ Left = 0 => got \o Rest = got
<1>1. /\ blocks \in Seq(BlockSet) /\ ends \subseteq Nat
      /\ whole \in 0 .. Len(blocks) /\ nextBlock \in 1 .. whole + 1
      /\ region \in Seq(Nat) /\ ptr \in 0 .. Len(region) /\ got \in Seq(Nat)
  BY Zenon DEF ReaderTypes
<1>3. Len(blocks) \in Nat /\ Len(got) \in Nat /\ Len(region) \in Nat
  BY <1>1
<1>4. Rest \in Seq(Nat) /\ Len(Rest) = Left
  BY <1>1, RestType, Zenon DEF Rest, Left
<1>5. Left \in Nat
  BY <1>1, <1>3 DEF Left
<1>6. nextBlock \in Nat /\ nextBlock - 1 \in 0 .. whole
  BY <1>1, <1>3
<1>7. Left = 0 => got \o Rest = got
  <2>1. Left = 0 => Rest = <<>>
    BY <1>4
  <2> QED
    BY <1>1, <2>1, ConcatEmptySeq, Zenon
<1> QED
  BY <1>1, <1>3, <1>4, <1>5, <1>6, <1>7, ZenonT(40)

\* next_region loads the next block, and nothing else moves.
LEMMA LoadNext ==
  ASSUME ReaderTypes, NextRegion, Left = 0
  PROVE  /\ region' \in Seq(Nat) /\ ptr' = 0 /\ nextBlock' = nextBlock + 1
         /\ nextBlock \in 1 .. whole /\ nextBlock' \in 1 .. whole + 1
         /\ Rest' = region' /\ Left' = Len(region')
         /\ Tagged => region' = blocks[nextBlock].data
         /\ Tagged /\ got \o Rest = Stream(blocks)[nextBlock - 1] =>
              /\ got \o region' = Stream(blocks)[nextBlock]
              /\ got = Stream(blocks)[nextBlock - 1]
<1> DEFINE b == blocks[nextBlock]
<1>1. /\ blocks \in Seq(BlockSet) /\ Len(blocks) \in Nat /\ whole \in 0 .. Len(blocks)
      /\ nextBlock \in Nat /\ nextBlock - 1 \in 0 .. whole /\ got \o Rest = got
  BY ReaderFacts, Zenon
<1>2. nextBlock <= whole /\ ptr' = 0 /\ nextBlock' = nextBlock + 1
  BY Zenon DEF NextRegion, Loaded
<1>3. nextBlock \in 1 .. whole /\ nextBlock \in 1 .. Len(blocks) /\ nextBlock' \in 1 .. whole + 1
  BY <1>1, <1>2
<1>4. /\ Stream(blocks)[nextBlock] = Stream(blocks)[nextBlock - 1] \o b.data
      /\ b.data \in Seq(Nat)
  BY <1>1, <1>3, StreamFile, Zenon
<1>5. b.real_sz \in Nat
  <2>1. b \in BlockSet
    BY <1>1, <1>3
  <2> HIDE DEF b
  <2> QED
    BY <2>1 DEF BlockSet
<1>6. /\ Tagged => Len(b.data) = b.real_sz
      /\ \/ Len(b.data) = b.real_sz /\ region' = b.data
         \/ Len(b.data) > b.real_sz /\ region' = SubSeq(b.data, 1, b.real_sz)
  <2>1. Tagged => Len(b.data) = b.real_sz
    BY <1>3, Zenon DEF Tagged
  <2>2. \/ Len(b.data) = b.real_sz /\ region' = b.data
        \/ Len(b.data) > b.real_sz /\ region' = SubSeq(b.data, 1, b.real_sz)
    BY Zenon DEF NextRegion, Loaded, SizeMatches
  <2> QED
    BY <2>1, <2>2, Zenon
<1> DEFINE d == b.data
           z == b.real_sz
<1>7. region' \in Seq(Nat) /\ (Tagged => region' = d)
  <2>1. /\ d \in Seq(Nat) /\ z \in Nat /\ (Tagged => Len(d) = z)
        /\ \/ Len(d) = z /\ region' = d
           \/ Len(d) > z /\ region' = SubSeq(d, 1, z)
    BY <1>4, <1>5, <1>6, Zenon
  <2> HIDE DEF d, z
  <2>2. ~(Len(d) = z /\ Len(d) > z)
    BY <2>1
  <2>3. Len(d) > z => SubSeq(d, 1, z) \in Seq(Nat)
    BY <2>1
  <2> QED
    BY <2>1, <2>2, <2>3, Zenon
<1>8. Rest' = region' /\ Left' = Len(region')
  <2>1. \A r \in Seq(Nat) : SubSeq(r, 0 + 1, Len(r)) = r /\ Len(r) - 0 = Len(r)
    OBVIOUS
  <2>2. Rest' = SubSeq(region', ptr' + 1, Len(region')) /\ Left' = Len(region') - ptr'
    BY Zenon DEF Rest, Left
  <2> QED
    BY <1>2, <1>7, <2>1, <2>2, Zenon
<1> QED
  BY <1>1, <1>2, <1>3, <1>4, <1>7, <1>8, Zenon

\* While the reader runs the file does not change.
LEMMA FileFixed ==
  ASSUME UNCHANGED fileVars
  PROVE  /\ blocks' = blocks /\ ends' = ends /\ whole' = whole
         /\ Tagged' <=> Tagged
         /\ Aligned' <=> Aligned
         /\ NoEmpty' <=> NoEmpty
<1>1. blocks' = blocks /\ ends' = ends /\ whole' = whole
  BY Zenon DEF fileVars
<1> QED
  BY <1>1, Zenon DEF Tagged, Aligned, NoEmpty

\* What has been delivered stays so.
LEMMA DeliveredKept ==
  ASSUME UNCHANGED fileVars, Delivered, got' = got
  PROVE  Delivered'
BY FileFixed, Zenon DEF Delivered

\* A caller asks for no more than what is left of the entry it has come to.
LEMMA RequestFits ==
  ASSUME NEW n \in Requests, NEW e \in ends, e > Len(got)
  PROVE  Len(got) + n <= e
BY Zenon DEF Requests

\* Every size a caller asks for is a natural number.
LEMMA RequestType ==
  ASSUME ReaderTypes, NEW n \in Requests
  PROVE  n \in Nat
<1>1. ends \subseteq Nat /\ Len(got) \in Nat
  BY ReaderFacts, Zenon
<1>2. n = 1 \/ \E e \in ends : n \in 1 .. (e - Len(got))
  BY Zenon DEF Requests
<1> QED
  BY <1>1, <1>2

\* The conjuncts of the reader's invariant that a step in and to other places of
\* its control leaves alone
LEMMA ReaderKept ==
  ASSUME ReaderInv, UNCHANGED fileVars,
         UNCHANGED <<region, ptr, nextBlock, got>>
  PROVE  /\ Rest' = Rest /\ Left' = Left /\ Delivered'
         /\ need' \in Nat /\ rpc' \in {"idle", "full", "end", "corrupt"} => ReaderTypes'
         /\ rpc \in {"idle", "full"} /\ rpc' # "end" => InOrder'
<1>1. /\ blocks' = blocks /\ ends' = ends /\ whole' = whole /\ (Tagged' <=> Tagged)
  BY FileFixed, Zenon
<1>2. Rest' = Rest /\ Left' = Left
  BY Zenon DEF Rest, Left
<1>3. Delivered'
  BY DeliveredKept, Zenon DEF ReaderInv
<1>4. need' \in Nat /\ rpc' \in {"idle", "full", "end", "corrupt"} => ReaderTypes'
  BY <1>1, Zenon DEF ReaderInv, ReaderTypes
<1>5. ASSUME rpc \in {"idle", "full"}, rpc' # "end" PROVE InOrder'
  BY <1>1, <1>2, <1>5, Zenon DEF ReaderInv, InOrder
<1> QED
  BY <1>2, <1>3, <1>4, <1>5, Zenon

\* read_log_full starts.
LEMMA StartStep ==
  ASSUME ReaderInv, UNCHANGED fileVars, NEW n \in Requests,
         ReadFullStart(n)
  PROVE  ReaderInv'
<1>1. /\ rpc = "idle" /\ rpc' = "full" /\ lastZero' = FALSE /\ need' = n
      /\ UNCHANGED <<region, ptr, nextBlock, got>>
  BY Zenon DEF ReadFullStart
<1>2. n \in Nat
  BY RequestType, Zenon DEF ReaderInv
<1>3. rpc' # "end" /\ rpc' # "idle" /\ rpc' # "corrupt"
  BY <1>1
<1>4. ReaderTypes' /\ Delivered' /\ InOrder'
  BY <1>1, <1>2, <1>3, ReaderKept, Zenon
<1>5. ZeroMoved' /\ PeekIsNext' /\ NoFalseAlarm'
  BY <1>1, <1>3, Zenon DEF ZeroMoved, PeekIsNext, NoFalseAlarm
<1> QED
  BY <1>4, <1>5, Zenon DEF ReaderInv

\* readahead_log from the region in memory
LEMMA HereStep ==
  ASSUME ReaderInv, UNCHANGED fileVars, NEW n \in Requests,
         AheadHere(n)
  PROVE  ReaderInv'
<1>1. /\ rpc = "idle" /\ rpc' = "idle" /\ need' = need /\ n <= Left
      /\ peeked' = SubSeq(Rest, 1, n)
      /\ UNCHANGED <<region, ptr, nextBlock, got>>
  BY Zenon DEF AheadHere
<1>2. n \in Nat /\ Left \in Nat /\ need \in Nat
  BY RequestType, ReaderFacts, Zenon DEF ReaderInv, ReaderTypes
<1>3. rpc' # "end" /\ rpc' # "full" /\ rpc' # "corrupt"
  BY <1>1
<1>4. /\ ReaderTypes' /\ Delivered' /\ InOrder' /\ Rest' = Rest /\ Left' = Left
  BY <1>1, <1>2, <1>3, ReaderKept, Zenon
<1>5. PeekIsNext'
  <2>1. n \in 0 .. Left
    BY <1>1, <1>2
  <2> QED
    BY <1>1, <1>4, <2>1, Zenon DEF PeekIsNext
<1>6. ZeroMoved' /\ NoFalseAlarm'
  BY <1>3, Zenon DEF ZeroMoved, NoFalseAlarm
<1> QED
  BY <1>4, <1>5, <1>6, Zenon DEF ReaderInv

\* In a file whose blocks hold whole entries, what is left of a region holds at
\* least what a caller asks for, unless nothing is left.
LEMMA RegionHolds ==
  ASSUME ReaderTypes, Aligned, NEW n \in Requests,
         NEW r \in Seq(Nat), NEW i \in 0 .. whole, r # <<>>,
         got \o r = Stream(blocks)[i]
  PROVE  n <= Len(r)
<1>1. /\ blocks \in Seq(BlockSet) /\ got \in Seq(Nat) /\ Len(got) \in Nat
      /\ ends \subseteq Nat /\ whole \in 0 .. Len(blocks) /\ Len(blocks) \in Nat
  BY ReaderFacts, Zenon
<1>2. Len(r) \in Nat /\ Len(r) > 0
  OBVIOUS
<1>3. got \o r \in Seq(Nat) /\ Len(got \o r) = Len(got) + Len(r)
  BY <1>1, ConcatProperties, Zenon
<1>4. i # 0
  <2>1. Stream(blocks)[0] = <<>> /\ Len(<<>>) = 0
    BY <1>1, StreamFile, Zenon
  <2>2. Len(got \o r) # 0
    BY <1>1, <1>2, <1>3, SMTT(30)
  <2> QED
    BY <2>1, <2>2
<1>5. i \in 1 .. whole
  BY <1>1, <1>4, SMTT(30)
<1>6. Len(got) + Len(r) \in ends
  BY <1>3, <1>5, SMTT(30) DEF Aligned
<1>7. Len(got) + Len(r) > Len(got)
  BY <1>1, <1>2
<1>8. Len(got) + n <= Len(got) + Len(r)
  BY <1>6, <1>7, RequestFits, Zenon
<1>9. n \in Nat
  BY RequestType, Zenon
<1> QED
  BY <1>1, <1>2, <1>8, <1>9, SMTT(30)

\* readahead_log with too few units left
LEMMA UnalignedStep ==
  ASSUME ReaderInv, UNCHANGED fileVars, NEW n \in Requests,
         AheadUnaligned(n)
  PROVE  ReaderInv'
<1>1. /\ rpc = "idle" /\ rpc' = "corrupt" /\ need' = need /\ n > Left /\ Left > 0
      /\ UNCHANGED <<region, ptr, nextBlock, got>>
  BY Zenon DEF AheadUnaligned
<1>2. /\ n \in Nat /\ Left \in Nat /\ need \in Nat /\ Rest \in Seq(Nat)
      /\ Len(Rest) = Left /\ nextBlock - 1 \in 0 .. whole /\ ReaderTypes
  BY RequestType, ReaderFacts, Zenon DEF ReaderInv, ReaderTypes
<1>3. rpc' # "end" /\ rpc' # "full" /\ rpc' # "idle"
  BY <1>1
<1>4. ReaderTypes' /\ Delivered' /\ InOrder'
  BY <1>1, <1>2, <1>3, ReaderKept, Zenon
<1>5. ZeroMoved' /\ PeekIsNext'
  BY <1>3, Zenon DEF ZeroMoved, PeekIsNext
<1>6. NoFalseAlarm'
  <2> SUFFICES ASSUME Tagged, Aligned PROVE FALSE
    BY FileFixed, Zenon DEF NoFalseAlarm
  <2>1. got \o Rest = Stream(blocks)[nextBlock - 1]
    BY <1>1, Zenon DEF ReaderInv, InOrder
  <2>2. Rest # <<>>
    BY <1>1, <1>2
  <2>3. n <= Len(Rest)
    BY <1>2, <2>1, <2>2, RegionHolds, Zenon
  <2> QED
    BY <1>1, <1>2, <2>3
<1> QED
  BY <1>4, <1>5, <1>6, Zenon DEF ReaderInv

\* A step that loads the next region keeps what it delivers in order.
LEMMA LoadedInv ==
  ASSUME ReaderInv, UNCHANGED fileVars, NextRegion, Left = 0,
         rpc \in {"idle", "full"}, UNCHANGED <<got, need>>,
         rpc' \in {"idle", "full", "corrupt"}
  PROVE  ReaderTypes' /\ Delivered' /\ InOrder'
<1>1. blocks' = blocks /\ ends' = ends /\ whole' = whole /\ (Tagged' <=> Tagged)
  BY FileFixed, Zenon
<1>2. ReaderTypes /\ nextBlock \in Nat
  BY ReaderFacts, Zenon DEF ReaderInv
<1>3. /\ region' \in Seq(Nat) /\ ptr' = 0 /\ nextBlock' = nextBlock + 1
      /\ nextBlock' \in 1 .. whole + 1 /\ Rest' = region'
      /\ Tagged /\ got \o Rest = Stream(blocks)[nextBlock - 1] =>
           got \o region' = Stream(blocks)[nextBlock]
  BY <1>2, LoadNext, Zenon
<1>4. Delivered'
  BY DeliveredKept DEF ReaderInv
<1>5. ReaderTypes'
  <2>1. ptr' \in 0 .. Len(region')
    BY <1>3
  <2> QED
    BY <1>1, <1>2, <1>3, <2>1, Zenon DEF ReaderTypes
<1>6. InOrder'
  <2>1. nextBlock' - 1 = nextBlock /\ rpc' # "end"
    BY <1>2, <1>3
  <2>2. Tagged => got \o region' = Stream(blocks)[nextBlock]
    BY <1>3, Zenon DEF ReaderInv, InOrder
  <2> QED
    BY <1>1, <1>3, <2>1, <2>2, ZenonT(40) DEF InOrder
<1> QED
  BY <1>4, <1>5, <1>6

\* read_log moves on to the next region.
LEMMA MoveStep ==
  ASSUME ReaderInv, UNCHANGED fileVars, ReadLogMoves
  PROVE  ReaderInv'
<1>1. /\ rpc = "full" /\ Left = 0 /\ NextRegion /\ lastZero' = TRUE
      /\ rpc' = IF lastZero THEN "corrupt" ELSE "full"
      /\ UNCHANGED <<got, need>>
  BY Zenon DEF ReadLogMoves
<1>2. rpc' \in {"full", "corrupt"} /\ rpc' # "idle" /\ rpc \in {"idle", "full"}
      /\ rpc' \in {"idle", "full", "corrupt"}
  BY <1>1
<1>3. ReaderTypes' /\ Delivered' /\ InOrder'
  BY <1>1, <1>2, LoadedInv, Zenon
<1>4. PeekIsNext'
  BY <1>2, Zenon DEF PeekIsNext
<1>5. /\ nextBlock \in 1 .. whole /\ nextBlock' = nextBlock + 1 /\ ptr' = 0
      /\ Tagged => region' = blocks[nextBlock].data
  BY <1>1, LoadNext, Zenon DEF ReaderInv
<1>6. whole \in Nat /\ nextBlock' - 1 = nextBlock /\ nextBlock' > 1
  <2>1. whole \in 0 .. Len(blocks) /\ Len(blocks) \in Nat
    BY ReaderFacts, Zenon DEF ReaderInv
  <2> QED
    BY <1>5, <2>1
<1>7. ZeroMoved'
  BY <1>5, <1>6, FileFixed, Zenon DEF ZeroMoved
<1>8. NoFalseAlarm'
  <2> SUFFICES ASSUME Tagged, NoEmpty, lastZero PROVE FALSE
    BY <1>1, FileFixed DEF NoFalseAlarm
  <2>1. nextBlock > 1 /\ ptr = 0 /\ region = blocks[nextBlock - 1].data
    BY <1>1, Zenon DEF ReaderInv, ZeroMoved
  <2>2. nextBlock - 1 \in 1 .. whole
    BY <1>5, <1>6, <2>1, SMTT(30)
  <2>3. region # <<>>
    BY <2>1, <2>2, Zenon DEF NoEmpty
  <2>4. region \in Seq(Nat) /\ Len(region) - ptr = 0
    BY <1>1, Zenon DEF ReaderInv, ReaderTypes, Left
  <2> QED
    BY <2>1, <2>3, <2>4
<1> QED
  BY <1>3, <1>4, <1>7, <1>8, Zenon DEF ReaderInv

\* readahead_log from the next region
LEMMA AheadStep ==
  ASSUME ReaderInv, UNCHANGED fileVars, NEW n \in Requests,
         AheadMoves(n)
  PROVE  ReaderInv'
<1>1. /\ rpc = "idle" /\ Left = 0 /\ NextRegion /\ UNCHANGED <<got, need>>
      /\ IF Len(region') < n
         THEN rpc' = "corrupt" /\ UNCHANGED peeked
         ELSE peeked' = SubSeq(region', 1, n) /\ UNCHANGED rpc
  BY Zenon DEF AheadMoves
<1>2. rpc' # "full" /\ rpc \in {"idle", "full"} /\ rpc' \in {"idle", "full", "corrupt"}
  BY <1>1
<1>3. ReaderTypes' /\ Delivered' /\ InOrder'
  BY <1>1, <1>2, LoadedInv, Zenon
<1>4. ZeroMoved'
  BY <1>2, Zenon DEF ZeroMoved
<1>5. /\ region' \in Seq(Nat) /\ Rest' = region' /\ Left' = Len(region')
      /\ nextBlock \in 1 .. whole
      /\ Tagged => region' = blocks[nextBlock].data
      /\ Tagged /\ got \o Rest = Stream(blocks)[nextBlock - 1] =>
           got \o region' = Stream(blocks)[nextBlock]
  BY <1>1, LoadNext, Zenon DEF ReaderInv
<1>6. n \in Nat /\ Len(region') \in Nat
  <2>1. n \in Nat
    BY RequestType, Zenon DEF ReaderInv
  <2> QED
    BY <1>5, <2>1, SMTT(30)
<1>7. PeekIsNext'
  <2> SUFFICES ASSUME rpc' = "idle" PROVE \E k \in 0 .. Left' : peeked' = SubSeq(Rest', 1, k)
    BY Zenon DEF PeekIsNext
  <2>1. ~(Len(region') < n) /\ peeked' = SubSeq(region', 1, n)
    BY <1>1
  <2>2. n \in 0 .. Len(region')
    BY <1>6, <2>1
  <2> QED
    BY <1>5, <2>1, <2>2, Zenon
<1>8. NoFalseAlarm'
  <2> SUFFICES ASSUME Tagged, Aligned, NoEmpty, Len(region') < n PROVE FALSE
    BY <1>1, FileFixed DEF NoFalseAlarm
  <2>1. got \o region' = Stream(blocks)[nextBlock]
    BY <1>1, <1>5, Zenon DEF ReaderInv, InOrder
  <2>2. region' # <<>>
    BY <1>5, Zenon DEF NoEmpty
  <2>3. nextBlock \in 0 .. whole
    BY <1>5
  <2>4. n <= Len(region')
    BY <1>5, <2>1, <2>2, <2>3, RegionHolds, Zenon DEF ReaderInv
  <2> QED
    BY <1>6, <2>4
<1> QED
  BY <1>3, <1>4, <1>7, <1>8, Zenon DEF ReaderInv

\* read_log or readahead_log throws what next_region throws.
LEMMA ThrowStep ==
  ASSUME ReaderInv, UNCHANGED fileVars,
         ReadLogThrows \/ \E n \in Requests : AheadThrows(n)
  PROVE  ReaderInv'
<1>1. PICK e \in {"end", "corrupt"} : RegionFails(e) /\ rpc' = e
  BY Zenon DEF ReadLogThrows, AheadThrows
<1>2. Left = 0 /\ UNCHANGED <<got, need>> /\ rpc \in {"idle", "full"}
  BY Zenon DEF ReadLogThrows, AheadThrows
<1>3. /\ region' = <<>> /\ ptr' = 0 /\ nextBlock' = nextBlock
      /\ \/ nextBlock > whole /\ e = "end"
         \/ nextBlock <= whole /\ ~SizeMatches /\ e = "corrupt"
  BY <1>1, Zenon DEF RegionFails
<1>4. rpc' # "idle" /\ rpc' # "full"
  BY <1>1
<1>5. blocks' = blocks /\ ends' = ends /\ whole' = whole /\ (Tagged' <=> Tagged)
  BY FileFixed, Zenon
<1>6. ReaderTypes'
  <2>1. region' \in Seq(Nat) /\ ptr' \in 0 .. Len(region') /\ rpc' \in {"idle", "full", "end", "corrupt"}
    BY <1>1, <1>3
  <2> QED
    BY <1>2, <1>3, <1>5, <2>1, Zenon DEF ReaderInv, ReaderTypes
<1>7. Delivered'
  BY <1>2, DeliveredKept, Zenon DEF ReaderInv
<1>8. ZeroMoved' /\ PeekIsNext'
  BY <1>4, Zenon DEF ZeroMoved, PeekIsNext
<1>9. /\ whole \in Nat /\ nextBlock \in Nat /\ nextBlock - 1 \in 0 .. whole
      /\ got \o Rest = got
  <2>1. /\ whole \in 0 .. Len(blocks) /\ Len(blocks) \in Nat
        /\ nextBlock \in Nat /\ nextBlock - 1 \in 0 .. whole /\ got \o Rest = got
    BY <1>2, ReaderFacts, Zenon DEF ReaderInv
  <2> QED
    BY <2>1
<1>10. InOrder'
  <2> SUFFICES ASSUME Tagged, rpc' = "end" PROVE got = Stream(blocks)[whole]
    BY <1>2, <1>4, <1>5, Zenon DEF InOrder
  <2>1. nextBlock > whole
    BY <1>1, <1>3, SMTT(30)
  <2>2. nextBlock - 1 = whole
    BY <1>9, <2>1
  <2>3. got \o Rest = Stream(blocks)[nextBlock - 1]
    BY <1>2, Zenon DEF ReaderInv, InOrder
  <2> QED
    BY <1>9, <2>2, <2>3, Zenon
<1>11. NoFalseAlarm'
  <2> SUFFICES ASSUME Tagged, rpc' = "corrupt" PROVE FALSE
    BY <1>5 DEF NoFalseAlarm
  <2>1. nextBlock <= whole /\ ~SizeMatches
    BY <1>1, <1>3, SMTT(30)
  <2>2. nextBlock \in 1 .. whole
    BY <1>9, <2>1
  <2> QED
    BY <2>1, <2>2, Zenon DEF Tagged, SizeMatches
<1> QED
  BY <1>6, <1>7, <1>8, <1>10, <1>11, Zenon DEF ReaderInv

\* read_log delivers.
LEMMA CopyStep ==
  ASSUME ReaderInv, UNCHANGED fileVars, ReadLogCopies
  PROVE  ReaderInv'
<1> DEFINE k == IF need <= Left THEN need ELSE Left
<1>1. /\ rpc = "full" /\ need > 0 /\ Left > 0 /\ lastZero' = FALSE
      /\ got' = got \o SubSeq(Rest, 1, k) /\ ptr' = ptr + k /\ peeked' = <<>>
      /\ UNCHANGED <<nextBlock, region>>
      /\ need' = need - k /\ rpc' = IF need = k THEN "idle" ELSE "full"
  BY Zenon DEF ReadLogCopies, Deliver
<1>2. /\ region \in Seq(Nat) /\ ptr \in 0 .. Len(region) /\ got \in Seq(Nat) /\ need \in Nat
      /\ Left \in Nat /\ nextBlock - 1 \in 0 .. whole
  BY ReaderFacts, Zenon DEF ReaderInv, ReaderTypes
<1>3. k \in 0 .. Len(region) - ptr /\ need - k \in Nat
  BY <1>2 DEF Left
<1> HIDE DEF k
<1>4. /\ got' \in Seq(Nat) /\ got' \o Rest' = got \o Rest
  <2>1. Rest' = SubSeq(region, (ptr + k) + 1, Len(region))
    BY <1>1 DEF Rest
  <2> QED
    BY <1>1, <1>2, <1>3, <2>1, MoveUnits, ZenonT(40) DEF Rest
<1>5. rpc' \in {"idle", "full"} /\ rpc' # "end" /\ rpc' # "corrupt"
      /\ rpc' \in {"idle", "full", "end", "corrupt"}
  BY <1>1
<1>6. blocks' = blocks /\ ends' = ends /\ whole' = whole /\ (Tagged' <=> Tagged)
  BY FileFixed, Zenon
<1>7. ptr' \in 0 .. Len(region)
  BY <1>1, <1>2, <1>3, SMTT(30)
<1>8. ReaderTypes'
  BY <1>1, <1>3, <1>4, <1>5, <1>6, <1>7, ZenonT(40) DEF ReaderInv, ReaderTypes
<1>9. InOrder'
  BY <1>1, <1>4, <1>5, <1>6, ZenonT(40) DEF ReaderInv, InOrder
<1>10. Rest' \in Seq(Nat) /\ Left' \in Nat
  <2>1. Rest' \in Seq(Nat)
    BY <1>1, <1>2, <1>7, RestType, ZenonT(40) DEF Rest
  <2>2. Left' \in Nat
    <3>1. Left' = Len(region) - ptr'
      BY <1>1, Zenon DEF Left
    <3>2. Len(region) \in Nat
      BY <1>2
    <3> QED
      BY <1>7, <3>1, <3>2, SMTT(30)
  <2> QED
    BY <2>1, <2>2, SMTT(30)
<1>11. Delivered'
  <2> SUFFICES ASSUME Tagged
               PROVE  \E i \in 0 .. whole : \E n \in 0 .. Len(Stream(blocks)[i]) :
                        got' = SubSeq(Stream(blocks)[i], 1, n)
    BY <1>6, Zenon DEF Delivered
  <2>1. got' \o Rest' = Stream(blocks)[nextBlock - 1]
    BY <1>1, <1>4, Zenon DEF ReaderInv, InOrder
  <2> DEFINE s == Stream(blocks)[nextBlock - 1]
  <2>2. Len(got') \in 0 .. Len(s) /\ got' = SubSeq(s, 1, Len(got'))
    BY <1>4, <1>10, <2>1, FrontIsPrefix, ZenonT(40)
  <2> QED
    BY <1>2, <2>2, Zenon
<1>12. PeekIsNext'
  <2>1. 0 \in 0 .. Left' /\ SubSeq(Rest', 1, 0) = <<>>
    BY <1>10
  <2> QED
    BY <1>1, <2>1, Zenon DEF PeekIsNext
<1>13. ZeroMoved' /\ NoFalseAlarm'
  BY <1>1, <1>5, Zenon DEF ZeroMoved, NoFalseAlarm
<1> QED
  BY <1>8, <1>9, <1>11, <1>12, <1>13, ZenonT(40) DEF ReaderInv

\* Every step of the reader keeps its invariant.
LEMMA ReaderStep ==
  ASSUME ReaderInv, UNCHANGED fileVars, ReaderNext
  PROVE  ReaderInv'
BY StartStep, HereStep, UnalignedStep, AheadStep, ThrowStep, CopyStep, MoveStep, ZenonT(40)
   DEF ReaderNext

\* The reader has not started.
Fresh ==
  /\ blocks \in Seq(BlockSet) /\ ends \subseteq Nat /\ whole \in 0 .. Len(blocks)
  /\ ReaderInit

\* A reader that has not started is in order, whatever file it will read.
LEMMA FreshReader == Fresh => ReaderInv
<1> SUFFICES ASSUME blocks \in Seq(BlockSet), ends \subseteq Nat, whole \in 0 .. Len(blocks),
                    ReaderInit
             PROVE  ReaderInv
  BY Zenon DEF Fresh
<1>1. /\ nextBlock = 1 /\ region = <<>> /\ ptr = 0 /\ got = <<>> /\ need = 0
      /\ lastZero = FALSE /\ peeked = <<>> /\ rpc = "idle"
  BY Zenon DEF ReaderInit
<1>3. Stream(blocks)[0] = <<>> /\ Len(blocks) \in Nat
  BY StreamFile, Zenon
<1>4. ReaderTypes
  <2>1. /\ nextBlock \in 1 .. whole + 1 /\ region \in Seq(Nat) /\ ptr \in 0 .. Len(region)
        /\ got \in Seq(Nat) /\ need \in Nat /\ rpc \in {"idle", "full", "end", "corrupt"}
    BY <1>1, <1>3
  <2> QED
    BY <2>1 DEF ReaderTypes
<1>5. /\ Rest = <<>> /\ Left = 0 /\ nextBlock - 1 = 0
      /\ got \o <<>> = <<>> /\ SubSeq(<<>>, 1, 0) = <<>> /\ Len(<<>>) = 0
      /\ 0 \in 0 .. 0 /\ 0 \in 0 .. whole
      /\ rpc # "end" /\ rpc # "corrupt" /\ rpc # "full"
  <2>1. /\ Rest = SubSeq(<<>>, 0 + 1, Len(<<>>)) /\ Left = Len(<<>>) - 0
    BY <1>1, Zenon DEF Rest, Left
  <2>2. SubSeq(<<>>, 0 + 1, Len(<<>>)) = <<>> /\ Len(<<>>) - 0 = 0 /\ SubSeq(<<>>, 1, 0) = <<>>
    OBVIOUS
  <2>3. 0 \in 0 .. whole
    BY <1>3
  <2> QED
    BY <1>1, <2>1, <2>2, <2>3, SMTT(30)
<1>6. InOrder
  BY <1>1, <1>3, <1>5, ZenonT(40) DEF InOrder
<1>7. PeekIsNext
  BY <1>1, <1>5, Zenon DEF PeekIsNext
<1>8. Delivered
  BY <1>1, <1>3, <1>5, Zenon DEF Delivered
<1>9. ZeroMoved /\ NoFalseAlarm
  BY <1>5, Zenon DEF ZeroMoved, NoFalseAlarm
<1> QED
  BY <1>4, <1>6, <1>7, <1>8, <1>9, ZenonT(40) DEF ReaderInv

\* A step that leaves file and reader alone
LEMMA ReaderSame ==
  ASSUME ReaderInv, UNCHANGED <<fileVars, readerVars>>
  PROVE  ReaderInv'
<1>1. UNCHANGED <<nextBlock, region, ptr, got, need, lastZero, peeked, rpc>>
  BY Zenon DEF readerVars
<1>2. blocks' = blocks /\ ends' = ends /\ whole' = whole
  BY FileFixed, Zenon
<1> QED
  BY <1>1, <1>2, FileFixed, ZenonT(40)
     DEF ReaderInv, ReaderTypes, ZeroMoved, Delivered, InOrder, PeekIsNext, NoFalseAlarm,
         Rest, Left

\* The invariant of the reader holds for every file it can be given.
THEOREM ReaderInvHolds == ReadSpec => []ReaderInv
<1>1. AnyFile /\ ReaderInit => ReaderInv
  <2>1. LogBlock = BlockSet
    BY DEF LogBlock, BlockSet, Unit, COMPRESSED, UNCOMPRESSED
  <2> QED
    BY <2>1, FreshReader, Zenon DEF AnyFile, Fresh
<1>2. ReaderInv /\ [ReadNext]_<<fileVars, readerVars>> => ReaderInv'
  BY ReaderStep, ReaderSame, Zenon DEF ReadNext
<1> QED
  BY <1>1, <1>2, PTL DEF ReadSpec

\* read_log and readahead_log deliver the blocks of any file in order, whatever
\* their sizes, and report the end only behind the last complete block.
THEOREM ReadsInOrder == ReadSpec => []InOrder
<1>1. ReaderInv => InOrder
  BY Zenon DEF ReaderInv
<1> QED
  BY <1>1, ReaderInvHolds, PTL

\* What readahead_log shows is what the next read_log_full delivers.
THEOREM PeekShowsNext == ReadSpec => []PeekIsNext
<1>1. ReaderInv => PeekIsNext
  BY Zenon DEF ReaderInv
<1> QED
  BY <1>1, ReaderInvHolds, PTL

\* The reader does not report a file of whole, non-empty blocks as corrupted.
THEOREM AlarmsJustified == ReadSpec => []NoFalseAlarm
<1>1. ReaderInv => NoFalseAlarm
  BY Zenon DEF ReaderInv
<1> QED
  BY <1>1, ReaderInvHolds, PTL

-----------------------------------------------------------------------------
(* Recording, then replaying                                               *)

\* The replayer starts after the recorder, on the file the recorder has left;
\* after an exit that file is whole.
PhaseInv ==
  /\ who \in Threads
  /\ phase = "record" => ReaderInit
  /\ phase # "record" => blocks = file[who] /\ ends = bounds[who]
  /\ phase = "exited" => whole = Len(file[who])

RRInv == OrderInv /\ FileInv /\ ReaderInv /\ PhaseInv

\* The composition starts in order.
LEMMA RRStart == RRInit => RRInv
<1> SUFFICES ASSUME RRInit PROVE RRInv
  OBVIOUS
<1>1. /\ Init /\ who \in Threads /\ phase = "record" /\ ReaderInit
      /\ blocks = <<>> /\ whole = 0 /\ ends = {}
  BY Zenon DEF RRInit
<1>2. OrderInv /\ FileInv
  BY <1>1, OrderInit, FileInit, SMTT(30)
<1>3. blocks \in Seq(BlockSet) /\ ends \subseteq Nat /\ whole \in 0 .. Len(blocks)
  BY <1>1
<1>4. ReaderInv
  BY <1>1, <1>3, FreshReader, Zenon DEF Fresh
<1>5. PhaseInv
  BY <1>1 DEF PhaseInv
<1> QED
  BY <1>2, <1>4, <1>5, Zenon DEF RRInv

\* While the recorder runs the reader has not started, and it starts on the
\* file the recorder leaves.
LEMMA OpenStep ==
  ASSUME RRInv, NEW p, Opens(p), [Next]_vars, whole' \in 0 .. Len(file'[who])
  PROVE  /\ OrderInv' /\ FileInv' /\ ReaderInv' /\ who' \in Threads
         /\ blocks' = file'[who'] /\ ends' = bounds'[who']
<1>1. OrderInv' /\ FileInv'
  BY OrderStep, FileStep, Zenon DEF RRInv
<1>2. /\ phase = "record" /\ who' = who /\ UNCHANGED readerVars
      /\ blocks' = file'[who] /\ ends' = bounds'[who]
  BY Zenon DEF Opens
<1>3. who \in Threads /\ ReaderInit
  BY <1>2, Zenon DEF RRInv, PhaseInv
<1>4. ReaderInit'
  <2>1. UNCHANGED <<nextBlock, region, ptr, got, need, lastZero, peeked, rpc>>
    BY <1>2, Zenon DEF readerVars
  <2> QED
    BY <1>3, <2>1 DEF ReaderInit
<1>5. blocks' \in Seq(BlockSet) /\ ends' \subseteq Nat
  <2>1. TypeInv'
    BY <1>1, Zenon DEF OrderInv
  <2>2. file' \in [Threads -> Seq(BlockSet)] /\ bounds' \in [Threads -> SUBSET Nat]
    BY <2>1, Zenon DEF TypeInv, TypeOK, BlockSet, Unit
  <2> QED
    BY <1>2, <1>3, <2>2, Zenon
<1>6. ReaderInv'
  <2>1. Fresh'
    BY <1>2, <1>4, <1>5, Zenon DEF Fresh
  <2> QED
    BY <2>1, FreshReader, PTL
<1> QED
  BY <1>1, <1>2, <1>3, <1>6, Zenon

\* Every step of the composition keeps the invariant.
LEMMA RRStep == RRInv /\ [RRNext]_rrVars => RRInv'
<1> SUFFICES ASSUME RRInv, [RRNext]_rrVars PROVE RRInv'
  OBVIOUS
<1>1. who \in Threads /\ file[who] \in Seq(BlockSet) /\ Len(file[who]) \in Nat
  <2>1. who \in Threads /\ file[who] \in Seq(BlockSet)
    BY LogTypes, Zenon DEF RRInv, PhaseInv, OrderInv
  <2> QED
    BY <2>1
<1>2. CASE Recording
  <2>1. /\ phase = "record" /\ Next /\ phase' = phase /\ who' = who
        /\ UNCHANGED <<fileVars, readerVars>>
    BY <1>2, Zenon DEF Recording
  <2>2. OrderInv' /\ FileInv'
    BY <2>1, OrderStep, FileStep, Zenon DEF RRInv
  <2>3. ReaderInv'
    BY <2>1, ReaderSame, Zenon DEF RRInv
  <2>4. PhaseInv'
    <3>1. ReaderInit'
      BY <2>1, Zenon DEF RRInv, PhaseInv, ReaderInit, readerVars
    <3> QED
      BY <1>1, <2>1, <3>1 DEF PhaseInv
  <2> QED
    BY <2>2, <2>3, <2>4, Zenon DEF RRInv
<1>3. CASE Ended \/ Killed
  <2>1. PICK p \in {"exited", "killed"} : Opens(p)
    BY <1>3, Zenon DEF Ended, Killed
  <2>2. whole' = Len(file[who]) /\ UNCHANGED vars
    BY <1>3, Zenon DEF Ended, Killed
  <2>3. file' = file
    BY <2>2, Zenon DEF vars
  <2>4. whole' \in 0 .. Len(file'[who])
    BY <1>1, <2>2, <2>3
  <2>5. /\ OrderInv' /\ FileInv' /\ ReaderInv' /\ who' \in Threads
        /\ blocks' = file'[who'] /\ ends' = bounds'[who']
    BY <2>1, <2>2, <2>4, OpenStep, Zenon
  <2>6. who' = who /\ phase' # "record"
    BY <2>1 DEF Opens
  <2>7. PhaseInv'
    BY <2>2, <2>3, <2>5, <2>6, Zenon DEF PhaseInv
  <2> QED
    BY <2>5, <2>7, Zenon DEF RRInv
<1>4. CASE KilledWriting
  <2>1. Opens("killed") /\ Next /\ whole' \in Len(file[who]) .. (Len(file'[who]) - 1)
    BY <1>4, Zenon DEF KilledWriting
  <2>2. phase' # "record" /\ phase' # "exited"
    BY <2>1 DEF Opens
  <2>3. whole' \in 0 .. Len(file'[who])
    <3>1. TypeInv'
      BY <2>1, TypeStep, Zenon DEF RRInv, OrderInv
    <3>2. file' \in [Threads -> Seq(BlockSet)]
      BY <3>1, Zenon DEF TypeInv, TypeOK, BlockSet, Unit
    <3>3. file'[who] \in Seq(BlockSet)
      BY <1>1, <3>2, Zenon
    <3>4. Len(file'[who]) \in Nat
      BY <3>3
    <3> QED
      BY <1>1, <2>1, <3>4, SMTT(30)
  <2>4. /\ OrderInv' /\ FileInv' /\ ReaderInv' /\ who' \in Threads
        /\ blocks' = file'[who'] /\ ends' = bounds'[who']
    BY <2>1, <2>3, OpenStep, Zenon
  <2>5. PhaseInv'
    BY <2>2, <2>4, Zenon DEF PhaseInv
  <2> QED
    BY <2>4, <2>5, Zenon DEF RRInv
<1>5. CASE Replaying \/ UNCHANGED rrVars
  <2>1. /\ UNCHANGED <<vars, who, phase, fileVars>>
        /\ (phase # "record" /\ ReaderNext) \/ UNCHANGED readerVars
    BY <1>5, Zenon DEF Replaying, ReadNext, rrVars
  <2>2. OrderInv' /\ FileInv'
    BY <2>1, OrderStep, FileStep, Zenon DEF RRInv
  <2>3. ReaderInv'
    BY <2>1, ReaderStep, ReaderSame, Zenon DEF RRInv
  <2>4. PhaseInv'
    <3>1. /\ who' = who /\ phase' = phase /\ file' = file /\ bounds' = bounds
          /\ blocks' = blocks /\ ends' = ends /\ whole' = whole
      BY <2>1, Zenon DEF vars, fileVars
    <3>2. phase = "record" => ReaderInit'
      BY <2>1, Zenon DEF RRInv, PhaseInv, ReaderInit, readerVars
    <3> QED
      BY <3>1, <3>2, Zenon DEF RRInv, PhaseInv
  <2> QED
    BY <2>2, <2>3, <2>4, Zenon DEF RRInv
<1> QED
  BY <1>2, <1>3, <1>4, <1>5, Zenon DEF RRNext

\* The invariant of recording and replaying holds in every state.
THEOREM RRInvHolds == RRSpec => []RRInv
<1> QED
  BY RRStart, RRStep, PTL DEF RRSpec

\* The file of a thread that was not torn: tagged, and cut between entries
LEMMA FileWhole ==
  ASSUME RRInv, phase # "record", ~torn[who]
  PROVE  Tagged /\ Aligned
<1>0. blocks = file[who] /\ ends = bounds[who]
  BY Zenon DEF RRInv, PhaseInv
<1>1. /\ who \in Threads /\ file[who] \in Seq(BlockSet) /\ Len(file[who]) \in Nat
      /\ whole \in 0 .. Len(file[who])
  BY <1>0, ReaderFacts, Zenon DEF RRInv, PhaseInv, ReaderInv
<1>2. /\ \A i \in DOMAIN file[who] : file[who][i].real_sz = Len(file[who][i].data)
      /\ \A i \in 0 .. Len(file[who]) : Len(Stream(file[who])[i]) \in bounds[who]
  BY <1>1, Zenon DEF RRInv, OrderInv, StreamInv, StreamAt, FileInv, FileAt
<1>3. \A i \in 1 .. whole : i \in DOMAIN file[who] /\ i \in 0 .. Len(file[who])
  BY <1>1
<1> QED
  BY <1>0, <1>2, <1>3, Zenon DEF Tagged, Aligned

\* The replayer reads the beginning of what the thread logged: the whole way
\* from append_buffer and the log phases through the file and read_log, wherever
\* the recorder was killed.
THEOREM ReplayReadsLog == RRSpec => []ReplayIsLog
<1>1. RRInv => ReplayIsLog
  <2> SUFFICES ASSUME RRInv, phase # "record", ~torn[who]
               PROVE  \E n \in 0 .. Len(logged[who]) : got = SubSeq(logged[who], 1, n)
    BY Zenon DEF ReplayIsLog
  <2> DEFINE bs == file[who]
             s == Stream(bs)
             f == flushed[who]
             l == logged[who]
             p == Pending(who)
  <2>0. blocks = bs
    BY Zenon DEF RRInv, PhaseInv
  <2>1. /\ who \in Threads /\ bs \in Seq(BlockSet) /\ Len(bs) \in Nat /\ whole \in 0 .. Len(bs)
        /\ TypeInv
    BY <2>0, ReaderFacts, Zenon DEF RRInv, PhaseInv, OrderInv, ReaderInv
  <2>2. f = s[Len(bs)] /\ l = f \o p
    BY <2>1, Zenon DEF RRInv, OrderInv, StreamInv, StreamAt, FileInv, FileAt
  <2>3. f \in Seq(Nat) /\ l \in Seq(Nat) /\ p \in Seq(Nat)
    <3>1. f \in Seq(Nat) /\ l \in Seq(Nat)
      BY <2>1, LogTypes, ZenonT(40)
    <3>2. Buffered(who) \in Seq(Nat) /\ <<>> \in Seq(Nat)
      BY <2>1, OperandTypes, SMTT(30)
    <3> QED
      BY <3>1, <3>2, Zenon DEF Pending
  <2>4. PICK i \in 0 .. whole : \E n \in 0 .. Len(s[i]) : got = SubSeq(s[i], 1, n)
    BY <2>0, FileWhole, Zenon DEF RRInv, ReaderInv, Delivered
  <2>5. PICK n \in 0 .. Len(s[i]) : got = SubSeq(s[i], 1, n)
    BY <2>4, Zenon
  <2>6. i \in 0 .. Len(bs)
    BY <2>1
  <2>7. /\ s[i] \in Seq(Nat) /\ Len(s[i]) <= Len(s[Len(bs)])
        /\ \A k \in 1 .. Len(s[i]) : s[Len(bs)][k] = s[i][k]
    BY <2>1, <2>6, StreamFile, StreamPrefix, Zenon
  <2> DEFINE c == s[i]
  <2>8. /\ c \in Seq(Nat) /\ Len(c) <= Len(f) /\ \A k \in 1 .. Len(c) : f[k] = c[k]
        /\ n \in 0 .. Len(c) /\ got = SubSeq(c, 1, n)
    BY <2>2, <2>5, <2>7, ZenonT(40)
  <2> HIDE DEF c, f, l, p, s, bs
  <2>9. Len(l) = Len(f) + Len(p) /\ \A k \in 1 .. Len(f) : l[k] = f[k]
    BY <2>2, <2>3
  <2>10. n \in 0 .. Len(l) /\ \A k \in 1 .. n : l[k] = c[k]
    <3>1. Len(c) \in Nat /\ Len(f) \in Nat /\ Len(p) \in Nat
      BY <2>3, <2>8, SMTT(30)
    <3>2. n \in 0 .. Len(l)
      BY <2>8, <2>9, <3>1, SMTT(30)
    <3>3. \A k \in 1 .. n : k \in 1 .. Len(c) /\ k \in 1 .. Len(f)
      BY <2>8, <3>1
    <3> QED
      BY <2>8, <2>9, <3>2, <3>3, ZenonT(40)
  <2>11. /\ SubSeq(l, 1, n) \in Seq(Nat) /\ Len(SubSeq(l, 1, n)) = n
         /\ \A k \in 1 .. n : SubSeq(l, 1, n)[k] = l[k]
    BY <2>3, <2>10, PrefixType, Zenon
  <2>12. /\ got \in Seq(Nat) /\ Len(got) = n /\ \A k \in 1 .. n : got[k] = c[k]
    BY <2>8, PrefixType, Zenon
  <2>13. got = SubSeq(l, 1, n)
    BY <2>10, <2>11, <2>12, SeqEqual, ZenonT(40)
  <2> QED
    BY <2>10, <2>13, Zenon DEF l
<1> QED
  BY <1>1, RRInvHolds, PTL

\* When the thread ended the process itself through flush_all_logger, a replay
\* that reaches the end of the file has read everything the thread logged.
THEOREM ReplayReadsAll == RRSpec => []ReplayComplete
<1>1. RRInv => ReplayComplete
  <2> SUFFICES ASSUME RRInv, phase = "exited", rpc = "end", pc[who] = "dead", ~torn[who]
               PROVE  got = logged[who]
    BY Zenon DEF ReplayComplete
  <2>1. who \in Threads /\ whole = Len(file[who]) /\ blocks = file[who] /\ phase # "record"
    BY DEF RRInv, PhaseInv
  <2>2. got = Stream(file[who])[whole]
    BY <2>1, FileWhole, Zenon DEF RRInv, ReaderInv, InOrder
  <2>3. flushed[who] = Stream(file[who])[Len(file[who])]
    BY <2>1, Zenon DEF RRInv, FileInv, FileAt
  <2>4. flushed[who] = logged[who]
    BY <2>1, DrainedLog, ZenonT(40) DEF RRInv, ExitKeepsLog
  <2> QED
    BY <2>1, <2>2, <2>3, <2>4, Zenon
<1> QED
  BY <1>1, RRInvHolds, PTL

\* The one way to an alarm on a log that was not torn is an empty block, which
\* flush_all_logger writes for an empty buffer.
THEOREM AlarmNeedsEmpty == RRSpec => []CorruptOnlyEmpty
<1>1. RRInv => CorruptOnlyEmpty
  BY FileWhole, Zenon DEF RRInv, ReaderInv, CorruptOnlyEmpty, NoFalseAlarm, NoEmpty
<1> QED
  BY <1>1, RRInvHolds, PTL

\* The recorder of the composition is the recorder alone: what holds of every
\* behaviour of Logger holds of it.
THEOREM RecorderAlone == RRSpec => Spec
<1>1. RRInit => Init
  BY Zenon DEF RRInit
<1>2. [RRNext]_rrVars => [Next]_vars
  BY Zenon DEF RRNext, Recording, Ended, Killed, KilledWriting, Replaying, rrVars
<1> QED
  BY <1>1, <1>2, PTL DEF RRSpec, Spec
=============================================================================
