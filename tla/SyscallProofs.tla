--------------------------- MODULE SyscallProofs ---------------------------
(***************************************************************************)
(* Proofs about the system call handlers, for any memory: a replay handler *)
(* reads back exactly what its post handler has appended, and memory and   *)
(* map of the replay stay those of the recorded run.                       *)
(***************************************************************************)
EXTENDS SyscallReplay, WellFoundedInduction, TLAPS

-----------------------------------------------------------------------------
(* Induction over the items of a handler, with a set for the property      *)

\* Sequences with the same elements are the same.
LEMMA SeqEqual ==
  ASSUME NEW S, NEW s \in Seq(S), NEW t \in Seq(S),
         Len(s) = Len(t), \A i \in 1 .. Len(s) : s[i] = t[i]
  PROVE  s = t
OBVIOUS

\* What is appended follows what was there.
LEMMA ConcatProperties ==
  ASSUME NEW S, NEW s \in Seq(S), NEW t \in Seq(S)
  PROVE  /\ s \o t \in Seq(S)
         /\ Len(s \o t) = Len(s) + Len(t)
         /\ \A i \in 1 .. Len(s) + Len(t) :
              (s \o t)[i] = IF i <= Len(s) THEN s[i] ELSE t[i - Len(s)]
OBVIOUS

\* A set of naturals has a smallest element.
LEMMA SmallestExists ==
  ASSUME NEW T, T \subseteq Nat, T # {}
  PROVE  \E x \in T : \A y \in T : x <= y
<1> DEFINE R == OpToRel(<, Nat)
<1>1. R = {ss \in Nat \X Nat : ss[1] < ss[2]}
  BY Zenon DEF OpToRel
<1>2. IsWellFoundedOn(R, Nat)
  BY NatLessThanWellFounded, Zenon
<1> HIDE DEF R
<1>3. PICK x \in T : \A y \in T : ~(<<y, x>> \in R)
  BY <1>2, WFMin, Zenon
<1>4. ASSUME NEW y \in T PROVE ~(y < x)
  <2>1. <<y, x>> \in Nat \X Nat /\ <<y, x>>[1] = y /\ <<y, x>>[2] = x
    OBVIOUS
  <2> QED
    BY <2>1, <1>1, <1>3, Zenon
<1> QED
  BY <1>4

\* What holds of 0 and is handed on by each item holds of all items.
LEMMA ItemInduction ==
  ASSUME NEW n \in Nat, NEW S, 0 \in S, \A j \in 1 .. n : j - 1 \in S => j \in S
  PROVE  \A j \in 0 .. n : j \in S
<1> DEFINE T == {j \in 0 .. n : j \notin S}
<1>1. SUFFICES ASSUME T # {} PROVE FALSE
  OBVIOUS
<1>2. PICK x \in T : \A y \in T : x <= y
  <2>1. T \subseteq Nat
    OBVIOUS
  <2> HIDE DEF T
  <2> QED
    BY <1>1, <2>1, SmallestExists, Zenon
<1>3. x \in 1 .. n /\ x \notin S
  OBVIOUS
<1>4. x - 1 \in S
  BY <1>2, <1>3
<1> QED
  BY <1>3, <1>4

-----------------------------------------------------------------------------
(* The recursions                                                          *)

Items == [at : Ptrs, len : 0 .. 2, from : Ptrs]
Memories == [Cells -> Values]

\* LoggedTo is what its recursion says.
LEMMA LoggedRec ==
  ASSUME NEW items, Len(items) \in Nat, NEW mem
  PROVE  LoggedTo(items, mem) =
           [j \in 0 .. Len(items) |->
              IF j = 0 THEN <<>> ELSE Append1(LoggedTo(items, mem)[j - 1], items[j], mem)]
<1> DEFINE E(g, n) == g = [j \in 0 .. n |->
                             IF j = 0 THEN <<>> ELSE Append1(g[j - 1], items[j], mem)]
           S == {n \in 0 .. Len(items) : \E g : E(g, n)}
<1>1. 0 \in S
  <2> DEFINE g == [j \in 0 .. 0 |-> <<>>]
  <2>1. E(g, 0)
    OBVIOUS
  <2>2. \E h : E(h, 0)
    <3> HIDE DEF g, E
    <3> QED
      BY <2>1
  <2> HIDE DEF g, E
  <2> QED
    BY <2>2
<1>2. ASSUME NEW n \in 1 .. Len(items), n - 1 \in S PROVE n \in S
  <2>1. PICK g : E(g, n - 1)
    BY <1>2
  <2> DEFINE h == [j \in 0 .. n |-> IF j = n THEN Append1(g[n - 1], items[n], mem) ELSE g[j]]
  <2>2. \A j \in 0 .. n - 1 : h[j] = g[j]
    OBVIOUS
  <2>3. ASSUME NEW j \in 0 .. n
        PROVE  h[j] = IF j = 0 THEN <<>> ELSE Append1(h[j - 1], items[j], mem)
    <3>1. CASE j = 0
      BY <2>1, <2>2, <3>1
    <3>2. CASE j \in 1 .. n - 1
      <4>1. h[j] = g[j] /\ h[j - 1] = g[j - 1]
        BY <2>2, <3>2
      <4>2. g[j] = Append1(g[j - 1], items[j], mem)
        BY <2>1, <3>2
      <4> HIDE DEF h
      <4> QED
        BY <4>1, <4>2, <3>2
    <3>3. CASE j = n
      <4>1. h[n] = Append1(g[n - 1], items[n], mem) /\ h[n - 1] = g[n - 1]
        BY <2>2
      <4> HIDE DEF h
      <4> QED
        BY <4>1, <3>3
    <3> QED
      BY <3>1, <3>2, <3>3
  <2>4. E(h, n)
    <3>1. h = [j \in 0 .. n |-> h[j]]
      OBVIOUS
    <3> HIDE DEF h
    <3> QED
      BY <3>1, <2>3, SMTT(30)
  <2> HIDE DEF h, E
  <2> QED
    BY <2>4
<1>3. Len(items) \in S
  <2> HIDE DEF S
  <2>1. \A n \in 1 .. Len(items) : n - 1 \in S => n \in S
    BY <1>2
  <2>2. \A n \in 0 .. Len(items) : n \in S
    BY <1>1, <2>1, ItemInduction, Zenon
  <2> QED
    BY <2>2
<1>4. \E g : E(g, Len(items))
  BY <1>3
<1> QED
  BY <1>4, SMTT(30) DEF LoggedTo

\* ReplayedTo is what its recursion says.
LEMMA ReplayedRec ==
  ASSUME NEW items, Len(items) \in Nat, NEW log
  PROVE  ReplayedTo(items, log) =
           [j \in 0 .. Len(items) |->
              IF j = 0 THEN [ok |-> TRUE, log |-> log, mem |-> pmem]
              ELSE Read1(ReplayedTo(items, log)[j - 1], items[j])]
<1> DEFINE s0 == [ok |-> TRUE, log |-> log, mem |-> pmem]
           E(g, n) == g = [j \in 0 .. n |->
                             IF j = 0 THEN s0 ELSE Read1(g[j - 1], items[j])]
           S == {n \in 0 .. Len(items) : \E g : E(g, n)}
<1> HIDE DEF s0
<1>1. 0 \in S
  <2> DEFINE g == [j \in 0 .. 0 |-> s0]
  <2>1. E(g, 0)
    OBVIOUS
  <2>2. \E h : E(h, 0)
    <3> HIDE DEF g, E
    <3> QED
      BY <2>1
  <2> HIDE DEF g, E
  <2> QED
    BY <2>2
<1>2. ASSUME NEW n \in 1 .. Len(items), n - 1 \in S PROVE n \in S
  <2>1. PICK g : E(g, n - 1)
    BY <1>2
  <2> DEFINE h == [j \in 0 .. n |-> IF j = n THEN Read1(g[n - 1], items[n]) ELSE g[j]]
  <2>2. \A j \in 0 .. n - 1 : h[j] = g[j]
    OBVIOUS
  <2>3. ASSUME NEW j \in 0 .. n
        PROVE  h[j] = IF j = 0 THEN s0 ELSE Read1(h[j - 1], items[j])
    <3>1. CASE j = 0
      BY <2>1, <2>2, <3>1
    <3>2. CASE j \in 1 .. n - 1
      <4>1. h[j] = g[j] /\ h[j - 1] = g[j - 1]
        BY <2>2, <3>2
      <4>2. g[j] = Read1(g[j - 1], items[j])
        BY <2>1, <3>2
      <4> HIDE DEF h
      <4> QED
        BY <4>1, <4>2, <3>2
    <3>3. CASE j = n
      <4>1. h[n] = Read1(g[n - 1], items[n]) /\ h[n - 1] = g[n - 1]
        BY <2>2
      <4> HIDE DEF h
      <4> QED
        BY <4>1, <3>3
    <3> QED
      BY <3>1, <3>2, <3>3
  <2>4. E(h, n)
    <3>1. h = [j \in 0 .. n |-> h[j]]
      OBVIOUS
    <3> HIDE DEF h
    <3> QED
      BY <3>1, <2>3, Zenon
  <2> HIDE DEF h, E
  <2> QED
    BY <2>4
<1>3. Len(items) \in S
  <2> HIDE DEF S
  <2>1. \A n \in 1 .. Len(items) : n - 1 \in S => n \in S
    BY <1>2
  <2>2. \A n \in 0 .. Len(items) : n \in S
    BY <1>1, <2>1, ItemInduction, Zenon
  <2> QED
    BY <2>2
<1>4. \E g : E(g, Len(items))
  BY <1>3
<1> QED
  BY <1>4, Zenon DEF ReplayedTo, s0

-----------------------------------------------------------------------------
(* The replay of one call                                                  *)

\* A length is taken from a cell that an earlier item has brought.
Ordered(items) ==
  \A j \in 1 .. Len(items) : items[j].from # NULL =>
    \E i \in 1 .. j - 1 : items[i] = Fixed(items[j].from, 1)

\* A memory with the cells of another one
Overlay(cells, new, old) == [a \in Cells |-> IF a \in cells THEN new[a] ELSE old[a]]

\* The cells of the first j items
Brought(items, mem, j) ==
  UNION {Span(items[i].at, Length(items[i], mem)) : i \in 1 .. j}

\* A length is a natural number, and the cells of an item are where it says.
LEMMA LengthType ==
  ASSUME NEW i \in Items, NEW mem \in Memories
  PROVE  /\ Length(i, mem) \in Nat
         /\ \A k \in 1 .. Length(i, mem) : i.at + k - 1 \in Span(i.at, Length(i, mem))
         /\ \A a \in Span(i.at, Length(i, mem)) :
              a - i.at + 1 \in 1 .. Length(i, mem) /\ a \in Int
BY SyscallAssumption, SMTT(30) DEF Items, Memories, Length, Ptrs, NULL, Cells, Values, Span

\* The end of the end of a sequence
LEMMA RestOfRest ==
  ASSUME NEW S, NEW s \in Seq(S), NEW m \in 0 .. Len(s), NEW l \in 0 .. Len(s) - m
  PROVE  LET t == SubSeq(s, m + 1, Len(s)) IN
           /\ t \in Seq(S) /\ Len(t) = Len(s) - m
           /\ \A k \in 1 .. Len(t) : t[k] = s[m + k]
           /\ SubSeq(t, l + 1, Len(t)) = SubSeq(s, m + l + 1, Len(s))
<1> DEFINE t == SubSeq(s, m + 1, Len(s))
           u == SubSeq(t, l + 1, Len(t))
           w == SubSeq(s, m + l + 1, Len(s))
<1>0. Len(s) \in Nat
  OBVIOUS
<1>1. t \in Seq(S) /\ Len(t) = Len(s) - m
  BY <1>0
<1>2. \A k \in 1 .. Len(t) : t[k] = s[m + k]
  BY <1>0, <1>1
<1>3. w \in Seq(S) /\ Len(w) = Len(s) - m - l
  BY <1>0
<1>4. \A k \in 1 .. Len(w) : w[k] = s[m + l + k]
  BY <1>0, <1>3
<1> HIDE DEF t, w
<1>5. u \in Seq(S) /\ Len(u) = Len(s) - m - l
  BY <1>0, <1>1
<1>6. \A k \in 1 .. Len(u) : u[k] = t[l + k]
  BY <1>0, <1>1, <1>5
<1> HIDE DEF u
<1>7. \A k \in 1 .. Len(u) : u[k] = w[k]
  BY <1>0, <1>1, <1>2, <1>3, <1>4, <1>5, <1>6, SMTT(30)
<1>8. u = w
  BY <1>3, <1>5, <1>7, SeqEqual, Zenon
<1> QED
  BY <1>1, <1>2, <1>8, Zenon DEF t, u, w

\* One item behind the others in the log: append_buffer leaves what was there.
LEMMA Append1Facts ==
  ASSUME NEW log \in Seq(Values), NEW i \in Items, NEW mem \in Memories,
         Span(i.at, Length(i, mem)) \subseteq Cells
  PROVE  LET new == Append1(log, i, mem) IN
           /\ new \in Seq(Values) /\ Len(new) = Len(log) + Length(i, mem)
           /\ \A k \in 1 .. Len(log) : new[k] = log[k]
           /\ \A k \in 1 .. Length(i, mem) : new[Len(log) + k] = mem[i.at + k - 1]
<1> DEFINE l == Length(i, mem)
           part == [j \in 1 .. l |-> mem[i.at + j - 1]]
<1>1. l \in Nat /\ \A k \in 1 .. l : i.at + k - 1 \in Cells
  BY LengthType
<1> HIDE DEF l
<1>2. \A k \in 1 .. l : mem[i.at + k - 1] \in Values
  BY <1>1 DEF Memories
<1>3. part \in Seq(Values) /\ Len(part) = l /\ \A k \in 1 .. l : part[k] = mem[i.at + k - 1]
  BY <1>1, <1>2
<1>4. Append1(log, i, mem) = log \o part
  BY DEF Append1, l
<1> HIDE DEF part
<1>5. Len(log) \in Nat
  OBVIOUS
<1>6. log \o part \in Seq(Values) /\ Len(log \o part) = Len(log) + l
  BY <1>1, <1>3, ConcatProperties, Zenon
<1>7. \A k \in 1 .. Len(log) : (log \o part)[k] = log[k]
  BY <1>1, <1>3, <1>5
<1>8. \A k \in 1 .. l : (log \o part)[Len(log) + k] = part[k]
  BY <1>1, <1>3, <1>5
<1> QED
  BY <1>3, <1>4, <1>6, <1>7, <1>8 DEF l

\* The log behind each item, and the whole log that starts with it
LEMMA LoggedFacts ==
  ASSUME NEW items \in Seq(Items), NEW mem \in Memories, Touched(items, mem) \subseteq Cells
  PROVE  LET L == LoggedTo(items, mem)
             n == Len(items)
         IN  /\ L[0] = <<>>
             /\ \A j \in 0 .. n : L[j] \in Seq(Values)
             /\ \A j \in 1 .. n :
                  /\ Len(L[j]) = Len(L[j - 1]) + Length(items[j], mem)
                  /\ \A k \in 1 .. Length(items[j], mem) :
                       L[j][Len(L[j - 1]) + k] = mem[items[j].at + k - 1]
             /\ \A j \in 0 .. n :
                  /\ Len(L[j]) <= Len(L[n])
                  /\ \A k \in 1 .. Len(L[j]) : L[n][k] = L[j][k]
<1> DEFINE L == LoggedTo(items, mem)
           n == Len(items)
<1>0. n \in Nat /\ \A j \in 1 .. n : items[j] \in Items
  OBVIOUS
<1>1. L[0] = <<>> /\ \A j \in 1 .. n : L[j] = Append1(L[j - 1], items[j], mem)
  <2>1. L = [j \in 0 .. n |-> IF j = 0 THEN <<>> ELSE Append1(L[j - 1], items[j], mem)]
    BY <1>0, LoggedRec
  <2> HIDE DEF L
  <2> QED
    BY <1>0, <2>1
<1> HIDE DEF L
<1>2. \A j \in 1 .. n : Span(items[j].at, Length(items[j], mem)) \subseteq Cells
  BY <1>0 DEF Touched
<1>3. \A j \in 0 .. n : L[j] \in Seq(Values)
  <2> DEFINE S == {j \in 0 .. n : L[j] \in Seq(Values)}
  <2>0. <<>> \in Seq(Values)
    OBVIOUS
  <2>a. 0 \in 0 .. n
    BY <1>0
  <2>b. L[0] \in Seq(Values)
    BY <2>0, <1>1
  <2>1. 0 \in S
    BY <2>a, <2>b
  <2>2. ASSUME NEW j \in 1 .. n, j - 1 \in S PROVE j \in S
    <3>1. L[j - 1] \in Seq(Values) /\ items[j] \in Items
      BY <2>2, <1>0
    <3>2. Append1(L[j - 1], items[j], mem) \in Seq(Values)
      BY <3>1, <1>2, Append1Facts
    <3> QED
      BY <3>2, <1>1
  <2> HIDE DEF S
  <2>3. \A j \in 0 .. n : j \in S
    BY <1>0, <2>1, <2>2, ItemInduction, Zenon
  <2> QED
    BY <2>3 DEF S
<1>4. ASSUME NEW j \in 1 .. n
      PROVE  /\ Len(L[j]) = Len(L[j - 1]) + Length(items[j], mem)
             /\ Len(L[j - 1]) <= Len(L[j])
             /\ \A k \in 1 .. Len(L[j - 1]) : L[j][k] = L[j - 1][k]
             /\ \A k \in 1 .. Length(items[j], mem) :
                  L[j][Len(L[j - 1]) + k] = mem[items[j].at + k - 1]
  <2>1. j - 1 \in 0 .. n
    BY <1>0
  <2>2. L[j - 1] \in Seq(Values) /\ items[j] \in Items /\ Length(items[j], mem) \in Nat
    BY <2>1, <1>0, <1>3, LengthType
  <2>3. Len(L[j - 1]) \in Nat
    BY <2>2
  <2>4. /\ Len(L[j]) = Len(L[j - 1]) + Length(items[j], mem)
        /\ \A k \in 1 .. Len(L[j - 1]) : L[j][k] = L[j - 1][k]
        /\ \A k \in 1 .. Length(items[j], mem) :
             L[j][Len(L[j - 1]) + k] = mem[items[j].at + k - 1]
    <3>1. L[j] = Append1(L[j - 1], items[j], mem)
      BY <1>1
    <3>2. Span(items[j].at, Length(items[j], mem)) \subseteq Cells
      BY <1>2
    <3> DEFINE prev == L[j - 1]
               item == items[j]
    <3>3. prev \in Seq(Values) /\ item \in Items /\ Span(item.at, Length(item, mem)) \subseteq Cells
      BY <2>2, <3>2
    <3> HIDE DEF prev, item
    <3>4. /\ Len(Append1(prev, item, mem)) = Len(prev) + Length(item, mem)
          /\ \A k \in 1 .. Len(prev) : Append1(prev, item, mem)[k] = prev[k]
          /\ \A k \in 1 .. Length(item, mem) :
               Append1(prev, item, mem)[Len(prev) + k] = mem[item.at + k - 1]
      BY <3>3, Append1Facts
    <3> QED
      BY <3>1, <3>4 DEF prev, item
  <2> QED
    BY <2>2, <2>3, <2>4
<1>5. ASSUME NEW j \in 0 .. n
      PROVE  /\ Len(L[j]) <= Len(L[n])
             /\ \A k \in 1 .. Len(L[j]) : L[n][k] = L[j][k]
  <2> DEFINE S == {m \in 0 .. n : m >= j =>
                     /\ Len(L[j]) <= Len(L[m])
                     /\ \A k \in 1 .. Len(L[j]) : L[m][k] = L[j][k]}
  <2>0. \A m \in 0 .. n : Len(L[m]) \in Nat
    BY <1>3
  <2>1. j \in S
    BY <2>0
  <2>2. 0 \in S
    BY <2>0, <1>0
  <2>3. ASSUME NEW m \in 1 .. n, m - 1 \in S PROVE m \in S
    <3>1. CASE m < j
      BY <3>1
    <3>2. CASE m = j
      BY <3>2, <2>1
    <3>3. CASE m > j
      <4>1. /\ Len(L[j]) <= Len(L[m - 1])
            /\ \A k \in 1 .. Len(L[j]) : L[m - 1][k] = L[j][k]
        BY <2>3, <3>3
      <4>2. m - 1 \in 0 .. n /\ Len(L[m - 1]) \in Nat /\ Len(L[j]) \in Nat /\ Len(L[m]) \in Nat
        BY <2>0
      <4>3. Len(L[j]) <= Len(L[m])
        BY <1>4, <4>1, <4>2, SMTT(30)
      <4>4. \A k \in 1 .. Len(L[j]) : L[m][k] = L[j][k]
        BY <1>4, <4>1, <4>2
      <4> QED
        BY <4>3, <4>4
    <3> QED
      BY <3>1, <3>2, <3>3
  <2> HIDE DEF S
  <2>4. \A m \in 0 .. n : m \in S
    BY <1>0, <2>2, <2>3, ItemInduction, Zenon
  <2>5. n \in S
    BY <2>4, <1>0
  <2> QED
    BY <2>5 DEF S
<1> QED
  BY <1>1, <1>3, <1>4, <1>5 DEF L

\* The length the replay takes is the one the post handler took, once the cell
\* that holds it has been brought.
LEMMA LengthKept ==
  ASSUME NEW i \in Items, NEW mem \in Memories, NEW m, i.from # NULL => m[i.from] = mem[i.from]
  PROVE  Length(i, m) = Length(i, mem)
BY DEF Length

\* read_syscall_data of an item, when the log goes on with its cells
LEMMA Read1Facts ==
  ASSUME NEW st, NEW i \in Items, NEW mem \in Memories,
         st.ok = TRUE, st.log \in Seq(Values),
         Length(i, st.mem) = Length(i, mem),
         Length(i, mem) <= Len(st.log),
         Writable(pmap, Span(i.at, Length(i, mem))),
         \A k \in 1 .. Length(i, mem) : st.log[k] = mem[i.at + k - 1]
  PROVE  /\ Read1(st, i).ok = TRUE
         /\ Read1(st, i).log = SubSeq(st.log, Length(i, mem) + 1, Len(st.log))
         /\ Read1(st, i).mem = Overlay(Span(i.at, Length(i, mem)), mem, st.mem)
<1> DEFINE n == Length(i, mem)
<1>1. n \in Nat /\ Len(st.log) \in Nat /\ i.at \in Int
  BY LengthType, SyscallAssumption DEF Items, Ptrs, Cells, NULL
<1>2. ~(~st.ok \/ n > Len(st.log) \/ ~Writable(pmap, Span(i.at, n)))
  BY <1>1
<1> DEFINE lg == SubSeq(st.log, n + 1, Len(st.log))
           f == [a \in Cells |-> IF a \in Span(i.at, n) THEN st.log[a - i.at + 1] ELSE st.mem[a]]
<1>3. Read1(st, i) = [ok |-> TRUE, log |-> lg, mem |-> f]
  BY <1>2 DEF Read1
<1>4. \A a \in Span(i.at, n) : st.log[a - i.at + 1] = mem[a]
  <2> SUFFICES ASSUME NEW a \in Span(i.at, n) PROVE st.log[a - i.at + 1] = mem[a]
    OBVIOUS
  <2>1. a - i.at + 1 \in 1 .. n /\ a \in Int
    BY LengthType
  <2>2. i.at + (a - i.at + 1) - 1 = a
    BY <2>1, <1>1
  <2> QED
    BY <2>1, <2>2
<1>5. f = Overlay(Span(i.at, n), mem, st.mem)
  BY <1>4 DEF Overlay
<1> HIDE DEF f, lg
<1>6. Read1(st, i).ok = TRUE /\ Read1(st, i).log = lg /\ Read1(st, i).mem = f
  BY <1>3
<1> QED
  BY <1>5, <1>6 DEF lg

\* The replay handler reads back what the post handler has appended: no item finds
\* the log too short, nothing is left over, and the cells of the items hold what
\* they held in the recorded run (BUFFER, for both libraries).
LEMMA ReplayReads ==
  ASSUME NEW items \in Seq(Items), Ordered(items),
         NEW mem \in Memories, pmem \in Memories,
         Writable(pmap, Touched(items, mem))
  PROVE  LET st == Replayed(items, Logged(items, mem)) IN
           /\ st.ok = TRUE
           /\ st.log = <<>>
           /\ st.mem = Overlay(Touched(items, mem), mem, pmem)
<1> DEFINE n == Len(items)
           L == LoggedTo(items, mem)
           st == ReplayedTo(items, L[n])
           Good(j) == /\ st[j].ok = TRUE
                      /\ st[j].log = SubSeq(L[n], Len(L[j]) + 1, Len(L[n]))
                      /\ st[j].mem = Overlay(Brought(items, mem, j), mem, pmem)
<1>0. n \in Nat /\ DOMAIN items = 1 .. n /\ \A j \in 1 .. n : items[j] \in Items
  OBVIOUS
<1>1. /\ L[0] = <<>>
      /\ \A j \in 0 .. n : L[j] \in Seq(Values)
      /\ \A j \in 1 .. n :
           /\ Len(L[j]) = Len(L[j - 1]) + Length(items[j], mem)
           /\ \A k \in 1 .. Length(items[j], mem) :
                L[j][Len(L[j - 1]) + k] = mem[items[j].at + k - 1]
      /\ \A j \in 0 .. n :
           /\ Len(L[j]) <= Len(L[n])
           /\ \A k \in 1 .. Len(L[j]) : L[n][k] = L[j][k]
  BY LoggedFacts, Zenon DEF Writable
<1> HIDE DEF L
<1>2. /\ st[0] = [ok |-> TRUE, log |-> L[n], mem |-> pmem]
      /\ \A j \in 1 .. n : st[j] = Read1(st[j - 1], items[j])
  <2>1. st = [j \in 0 .. n |->
                IF j = 0 THEN [ok |-> TRUE, log |-> L[n], mem |-> pmem]
                ELSE Read1(st[j - 1], items[j])]
    BY <1>0, ReplayedRec, Zenon
  <2> HIDE DEF st
  <2> QED
    BY <1>0, <2>1, SMTT(30)
<1> HIDE DEF st
<1>3. \A j \in 0 .. n : L[j] \in Seq(Values) /\ Len(L[j]) \in Nat
  BY <1>1
<1>4. \A j \in 1 .. n : /\ Span(items[j].at, Length(items[j], mem)) \subseteq Touched(items, mem)
                        /\ Writable(pmap, Span(items[j].at, Length(items[j], mem)))
  BY <1>0 DEF Touched, Writable
<1>5. Good(0)
  <2>1. Len(L[0]) = 0 /\ L[n] \in Seq(Values)
    BY <1>0, <1>1
  <2>2. SubSeq(L[n], 1, Len(L[n])) = L[n]
    BY <2>1
  <2>3. Brought(items, mem, 0) = {}
    BY DEF Brought
  <2>4. pmem = Overlay(Brought(items, mem, 0), mem, pmem)
    BY <2>3 DEF Memories, Overlay
  <2> QED
    BY <2>1, <2>2, <2>4, <1>2
<1>6. ASSUME NEW j \in 1 .. n, Good(j - 1) PROVE Good(j)
  <2> DEFINE prev == st[j - 1]
             i == items[j]
             l == Length(i, mem)
             p == Len(L[j - 1])
  <2>0. i \in Items /\ j - 1 \in 0 .. n /\ j \in 0 .. n
    BY <1>0
  <2>1. l \in Nat /\ p \in Nat /\ Len(L[n]) \in Nat /\ L[n] \in Seq(Values)
    BY <2>0, <1>0, <1>3, LengthType, SMTT(30)
  <2>2. Len(L[j]) = p + l /\ p + l <= Len(L[n])
    BY <2>0, <1>1
  <2>3. p \in 0 .. Len(L[n]) /\ l \in 0 .. Len(L[n]) - p
    <3> HIDE DEF p, l
    <3> QED
      BY <2>1, <2>2
  <2>4. prev.log = SubSeq(L[n], p + 1, Len(L[n]))
    BY <1>6
  <2>5. /\ prev.log \in Seq(Values) /\ Len(prev.log) = Len(L[n]) - p
        /\ \A k \in 1 .. Len(prev.log) : prev.log[k] = L[n][p + k]
        /\ SubSeq(prev.log, l + 1, Len(prev.log)) = SubSeq(L[n], p + l + 1, Len(L[n]))
    <3> DEFINE whole == L[n]
    <3>1. whole \in Seq(Values) /\ p \in 0 .. Len(whole) /\ l \in 0 .. Len(whole) - p
      BY <2>1, <2>3, Zenon
    <3>2. prev.log = SubSeq(whole, p + 1, Len(whole))
      BY <2>4
    <3> HIDE DEF whole, p, l, prev
    <3>3. LET t == SubSeq(whole, p + 1, Len(whole)) IN
            /\ t \in Seq(Values) /\ Len(t) = Len(whole) - p
            /\ \A k \in 1 .. Len(t) : t[k] = whole[p + k]
            /\ SubSeq(t, l + 1, Len(t)) = SubSeq(whole, p + l + 1, Len(whole))
      BY <3>1, RestOfRest, Zenon
    <3> QED
      BY <3>2, <3>3, Zenon DEF whole
  <2>6. \A k \in 1 .. l : prev.log[k] = mem[i.at + k - 1]
    <3> SUFFICES ASSUME NEW k \in 1 .. l PROVE prev.log[k] = mem[i.at + k - 1]
      OBVIOUS
    <3>1. k \in 1 .. Len(prev.log) /\ p + k \in 1 .. Len(L[j])
      <4>1. k \in 1 .. l /\ Len(prev.log) = Len(L[n]) - p
        BY <2>5
      <4> HIDE DEF p, l, prev
      <4> QED
        BY <4>1, <2>1, <2>2
    <3>2. prev.log[k] = L[n][p + k]
      BY <3>1, <2>5
    <3>3. L[n][p + k] = L[j][p + k]
      BY <3>1, <2>0, <1>1, Zenon
    <3>4. L[j][p + k] = mem[i.at + k - 1]
      BY <1>1
    <3> QED
      BY <3>2, <3>3, <3>4
  <2>7. i.from # NULL => prev.mem[i.from] = mem[i.from]
    <3> SUFFICES ASSUME i.from # NULL PROVE prev.mem[i.from] = mem[i.from]
      OBVIOUS
    <3>1. PICK h \in 1 .. j - 1 : items[h] = Fixed(i.from, 1)
      BY DEF Ordered
    <3>2. i.from \in Cells
      BY <2>0 DEF Items, Ptrs
    <3>3. Span(items[h].at, Length(items[h], mem)) = {i.from}
      BY <3>1, <3>2, SyscallAssumption DEF Fixed, Length, Span, NULL, Cells
    <3>4. i.from \in Brought(items, mem, j - 1)
      BY <3>3 DEF Brought
    <3>5. prev.mem = Overlay(Brought(items, mem, j - 1), mem, pmem)
      BY <1>6
    <3> QED
      BY <3>2, <3>4, <3>5 DEF Overlay
  <2>8. Length(i, prev.mem) = l
    BY <2>0, <2>7, LengthKept
  <2>9. prev.ok = TRUE /\ l <= Len(prev.log) /\ Writable(pmap, Span(i.at, l))
    <3>1. prev.ok = TRUE /\ Writable(pmap, Span(i.at, l))
      BY <1>4, <1>6
    <3> HIDE DEF p, l, prev
    <3>2. l <= Len(prev.log)
      BY <2>1, <2>2, <2>5
    <3> QED
      BY <3>1, <3>2
  <2>10. /\ Read1(prev, i).ok = TRUE
         /\ Read1(prev, i).log = SubSeq(prev.log, l + 1, Len(prev.log))
         /\ Read1(prev, i).mem = Overlay(Span(i.at, l), mem, prev.mem)
    <3> USE <2>0, <2>5, <2>6, <2>8, <2>9
    <3>1. /\ i \in Items /\ prev.ok = TRUE /\ prev.log \in Seq(Values)
          /\ Length(i, prev.mem) = Length(i, mem) /\ Length(i, mem) <= Len(prev.log)
          /\ Writable(pmap, Span(i.at, Length(i, mem)))
          /\ \A k \in 1 .. Length(i, mem) : prev.log[k] = mem[i.at + k - 1]
      BY Zenon
    <3> HIDE DEF prev, i
    <3> QED
      BY ONLY <3>1, mem \in Memories, Read1Facts, Zenon
  <2>11. st[j] = Read1(prev, i)
    BY <1>2
  <2>12. Brought(items, mem, j) = Brought(items, mem, j - 1) \cup Span(i.at, l)
    <3>1. 1 .. j = (1 .. j - 1) \cup {j}
      OBVIOUS
    <3> QED
      BY <3>1 DEF Brought
  <2>13. st[j].mem = Overlay(Brought(items, mem, j), mem, pmem)
    <3>1. prev.mem = Overlay(Brought(items, mem, j - 1), mem, pmem)
      BY <1>6
    <3> HIDE DEF prev, i, l
    <3> QED
      BY <3>1, <2>10, <2>11, <2>12 DEF Overlay
  <2> QED
    BY <2>2, <2>5, <2>10, <2>11, <2>13, Zenon
<1>7. Good(n)
  <2> DEFINE S == {j \in 0 .. n : Good(j)}
  <2> HIDE DEF Good
  <2>1. 0 \in S
    BY <1>0, <1>5
  <2>2. \A j \in 1 .. n : j - 1 \in S => j \in S
    BY <1>0, <1>6
  <2> HIDE DEF S
  <2>3. \A j \in 0 .. n : j \in S
    BY <1>0, <2>1, <2>2, ItemInduction, Zenon
  <2>4. n \in S
    BY <1>0, <2>3
  <2> QED
    BY <2>4 DEF S
<1>8. SubSeq(L[n], Len(L[n]) + 1, Len(L[n])) = <<>>
  BY <1>0, <1>3
<1>9. Brought(items, mem, n) = Touched(items, mem)
  BY <1>0 DEF Brought, Touched
<1> QED
  BY <1>7, <1>8, <1>9 DEF Replayed, Logged, st, L

-----------------------------------------------------------------------------
(* The invariant, and what a call does to it                               *)

SysTypes ==
  /\ rmem \in Memories
  /\ pmem \in Memories
  /\ rmap \in [Cells -> Perms]
  /\ pmap \in [Cells -> Perms]
  /\ brk \in Int

SysInv == SysTypes /\ SameMemory /\ InStep /\ TouchChecked /\ MapKept

\* Calls whose handlers may touch memory the kernel has not looked at
Unchecked == {"time", "waitpid", "nanosleep", "_newselect", "ioctl", "socketcall"}

\* A map that differs from the recorded one only by what munmap gave back allows
\* what the recorded one allows.
LEMMA AllowedToo ==
  ASSUME SysInv, NEW cells, Writable(rmap, cells)
  PROVE  Mapped(rmap, cells) /\ Writable(pmap, cells)
BY DEF SysInv, SysTypes, MapKept, Writable, Mapped

\* A call keeps the invariant if its handler's items bring every cell the kernel
\* writes, but for the marked gaps.
LEMMA CallStep ==
  ASSUME SysInv,
         NEW nr, NEW writes, NEW forced, NEW items \in Seq(Items), NEW gap,
         Ordered(items), DOMAIN forced \subseteq writes,
         Syscall(nr, writes, forced, items, gap),
         \A mem \in Memories : (\A a \in DOMAIN forced : mem[a] = forced[a]) =>
           writes \subseteq Touched(items, mem) \cup gap,
         nr \in Unchecked \/ \A mem \in Memories : Writable(rmap, Touched(items, mem))
  PROVE  SysInv'
<1> DEFINE Rm(new) == [a \in Cells |-> IF a \in writes THEN new[a] ELSE rmem[a]]
<1>1. /\ end = Running /\ Writable(rmap, writes)
      /\ UNCHANGED <<rmap, pmap, brk, released>>
  BY DEF Syscall
<1>2. PICK new \in [writes -> Values] :
        LET rm == Rm(new)
            touched == Touched(items, rm)
            st == Replayed(items, Logged(items, rm))
        IN  /\ \A a \in DOMAIN forced : new[a] = forced[a]
            /\ IF ~Mapped(rmap, touched)
               THEN /\ end' = [why |-> "fault", nr |-> nr]
                    /\ UNCHANGED <<rmem, pmem, gaps>>
               ELSE IF ~Writable(pmap, touched)
               THEN /\ end' = [why |-> "read-only", nr |-> nr]
                    /\ UNCHANGED <<rmem, pmem, gaps>>
               ELSE IF ~st.ok \/ st.log # <<>>
               THEN /\ end' = [why |-> "step", nr |-> nr]
                    /\ UNCHANGED <<rmem, pmem, gaps>>
               ELSE /\ rmem' = rm
                    /\ pmem' = st.mem
                    /\ gaps' = (gaps \cup gap) \ touched
                    /\ UNCHANGED end
  BY Zenon DEF Syscall
<1> DEFINE rm == Rm(new)
           touched == Touched(items, rm)
           st == Replayed(items, Logged(items, rm))
<1>3. rm \in Memories /\ \A a \in Cells : rm[a] = IF a \in writes THEN new[a] ELSE rmem[a]
  BY DEF SysInv, SysTypes, Memories
<1>4. writes \subseteq Cells
  BY <1>1, SMTT(30) DEF Writable
<1>5. \A a \in DOMAIN forced : rm[a] = forced[a]
  BY <1>2, <1>3, <1>4, SMTT(30)
<1> HIDE DEF rm
<1>6. writes \subseteq touched \cup gap
  BY <1>3, <1>5
<1>7. MapKept' \/ end' # end
  BY <1>1 DEF SysInv, MapKept
<1>8. ASSUME ~(nr \in Unchecked) PROVE Mapped(rmap, touched) /\ Writable(pmap, touched)
  <2>1. Writable(rmap, touched)
    BY <1>3, <1>8
  <2> QED
    BY <2>1, AllowedToo
<1>9. ASSUME NEW why \in {"fault", "read-only"}, end' = [why |-> why, nr |-> nr],
             UNCHANGED <<rmem, pmem, gaps>>, nr \in Unchecked
      PROVE  SysInv'
  <2>1. end'.why = why /\ end'.nr = nr /\ end' # Running
    BY <1>9, Zenon DEF Running
  <2>2. SysTypes'
    BY <1>1, <1>9, <2>1 DEF SysInv, SysTypes
  <2>3. SameMemory' /\ InStep' /\ TouchChecked'
    BY <1>9, <2>1 DEF SameMemory, InStep, TouchChecked, Unchecked
  <2>4. MapKept'
    BY <1>1, <1>9, <2>1 DEF SysInv, MapKept
  <2> QED
    BY <2>2, <2>3, <2>4 DEF SysInv
<1>10. CASE ~Mapped(rmap, touched)
  <2>1. end' = [why |-> "fault", nr |-> nr] /\ UNCHANGED <<rmem, pmem, gaps>>
    BY <1>2, <1>10, SMTT(30) DEF rm
  <2> QED
    BY <2>1, <1>8, <1>9, <1>10, SMTT(30)
<1>11. CASE Mapped(rmap, touched) /\ ~Writable(pmap, touched)
  <2>1. end' = [why |-> "read-only", nr |-> nr] /\ UNCHANGED <<rmem, pmem, gaps>>
    BY <1>2, <1>11, SMTT(30) DEF rm
  <2> QED
    BY <2>1, <1>8, <1>9, <1>11, SMTT(30)
<1>12. CASE Mapped(rmap, touched) /\ Writable(pmap, touched)
  <2>1. st.ok = TRUE /\ st.log = <<>> /\ st.mem = Overlay(touched, rm, pmem)
    BY <1>3, <1>12, ReplayReads, ZenonT(40) DEF SysInv, SysTypes
  <2>2. /\ rmem' = rm /\ pmem' = st.mem /\ gaps' = (gaps \cup gap) \ touched
        /\ UNCHANGED end
    BY <1>2, <1>12, <2>1, SMTT(30) DEF rm
  <2> HIDE DEF st, touched
  <2>3. pmem' = [a \in Cells |-> IF a \in touched THEN rm[a] ELSE pmem[a]]
    BY <2>1, <2>2 DEF Overlay
  <2>4. pmem' \in Memories
    BY <2>3, <1>3 DEF SysInv, SysTypes, Memories
  <2>5. SysTypes'
    BY <1>1, <1>3, <2>2, <2>4, SMTT(30) DEF SysInv, SysTypes
  <2>6. SameMemory'
    <3> SUFFICES ASSUME NEW a \in Cells, rmap[a] # "none"
                 PROVE  rmem'[a] = pmem'[a] \/ a \in gaps'
      BY <1>1 DEF SameMemory
    <3>1. CASE a \in touched
      BY <3>1, <2>2, <2>3
    <3>2. CASE a \notin touched /\ a \in writes
      BY <3>2, <1>6, <2>2
    <3>3. CASE a \notin touched /\ a \notin writes
      <4>1. rmem'[a] = rmem[a] /\ pmem'[a] = pmem[a]
        BY <3>3, <1>3, <2>2, <2>3
      <4>2. rmem[a] = pmem[a] \/ a \in gaps
        BY <1>1 DEF SysInv, SameMemory
      <4> QED
        BY <4>1, <4>2, <3>3, <2>2, SMTT(30)
    <3> QED
      BY <3>1, <3>2, <3>3
  <2>7. InStep' /\ TouchChecked' /\ MapKept'
    BY <1>7, <2>2 DEF SysInv, InStep, TouchChecked
  <2> QED
    BY <2>5, <2>6, <2>7 DEF SysInv
<1> QED
  BY <1>10, <1>11, <1>12, SMTT(30)

-----------------------------------------------------------------------------
(* The items of the handlers                                               *)

\* Items that stand for the same cells whatever the memory holds
Brings(items, cells) ==
  /\ items \in Seq(Items)
  /\ Ordered(items)
  /\ \A mem \in Memories : Touched(items, mem) = cells

\* A handler with nothing to log
LEMMA BringsNothing == Brings(<<>>, {})
BY DEF Brings, Ordered, Touched

\* BUFFER(p, n)
LEMMA BringsFixed ==
  ASSUME NEW p \in Ptrs, NEW n \in 0 .. 2
  PROVE  Brings(<<Fixed(p, n)>>, Span(p, n))
<1> DEFINE i == Fixed(p, n)
<1>1. i \in Items /\ i.at = p /\ i.from = NULL /\ i.len = n
  BY DEF Fixed, Items, Ptrs
<1>2. \A mem : Span(i.at, Length(i, mem)) = Span(p, n)
  BY <1>1 DEF Span, Length
<1> HIDE DEF i
<1>3. <<i>> \in Seq(Items) /\ Len(<<i>>) = 1 /\ <<i>>[1] = i /\ DOMAIN <<i>> = {1}
  BY <1>1
<1>4. Ordered(<<i>>)
  BY <1>1, <1>3 DEF Ordered
<1>5. \A mem : Touched(<<i>>, mem) = Span(p, n)
  BY <1>2, <1>3 DEF Touched
<1> QED
  BY <1>3, <1>4, <1>5 DEF Brings, i

\* The items of a handler behind those of another one
LEMMA ItemsBehind ==
  ASSUME NEW s \in Seq(Items), NEW t \in Seq(Items), Ordered(s), Ordered(t)
  PROVE  /\ s \o t \in Seq(Items) /\ Ordered(s \o t)
         /\ \A mem : Touched(s \o t, mem) = Touched(s, mem) \cup Touched(t, mem)
<1> DEFINE u == s \o t
<1>0. Len(s) \in Nat /\ Len(t) \in Nat /\ DOMAIN s = 1 .. Len(s) /\ DOMAIN t = 1 .. Len(t)
  OBVIOUS
<1>1. u \in Seq(Items) /\ Len(u) = Len(s) + Len(t) /\ DOMAIN u = 1 .. Len(s) + Len(t)
  BY <1>0, ConcatProperties
<1>2. \A j \in 1 .. Len(s) : u[j] = s[j]
  BY <1>0, ConcatProperties
<1>3. \A j \in 1 .. Len(t) : u[Len(s) + j] = t[j]
  BY <1>0, ConcatProperties
<1> HIDE DEF u
<1>4. \A j \in 1 .. Len(u) : j \in 1 .. Len(s) \/ (j - Len(s) \in 1 .. Len(t) /\ j = Len(s) + (j - Len(s)))
  BY <1>0, <1>1
<1>5. Ordered(u)
  <2> SUFFICES ASSUME NEW j \in 1 .. Len(u), u[j].from # NULL
               PROVE  \E i \in 1 .. j - 1 : u[i] = Fixed(u[j].from, 1)
    BY DEF Ordered
  <2>1. CASE j \in 1 .. Len(s)
    <3>1. PICK i \in 1 .. j - 1 : s[i] = Fixed(s[j].from, 1)
      BY <2>1, <1>2 DEF Ordered
    <3>2. i \in 1 .. Len(s)
      BY <3>1, <2>1, <1>0
    <3> QED
      BY <3>1, <3>2, <2>1, <1>2
  <2>2. CASE j - Len(s) \in 1 .. Len(t)
    <3> DEFINE k == j - Len(s)
    <3>0. k \in 1 .. Len(t) /\ j = Len(s) + k
      BY <2>2, <1>0, <1>1
    <3> HIDE DEF k
    <3>1. u[j] = t[k]
      BY <3>0, <1>3
    <3>2. PICK i \in 1 .. k - 1 : t[i] = Fixed(t[k].from, 1)
      BY <3>0, <3>1 DEF Ordered
    <3>3. i \in 1 .. Len(t) /\ Len(s) + i \in 1 .. j - 1
      BY <3>0, <3>2, <1>0
    <3>4. u[Len(s) + i] = t[i]
      BY <3>3, <1>3
    <3> QED
      BY <3>1, <3>2, <3>3, <3>4
  <2> QED
    BY <2>1, <2>2, <1>4
<1>6. ASSUME NEW mem PROVE Touched(u, mem) = Touched(s, mem) \cup Touched(t, mem)
  <2>1. \A j \in 1 .. Len(s) : j \in 1 .. Len(u)
    BY <1>0, <1>1
  <2>2. \A j \in 1 .. Len(t) : Len(s) + j \in 1 .. Len(u)
    BY <1>0, <1>1
  <2>3. DOMAIN u = 1 .. Len(u)
    BY <1>1
  <2>4. Touched(s, mem) \subseteq Touched(u, mem)
    BY <2>1, <2>3, <1>0, <1>2 DEF Touched
  <2>5. Touched(t, mem) \subseteq Touched(u, mem)
    BY <2>2, <2>3, <1>0, <1>3 DEF Touched
  <2>6. Touched(u, mem) \subseteq Touched(s, mem) \cup Touched(t, mem)
    <3> SUFFICES ASSUME NEW j \in 1 .. Len(u), NEW a \in Span(u[j].at, Length(u[j], mem))
                 PROVE  a \in Touched(s, mem) \cup Touched(t, mem)
      BY <2>3, Zenon DEF Touched
    <3>1. CASE j \in 1 .. Len(s)
      BY <3>1, <1>0, <1>2 DEF Touched
    <3>2. CASE j - Len(s) \in 1 .. Len(t)
      <4>1. u[j] = t[j - Len(s)]
        BY <3>2, <1>3, <1>4, <1>0, <1>1
      <4> QED
        BY <4>1, <3>2, <1>0 DEF Touched
    <3> QED
      BY <3>1, <3>2, <1>4
  <2> QED
    BY <2>4, <2>5, <2>6
<1> QED
  BY <1>1, <1>5, <1>6 DEF u

\* Two lists of items, one behind the other
LEMMA BringsBoth ==
  ASSUME NEW s, NEW c, NEW t, NEW d, Brings(s, c), Brings(t, d)
  PROVE  Brings(s \o t, c \cup d)
BY ItemsBehind DEF Brings

\* Two buffers
LEMMA BringsPair ==
  ASSUME NEW p \in Ptrs, NEW m \in 0 .. 2, NEW q \in Ptrs, NEW n \in 0 .. 2
  PROVE  Brings(<<Fixed(p, m), Fixed(q, n)>>, Span(p, m) \cup Span(q, n))
<1> DEFINE i == Fixed(p, m)
           k == Fixed(q, n)
           s == <<i, k>>
<1>1. i \in Items /\ i.at = p /\ i.from = NULL /\ i.len = m
  BY DEF Fixed, Items, Ptrs
<1>2. k \in Items /\ k.at = q /\ k.from = NULL /\ k.len = n
  BY DEF Fixed, Items, Ptrs
<1>3. \A mem : Span(i.at, Length(i, mem)) = Span(p, m)
  BY <1>1 DEF Span, Length
<1>4. \A mem : Span(k.at, Length(k, mem)) = Span(q, n)
  BY <1>2 DEF Span, Length
<1> HIDE DEF i, k
<1>5. s \in Seq(Items) /\ Len(s) = 2 /\ s[1] = i /\ s[2] = k /\ DOMAIN s = {1, 2}
  BY <1>1, <1>2
<1> HIDE DEF s
<1>6. Ordered(s)
  BY <1>1, <1>2, <1>5 DEF Ordered
<1>7. \A mem : Touched(s, mem) = Span(p, m) \cup Span(q, n)
  BY <1>3, <1>4, <1>5 DEF Touched
<1> QED
  BY <1>5, <1>6, <1>7 DEF Brings, s, i, k

\* A length and the buffer it counts: INT_VAL and BUFFER(p, *q)
LEMMA CountedItems ==
  ASSUME NEW p \in Ptrs, NEW q \in Cells
  PROVE  LET s == <<Fixed(q, 1), Counted(p, q)>> IN
           /\ s \in Seq(Items) /\ Ordered(s)
           /\ \A mem \in Memories : Touched(s, mem) = {q} \cup Span(p, mem[q] + 1)
<1> DEFINE i == Fixed(q, 1)
           k == Counted(p, q)
           s == <<i, k>>
<1>1. i \in Items /\ i.at = q /\ i.from = NULL /\ i.len = 1
  BY DEF Fixed, Items, Ptrs, NULL
<1>2. k \in Items /\ k.at = p /\ k.from = q
  BY DEF Counted, Items, Ptrs
<1>3. q # NULL /\ q \in Int
  BY SyscallAssumption DEF Cells, NULL
<1>4. \A mem : Span(i.at, Length(i, mem)) = {q}
  BY <1>1, <1>3 DEF Span, Length
<1>5. \A mem : Span(k.at, Length(k, mem)) = Span(p, mem[q] + 1)
  BY <1>2, <1>3 DEF Span, Length
<1>6. i = Fixed(k.from, 1)
  BY <1>2
<1> HIDE DEF i, k
<1>7. s \in Seq(Items) /\ Len(s) = 2 /\ s[1] = i /\ s[2] = k /\ DOMAIN s = {1, 2}
  BY <1>1, <1>2
<1> HIDE DEF s
<1>8. Ordered(s)
  BY <1>1, <1>6, <1>7 DEF Ordered
<1>9. \A mem : Touched(s, mem) = {q} \cup Span(p, mem[q] + 1)
  BY <1>4, <1>5, <1>7 DEF Touched
<1> QED
  BY <1>7, <1>8, <1>9 DEF s, i, k

-----------------------------------------------------------------------------
(* The calls                                                               *)

\* A call whose handler's items do not depend on memory
LEMMA FixedStep ==
  ASSUME SysInv, NEW nr, NEW writes, NEW items, NEW gap, NEW cells,
         Syscall(nr, writes, <<>>, items, gap), Brings(items, cells),
         writes \subseteq cells \cup gap,
         nr \in Unchecked \/ Writable(rmap, cells)
  PROVE  SysInv'
<1>1. DOMAIN <<>> \subseteq writes
  OBVIOUS
<1>2. items \in Seq(Items) /\ Ordered(items) /\ \A mem \in Memories : Touched(items, mem) = cells
  BY DEF Brings
<1>3. \A mem \in Memories : writes \subseteq Touched(items, mem) \cup gap
  BY <1>2
<1>4. nr \in Unchecked \/ \A mem \in Memories : Writable(rmap, Touched(items, mem))
  BY <1>2
<1> DEFINE forced == <<>>
<1>5. DOMAIN forced \subseteq writes /\ Syscall(nr, writes, forced, items, gap)
  BY <1>1
<1> HIDE DEF forced
<1> QED
  BY <1>2, <1>3, <1>4, <1>5, CallStep, Zenon

\* A call that fills one buffer, and a handler that logs it under the same condition
LEMMA BufferStep ==
  ASSUME SysInv, NEW nr, NEW p \in Ptrs, NEW n \in 0 .. 2, NEW writes, NEW items,
         Plain(nr, writes, items),
         \/ writes = {} /\ items = <<>>
         \/ writes = Span(p, n) /\ items = <<Fixed(p, n)>>
  PROVE  SysInv'
<1>1. Brings(items, writes)
  BY BringsFixed, BringsNothing, Zenon
<1>2. Writable(rmap, writes) /\ Syscall(nr, writes, <<>>, items, {})
  BY Zenon DEF Plain, Syscall
<1>3. writes \subseteq writes \cup {}
  OBVIOUS
<1> QED
  BY <1>1, <1>2, <1>3, FixedStep

\* The calls that return the length of what they fill keep the invariant.
LEMMA ReadingCalls ==
  ASSUME SysInv, read \/ pread64 \/ getdents64 \/ epoll_wait \/ getcwd
  PROVE  SysInv'
<1>0. Cells \subseteq Ptrs /\ NULL \notin Cells /\ Cells \subseteq Int
  BY DEF Ptrs, Cells, NULL
<1>1. ASSUME NEW nr, NEW p \in Cells, NEW r \in Results, NEW items,
             Plain(nr, Span(p, r), items),
             IF r > 0 THEN items = <<Fixed(p, r)>> ELSE items = <<>>
      PROVE  SysInv'
  <2>1. CASE r > 0
    <3>1. r \in 0 .. 2
      BY <2>1 DEF Results
    <3> QED
      BY <1>0, <1>1, <2>1, <3>1, BufferStep
  <2>2. CASE ~(r > 0)
    <3>1. Span(p, r) = {}
      BY <1>0, <2>2 DEF Results, Span
    <3>2. 0 \in 0 .. 2
      OBVIOUS
    <3> QED
      BY <1>0, <1>1, <2>2, <3>1, <3>2, BufferStep
  <2> QED
    BY <2>1, <2>2
<1>2. CASE read
  BY <1>1, <1>2 DEF read, When
<1>3. CASE pread64
  BY <1>1, <1>3 DEF pread64, When
<1>4. CASE getdents64
  BY <1>1, <1>4 DEF getdents64, When
<1>5. CASE epoll_wait
  BY <1>1, <1>5 DEF epoll_wait, When
<1>6. CASE getcwd
  <2>1. \A r \in Results \ {0} : r >= 0 <=> r > 0
    BY DEF Results
  <2> QED
    BY <1>1, <1>6, <2>1 DEF getcwd, When
<1> QED
  BY <1>2, <1>3, <1>4, <1>5, <1>6

\* The calls that fill one structure keep the invariant.
LEMMA BufferCalls ==
  ASSUME SysInv,
         \/ fstat64 \/ stat64 \/ clock_getres \/ clock_gettime \/ ugetrlimit \/ pipe
         \/ _llseek \/ setitimer \/ fcntl64 \/ prctl \/ rt_sigaction \/ sigprocmask
  PROVE  SysInv'
<1>0. Cells \subseteq Ptrs /\ 2 \in 0 .. 2 /\ 1 \in 0 .. 2 /\ NULL \notin Cells /\ Cells \subseteq Int
  BY DEF Ptrs, Cells, NULL
<1> USE DEF Cell, When
<1>1. CASE fstat64
  BY <1>0, <1>1, BufferStep DEF fstat64
<1>2. CASE stat64
  BY <1>0, <1>2, BufferStep DEF stat64
<1>3. CASE clock_getres
  BY <1>0, <1>3, BufferStep DEF clock_getres
<1>4. CASE clock_gettime
  BY <1>0, <1>4, BufferStep DEF clock_gettime
<1>5. CASE ugetrlimit
  BY <1>0, <1>5, BufferStep DEF ugetrlimit
<1>6. CASE pipe
  BY <1>0, <1>6, BufferStep DEF pipe
<1>7. CASE _llseek
  BY <1>0, <1>7, BufferStep DEF _llseek
<1>8. CASE setitimer
  BY <1>0, <1>8, BufferStep DEF setitimer
<1>9. CASE rt_sigaction
  BY <1>0, <1>9, BufferStep DEF rt_sigaction
<1>10. CASE sigprocmask
  BY <1>0, <1>10, BufferStep DEF sigprocmask
<1>11. \A p \in Cells : Span(p, 0) = {}
  BY <1>0 DEF Span
<1>12. CASE fcntl64
  <2>1. PICK p \in Cells, cmd \in 0 .. 2, r \in -1 .. 0 :
          Plain("fcntl64", Cell(r >= 0, Span(p, cmd)), When(r >= 0 /\ cmd > 0, <<Fixed(p, cmd)>>))
    BY <1>12 DEF fcntl64
  <2>2. cmd = 0 \/ cmd > 0
    OBVIOUS
  <2> QED
    BY <1>0, <1>11, <2>1, <2>2, BufferStep
<1>13. CASE prctl
  <2>1. PICK p \in Cells, option \in 0 .. 2, r \in -1 .. 0 :
          Plain("prctl", Cell(r >= 0, Span(p, option)),
                When(r >= 0 /\ option > 0, <<Fixed(p, option)>>))
    BY <1>13 DEF prctl
  <2>2. option = 0 \/ option > 0
    OBVIOUS
  <2> QED
    BY <1>0, <1>11, <2>1, <2>2, BufferStep
<1> QED
  BY <1>1, <1>2, <1>3, <1>4, <1>5, <1>6, <1>7, <1>8, <1>9, <1>10, <1>12, <1>13

\* Calls with two buffers, and calls whose handlers leave something out
LEMMA OtherCalls ==
  ASSUME SysInv,
         \/ poll \/ gettimeofday \/ uname \/ futex \/ rt_sigprocmask
         \/ write \/ trivial \/ trivial_writing
  PROVE  SysInv'
<1>0. Cells \subseteq Ptrs /\ NULL \notin Cells /\ Cells \subseteq Int /\ 1 \in 0 .. 2
  BY DEF Ptrs, Cells, NULL
<1>1. CASE poll
  <2>1. PICK p \in Cells, n \in 1 .. 2, r \in -1 .. 1 :
          Syscall("poll", Cell(r >= 0, Span(p, n)), <<>>,
                  When(r > 0, <<Fixed(p, n)>>), Cell(r = 0, Span(p, n)))
    BY <1>1 DEF poll
  <2>2. p \in Ptrs /\ n \in 0 .. 2
    BY <1>0
  <2>3. CASE r > 0
    <3>1. Syscall("poll", Span(p, n), <<>>, <<Fixed(p, n)>>, {})
      BY <2>1, <2>3 DEF Cell, When
    <3>2. Writable(rmap, Span(p, n)) /\ Span(p, n) \subseteq Span(p, n) \cup {}
      BY <3>1, Zenon DEF Syscall
    <3> QED
      BY <1>0, <3>1, <3>2, <2>2, BringsFixed, FixedStep, Zenon
  <2>4. CASE ~(r > 0)
    <3> DEFINE writes == Cell(r >= 0, Span(p, n))
    <3>1. Syscall("poll", writes, <<>>, <<>>, Cell(r = 0, Span(p, n)))
      BY <2>1, <2>4 DEF When
    <3>2. writes \subseteq {} \cup Cell(r = 0, Span(p, n))
      BY <2>4 DEF Cell
    <3>3. Writable(rmap, {})
      BY DEF Writable
    <3> QED
      BY <3>1, <3>2, <3>3, BringsNothing, FixedStep
  <2> QED
    BY <2>3, <2>4
<1>2. CASE gettimeofday
  <2>1. PICK p \in Ptrs, q \in Ptrs, r \in -1 .. 0 :
          Plain("gettimeofday", Cell(r >= 0, Span(p, 1) \cup Span(q, 1)),
                When(r >= 0, <<Fixed(p, 1), Fixed(q, 1)>>))
    BY <1>2, Zenon DEF gettimeofday
  <2>2. CASE r >= 0
    <3>1. Syscall("gettimeofday", Span(p, 1) \cup Span(q, 1), <<>>,
                  <<Fixed(p, 1), Fixed(q, 1)>>, {})
      BY <2>1, <2>2 DEF Cell, When, Plain
    <3>2. Writable(rmap, Span(p, 1) \cup Span(q, 1))
      BY <3>1, Zenon DEF Syscall
    <3>3. Brings(<<Fixed(p, 1), Fixed(q, 1)>>, Span(p, 1) \cup Span(q, 1))
      BY <1>0, BringsPair, Zenon
    <3>4. Span(p, 1) \cup Span(q, 1) \subseteq (Span(p, 1) \cup Span(q, 1)) \cup {}
      OBVIOUS
    <3> QED
      BY <3>1, <3>2, <3>3, <3>4, FixedStep
  <2>3. CASE ~(r >= 0)
    <3>1. Syscall("gettimeofday", {}, <<>>, <<>>, {})
      BY <2>1, <2>3 DEF Cell, When, Plain
    <3>2. Writable(rmap, {}) /\ {} \subseteq {} \cup {}
      BY DEF Writable
    <3> QED
      BY <3>1, <3>2, BringsNothing, FixedStep
  <2> QED
    BY <2>2, <2>3
<1>3. CASE uname
  <2>1. PICK p \in Cells, r \in -1 .. 0 :
          Syscall("uname", Cell(r >= 0, Span(p, 2)), <<>>,
                  When(r >= 0, <<Fixed(p, 1)>>), Cell(r >= 0, {p + 1}))
    BY <1>3, Zenon DEF uname
  <2>2. Span(p, 1) = {p} /\ Span(p, 2) = {p, p + 1} /\ p \in Ptrs
    BY <1>0 DEF Span
  <2>3. CASE r >= 0
    <3> DEFINE gap == {p + 1}
    <3>1. Syscall("uname", Span(p, 2), <<>>, <<Fixed(p, 1)>>, gap)
      BY <2>1, <2>3 DEF Cell, When
    <3>2. Writable(rmap, Span(p, 1)) /\ Span(p, 2) \subseteq Span(p, 1) \cup gap
      BY <2>2, <3>1, Zenon DEF Syscall, Writable
    <3>3. Brings(<<Fixed(p, 1)>>, Span(p, 1))
      BY <1>0, <2>2, BringsFixed, Zenon
    <3> HIDE DEF gap
    <3> QED
      BY <3>1, <3>2, <3>3, FixedStep
  <2>4. CASE ~(r >= 0)
    <3>1. Syscall("uname", {}, <<>>, <<>>, {})
      BY <2>1, <2>4 DEF Cell, When
    <3>2. Writable(rmap, {}) /\ {} \subseteq {} \cup {}
      BY DEF Writable
    <3> QED
      BY <3>1, <3>2, BringsNothing, FixedStep
  <2> QED
    BY <2>3, <2>4
<1>4. CASE futex
  <2>1. PICK p \in Cells, q \in Cells, op \in {"wake", "requeue", "wake_op"}, r \in -1 .. 0 :
          /\ r >= 0 => Writable(rmap, {p} \cup Cell(op # "wake", {q}))
          /\ Plain("futex", Cell(r >= 0 /\ op = "wake_op", {q}),
                   When(r >= 0, <<Fixed(p, 1)>>)
                     \o When(r >= 0 /\ op # "wake", <<Fixed(q, 1)>>))
    BY <1>4, Zenon DEF futex
  <2>2. Span(p, 1) = {p} /\ Span(q, 1) = {q} /\ p \in Ptrs /\ q \in Ptrs
    BY <1>0 DEF Span
  <2> DEFINE s == When(r >= 0, <<Fixed(p, 1)>>)
             t == When(r >= 0 /\ op # "wake", <<Fixed(q, 1)>>)
             c == Cell(r >= 0, {p})
             d == Cell(r >= 0 /\ op # "wake", {q})
  <2>0. Brings(<<Fixed(p, 1)>>, {p}) /\ Brings(<<Fixed(q, 1)>>, {q})
    BY <1>0, <2>2, BringsFixed, Zenon
  <2>3. Brings(s, c)
    BY <2>0, BringsNothing DEF When, Cell
  <2>4. Brings(t, d)
    BY <2>0, BringsNothing DEF When, Cell
  <2>5. Writable(rmap, c \cup d)
    BY <2>1 DEF Cell, Writable
  <2>6. Cell(r >= 0 /\ op = "wake_op", {q}) \subseteq (c \cup d) \cup {}
    BY DEF Cell
  <2>7. Syscall("futex", Cell(r >= 0 /\ op = "wake_op", {q}), <<>>, s \o t, {})
    BY <2>1 DEF Plain
  <2> HIDE DEF s, t, c, d
  <2>8. Brings(s \o t, c \cup d)
    BY <2>3, <2>4, BringsBoth
  <2> QED
    BY <2>5, <2>6, <2>7, <2>8, FixedStep
<1>5. CASE rt_sigprocmask
  <2>1. PICK p \in Ptrs, q \in Ptrs, strip \in BOOLEAN, r \in -1 .. 0 :
          Syscall("rt_sigprocmask", Cell(strip, Span(p, 1)) \cup Cell(r >= 0, Span(q, 1)), <<>>,
                  When(r >= 0, <<Fixed(q, 1)>>), Cell(strip, Span(p, 1)))
    BY <1>5, Zenon DEF rt_sigprocmask
  <2> DEFINE set == Cell(strip, Span(p, 1))
             c == Cell(r >= 0, Span(q, 1))
             s == When(r >= 0, <<Fixed(q, 1)>>)
  <2>2. Syscall("rt_sigprocmask", set \cup c, <<>>, s, set)
    BY <2>1
  <2>3. Brings(s, c)
    BY <1>0, BringsFixed, BringsNothing, ZenonT(40) DEF When, Cell
  <2> HIDE DEF set, c, s
  <2>4. Writable(rmap, c) /\ set \cup c \subseteq c \cup set
    BY <2>2 DEF Syscall, Writable
  <2> QED
    BY <2>2, <2>3, <2>4, FixedStep
<1>6. ASSUME NEW nr, NEW cells, Syscall(nr, cells, <<>>, <<>>, cells) PROVE SysInv'
  <2>1. Writable(rmap, {}) /\ cells \subseteq {} \cup cells
    BY DEF Writable
  <2> QED
    BY <1>6, <2>1, BringsNothing, FixedStep
<1>7. CASE write
  BY <1>6, <1>7 DEF write, Plain
<1>8. CASE trivial
  BY <1>6, <1>8 DEF trivial, Plain
<1>9. CASE trivial_writing
  BY <1>6, <1>9 DEF trivial_writing
<1> QED
  BY <1>1, <1>2, <1>3, <1>4, <1>5, <1>7, <1>8, <1>9

\* Handlers that do not look at the result: what the kernel wrote is among what
\* they bring.
LEMMA UncheckedCalls ==
  ASSUME SysInv, time \/ waitpid \/ nanosleep \/ _newselect \/ tty_ioctl \/ blk_ioctl
  PROVE  SysInv'
<1>0. Cells \subseteq Ptrs /\ NULL \notin Cells /\ Cells \subseteq Int
  BY DEF Ptrs, Cells, NULL
<1>1. ASSUME NEW nr \in Unchecked, NEW p \in Ptrs, NEW n \in 0 .. 2, NEW writes,
             Plain(nr, writes, <<Fixed(p, n)>>), writes \subseteq Span(p, n)
      PROVE  SysInv'
  <2>1. Syscall(nr, writes, <<>>, <<Fixed(p, n)>>, {}) /\ writes \subseteq Span(p, n) \cup {}
    BY <1>1 DEF Plain
  <2> QED
    BY <2>1, BringsFixed, FixedStep, Zenon
<1>2. /\ "time" \in Unchecked /\ "waitpid" \in Unchecked /\ "nanosleep" \in Unchecked
      /\ "_newselect" \in Unchecked /\ "ioctl" \in Unchecked
      /\ 1 \in 0 .. 2 /\ 2 \in 0 .. 2
  BY DEF Unchecked
<1>3. CASE time
  <2>1. PICK p \in Ptrs :
          Plain("time", Cell(Writable(rmap, Span(p, 1)), Span(p, 1)), <<Fixed(p, 1)>>)
    BY <1>3 DEF time
  <2>2. Cell(Writable(rmap, Span(p, 1)), Span(p, 1)) \subseteq Span(p, 1)
    BY DEF Cell
  <2> QED
    BY <1>1, <1>2, <2>1, <2>2, Zenon
<1>4. CASE waitpid
  <2>1. PICK p \in Ptrs, r \in -1 .. 1 : Plain("waitpid", Cell(r > 0, Span(p, 1)), <<Fixed(p, 1)>>)
    BY <1>4 DEF waitpid
  <2>2. Cell(r > 0, Span(p, 1)) \subseteq Span(p, 1)
    BY DEF Cell
  <2> QED
    BY <1>1, <1>2, <2>1, <2>2, Zenon
<1>5. CASE nanosleep
  <2>1. PICK p \in Ptrs, r \in -1 .. 0 :
          Plain("nanosleep", Cell(r < 0 /\ Writable(rmap, Span(p, 2)), Span(p, 2)),
                <<Fixed(p, 2)>>)
    BY <1>5 DEF nanosleep
  <2>2. Cell(r < 0 /\ Writable(rmap, Span(p, 2)), Span(p, 2)) \subseteq Span(p, 2)
    BY DEF Cell
  <2> QED
    BY <1>1, <1>2, <2>1, <2>2, Zenon
<1>6. CASE _newselect
  <2>1. PICK p \in Ptrs, q \in Ptrs, t \in {NULL, 1}, r \in -1 .. 1 :
          Syscall("_newselect",
                  Cell(r >= 0, Span(p, 1) \cup Span(q, 1) \cup Span(t, 1)), <<>>,
                  <<Fixed(p, 1), Fixed(q, 1)>>, Cell(r >= 0, Span(t, 1)))
    BY <1>6, Zenon DEF _newselect
  <2> DEFINE s == <<Fixed(p, 1), Fixed(q, 1)>>
             c == Span(p, 1) \cup Span(q, 1)
             gap == Cell(r >= 0, Span(t, 1))
             writes == Cell(r >= 0, Span(p, 1) \cup Span(q, 1) \cup Span(t, 1))
  <2>2. Brings(s, c)
    BY <1>2, BringsPair, Zenon
  <2>3. writes \subseteq c \cup gap
    BY DEF Cell
  <2>4. Syscall("_newselect", writes, <<>>, s, gap)
    BY <2>1
  <2> HIDE DEF s, c, gap, writes
  <2> QED
    BY <1>2, <2>2, <2>3, <2>4, FixedStep
<1>7. CASE tty_ioctl
  <2>1. PICK p \in Ptrs, n \in 0 .. 2, r \in -1 .. 0 :
          Plain("ioctl", Cell(r >= 0, Span(p, n)), When(n > 0, <<Fixed(p, n)>>))
    BY <1>7 DEF tty_ioctl
  <2>2. Cell(r >= 0, Span(p, n)) \subseteq Span(p, n)
    BY DEF Cell
  <2>3. CASE n > 0
    BY <1>1, <1>2, <2>1, <2>2, <2>3, Zenon DEF When
  <2>4. CASE ~(n > 0)
    <3>1. Span(p, n) = {}
      BY <1>0, <2>4 DEF Span, Ptrs, NULL
    <3>2. Syscall("ioctl", {}, <<>>, <<>>, {})
      BY <2>1, <2>2, <2>4, <3>1, Zenon DEF When, Plain
    <3>3. Writable(rmap, {}) /\ {} \subseteq {} \cup {}
      BY DEF Writable
    <3> QED
      BY <3>2, <3>3, BringsNothing, FixedStep
  <2> QED
    BY <2>3, <2>4
<1>8. CASE blk_ioctl
  <2>1. PICK p \in Cells, cmd \in {"BLKBSZGET", "BLKGETSIZE64", "BLKGETSIZE"}, r \in -1 .. 0 :
          LET n == IF cmd = "BLKGETSIZE64" THEN 2 ELSE 1
              dir == cmd # "BLKGETSIZE"
          IN  Syscall("ioctl", Cell(r >= 0, Span(p, n)), <<>>,
                      When(r >= 0 /\ dir, <<Fixed(p, 1)>>),
                      Cell(r >= 0, Span(p, n) \ Cell(dir, {p})))
    BY <1>8, Zenon DEF blk_ioctl
  <2> DEFINE n == IF cmd = "BLKGETSIZE64" THEN 2 ELSE 1
             dir == cmd # "BLKGETSIZE"
             writes == Cell(r >= 0, Span(p, n))
             s == When(r >= 0 /\ dir, <<Fixed(p, 1)>>)
             c == Cell(r >= 0 /\ dir, {p})
             gap == Cell(r >= 0, Span(p, n) \ Cell(dir, {p}))
  <2>2. Span(p, 1) = {p} /\ p \in Ptrs
    BY <1>0 DEF Span
  <2>3. Brings(s, c)
    BY <1>2, <2>2, BringsFixed, BringsNothing, ZenonT(40) DEF When, Cell
  <2>4. writes \subseteq c \cup gap
    BY DEF Cell
  <2>5. Syscall("ioctl", writes, <<>>, s, gap)
    BY <2>1
  <2> HIDE DEF writes, s, c, gap
  <2> QED
    BY <1>2, <2>3, <2>4, <2>5, FixedStep
<1> QED
  BY <1>3, <1>4, <1>5, <1>6, <1>7, <1>8

\* A sub call of socketcall: its handler's items behind the arguments
LEMMA SocketStep ==
  ASSUME SysInv, NEW r, NEW writes, NEW forced, NEW items \in Seq(Items), NEW gap,
         Ordered(items), DOMAIN forced \subseteq writes,
         Socketcall(r, writes, forced, items, gap),
         \A mem \in Memories : (\A a \in DOMAIN forced : mem[a] = forced[a]) =>
           writes \subseteq Touched(items, mem) \cup gap
  PROVE  SysInv'
<1>1. PICK a \in {1, Top} :
        Syscall("socketcall", writes, forced, <<Fixed(a, 1)>> \o items, gap)
  BY DEF Socketcall
<1>2. a \in Ptrs /\ 1 \in 0 .. 2
  BY SyscallAssumption DEF Ptrs, Cells
<1>3. Brings(<<Fixed(a, 1)>>, Span(a, 1))
  BY <1>2, BringsFixed, Zenon
<1> DEFINE all == <<Fixed(a, 1)>> \o items
<1>4. /\ all \in Seq(Items) /\ Ordered(all)
      /\ \A mem : Touched(all, mem) = Touched(<<Fixed(a, 1)>>, mem) \cup Touched(items, mem)
  BY <1>3, ItemsBehind, Zenon DEF Brings
<1>5. Syscall("socketcall", writes, forced, all, gap)
  BY <1>1
<1> HIDE DEF all
<1>6. \A mem \in Memories : (\A c \in DOMAIN forced : mem[c] = forced[c]) =>
        writes \subseteq Touched(all, mem) \cup gap
  BY <1>4
<1>7. "socketcall" \in Unchecked
  BY DEF Unchecked
<1> QED
  BY <1>4, <1>5, <1>6, <1>7, CallStep, Zenon

\* A sub call whose items do not depend on memory
LEMMA SocketFixedStep ==
  ASSUME SysInv, NEW r, NEW writes, NEW items, NEW gap, NEW cells,
         Socketcall(r, writes, <<>>, items, gap), Brings(items, cells),
         writes \subseteq cells \cup gap
  PROVE  SysInv'
<1>1. DOMAIN <<>> \subseteq writes
  OBVIOUS
<1>2. items \in Seq(Items) /\ Ordered(items) /\ \A mem \in Memories : Touched(items, mem) = cells
  BY DEF Brings
<1>3. \A mem \in Memories : writes \subseteq Touched(items, mem) \cup gap
  BY <1>2
<1> DEFINE forced == <<>>
<1>4. DOMAIN forced \subseteq writes /\ Socketcall(r, writes, forced, items, gap)
  BY <1>1, SMTT(30)
<1> HIDE DEF forced
<1> QED
  BY <1>2, <1>3, <1>4, SocketStep, Zenon

\* A sub call that returns an address and its length: the kernel writes no more
\* than the length says.
LEMMA AddressStep ==
  ASSUME SysInv, NEW r, NEW p \in Ptrs, NEW q \in Cells, NEW v \in Values,
         NEW forced, DOMAIN forced = {q}, forced[q] = v,
         NEW other, NEW items \in Seq(Items), Ordered(items),
         \A mem \in Memories : Touched(items, mem) = other \cup ({q} \cup Span(p, mem[q] + 1)),
         NEW writes, q \in writes, writes \subseteq other \cup ({q} \cup Span(p, v + 1)),
         NEW gap, Socketcall(r, writes, forced, items, gap)
  PROVE  SysInv'
<1>1. \A mem \in Memories : (\A a \in DOMAIN forced : mem[a] = forced[a]) =>
        writes \subseteq Touched(items, mem) \cup gap
  BY SMTT(30)
<1>2. DOMAIN forced \subseteq writes
  OBVIOUS
<1> QED
  BY <1>1, <1>2, SocketStep, SMTT(30)

\* What fits in the buffer is part of the address.
LEMMA FittingPart ==
  ASSUME SysInv, NEW p \in Ptrs, NEW q \in Cells, NEW v \in Values
  PROVE  Fitting(p, q, v) \subseteq Span(p, v + 1)
<1>1. rmem[q] \in Values
  BY DEF SysInv, SysTypes, Memories
<1> QED
  BY <1>1, SyscallAssumption DEF Fitting, Span, Values, Ptrs, Cells, NULL

\* The sub calls that return an address or an option keep the invariant.
LEMMA AddressCalls ==
  ASSUME SysInv, getsockname \/ getpeername \/ getsockopt
  PROVE  SysInv'
<1>0. Cells \subseteq Ptrs
  BY DEF Ptrs
<1>1. ASSUME NEW p \in Cells, NEW q \in Cells, NEW v \in Values, NEW r \in -1 .. 0,
             NEW part, part \subseteq Span(p, v + 1),
             Socketcall(r, Cell(r >= 0, part \cup {q}),
                        IF r >= 0 THEN [a \in {q} |-> v] ELSE <<>>,
                        When(r >= 0, <<Fixed(q, 1), Counted(p, q)>>), {})
      PROVE  SysInv'
  <2>1. CASE r >= 0
    <3> DEFINE items == <<Fixed(q, 1), Counted(p, q)>>
               writes == part \cup {q}
               forced == [a \in {q} |-> v]
    <3>0. DOMAIN forced = {q} /\ forced[q] = v
      OBVIOUS
    <3>1. Socketcall(r, writes, forced, items, {})
      BY <1>1, <2>1 DEF Cell, When
    <3>2. /\ items \in Seq(Items) /\ Ordered(items)
          /\ \A mem \in Memories : Touched(items, mem) = {q} \cup Span(p, mem[q] + 1)
      BY <1>0, CountedItems
    <3> HIDE DEF items
    <3>3. \A mem \in Memories : Touched(items, mem) = {} \cup ({q} \cup Span(p, mem[q] + 1))
      BY <3>2
    <3>4. q \in writes /\ writes \subseteq {} \cup ({q} \cup Span(p, v + 1)) /\ p \in Ptrs
      BY <1>0, <1>1
    <3> HIDE DEF writes, forced
    <3> QED
      BY <3>0, <3>1, <3>2, <3>3, <3>4, AddressStep, Zenon
  <2>2. CASE ~(r >= 0)
    <3>1. Socketcall(r, {}, <<>>, <<>>, {})
      BY <1>1, <2>2 DEF Cell, When
    <3>2. {} \subseteq {} \cup {}
      OBVIOUS
    <3> QED
      BY <3>1, <3>2, BringsNothing, SocketFixedStep
  <2> QED
    BY <2>1, <2>2
<1>2. CASE getsockname
  <2>1. PICK p \in Cells, q \in Cells, v \in Values, r \in -1 .. 0 :
          Socketcall(r, Cell(r >= 0, Fitting(p, q, v) \cup {q}),
                     IF r >= 0 THEN [a \in {q} |-> v] ELSE <<>>,
                     When(r >= 0, <<Fixed(q, 1), Counted(p, q)>>), {})
    BY <1>2, Zenon DEF getsockname
  <2>2. Fitting(p, q, v) \subseteq Span(p, v + 1)
    BY <1>0, FittingPart
  <2> QED
    BY <1>1, <2>1, <2>2, Zenon
<1>3. CASE getpeername
  <2>1. PICK p \in Cells, q \in Cells, v \in Values, r \in -1 .. 0 :
          Socketcall(r, Cell(r >= 0, Fitting(p, q, v) \cup {q}),
                     IF r >= 0 THEN [a \in {q} |-> v] ELSE <<>>,
                     When(r >= 0, <<Fixed(q, 1), Counted(p, q)>>), {})
    BY <1>3, Zenon DEF getpeername
  <2>2. Fitting(p, q, v) \subseteq Span(p, v + 1)
    BY <1>0, FittingPart
  <2> QED
    BY <1>1, <2>1, <2>2, Zenon
<1>4. CASE getsockopt
  <2>1. PICK p \in Cells, q \in Cells, v \in Values, r \in -1 .. 0 :
          Socketcall(r, Cell(r >= 0, Span(p, v + 1) \cup {q}),
                     IF r >= 0 THEN [a \in {q} |-> v] ELSE <<>>,
                     When(r >= 0, <<Fixed(q, 1), Counted(p, q)>>), {})
    BY <1>4, Zenon DEF getsockopt
  <2>2. Span(p, v + 1) \subseteq Span(p, v + 1)
    OBVIOUS
  <2> QED
    BY <1>1, <2>1, <2>2, Zenon
<1> QED
  BY <1>2, <1>3, <1>4

\* accept keeps the invariant: its gap is the address with a new descriptor 0.
LEMMA AcceptCall == ASSUME SysInv, accept PROVE SysInv'
<1>1. PICK p \in Ptrs, q \in Cells, v \in Values, r \in -1 .. 1 :
        LET wanted == r >= 0 /\ p # NULL
            writes == Cell(wanted, Fitting(p, q, v) \cup {q})
        IN  Socketcall(r, writes, IF wanted THEN [a \in {q} |-> v] ELSE <<>>,
                       When(wanted /\ r > 0, <<Fixed(q, 1), Counted(p, q)>>),
                       Cell(r = 0, writes))
  BY Zenon DEF accept
<1> DEFINE wanted == r >= 0 /\ p # NULL
           writes == Fitting(p, q, v) \cup {q}
           items == <<Fixed(q, 1), Counted(p, q)>>
<1>2. CASE wanted /\ r > 0
  <2> DEFINE forced == [a \in {q} |-> v]
  <2>0. DOMAIN forced = {q} /\ forced[q] = v
    OBVIOUS
  <2>1. Socketcall(r, writes, forced, items, Cell(r = 0, writes))
    BY <1>1, <1>2 DEF Cell, When
  <2>2. /\ items \in Seq(Items) /\ Ordered(items)
        /\ \A mem \in Memories : Touched(items, mem) = {q} \cup Span(p, mem[q] + 1)
    BY CountedItems
  <2> HIDE DEF items
  <2>3. \A mem \in Memories : Touched(items, mem) = {} \cup ({q} \cup Span(p, mem[q] + 1))
    BY <2>2
  <2>4. q \in writes /\ writes \subseteq {} \cup ({q} \cup Span(p, v + 1))
    BY FittingPart
  <2> DEFINE gap == Cell(r = 0, writes)
  <2> HIDE DEF writes, gap, forced
  <2>5. Socketcall(r, writes, forced, items, gap)
    BY <2>1 DEF gap
  <2> QED
    BY <2>0, <2>2, <2>3, <2>4, <2>5, AddressStep, ZenonT(40)
<1>3. CASE wanted /\ ~(r > 0)
  <2> DEFINE forced == [a \in {q} |-> v]
             none == <<>>
  <2>1. Socketcall(r, writes, forced, none, writes)
    BY <1>1, <1>3 DEF Cell, When
  <2>2. DOMAIN forced \subseteq writes
    OBVIOUS
  <2>3. none \in Seq(Items) /\ Ordered(none)
    BY BringsNothing DEF Brings
  <2> HIDE DEF forced, writes, none
  <2>4. \A mem \in Memories : writes \subseteq Touched(none, mem) \cup writes
    OBVIOUS
  <2> QED
    BY <2>1, <2>2, <2>3, <2>4, SocketStep, Zenon
<1>4. CASE ~wanted
  <2> DEFINE gap == Cell(r = 0, {})
  <2>1. Socketcall(r, {}, <<>>, <<>>, gap)
    BY <1>1, <1>4 DEF Cell, When
  <2>2. {} \subseteq {} \cup gap
    OBVIOUS
  <2> HIDE DEF gap
  <2> QED
    BY <2>1, <2>2, BringsNothing, SocketFixedStep
<1> QED
  BY <1>2, <1>3, <1>4

\* recvfrom keeps the invariant: the data, then the length and the address.
LEMMA RecvfromCall == ASSUME SysInv, recvfrom PROVE SysInv'
<1>1. PICK b \in Cells, p \in Ptrs, q \in Cells, v \in Values, r \in Results :
        LET wanted == r >= 0 /\ p # NULL
        IN  /\ q \notin Span(p, 2) \cup Span(b, 2)
            /\ Socketcall(r, Span(b, r) \cup Cell(wanted, Fitting(p, q, v) \cup {q}),
                          IF wanted THEN [a \in {q} |-> v] ELSE <<>>,
                          When(r >= 0, <<Fixed(b, r)>>)
                            \o When(wanted, <<Fixed(q, 1), Counted(p, q)>>), {})
  BY Zenon DEF recvfrom
<1>0. b \in Ptrs /\ b \in Int /\ b # NULL
  BY DEF Ptrs, Cells, NULL
<1> DEFINE wanted == r >= 0 /\ p # NULL
           data == When(r >= 0, <<Fixed(b, r)>>)
           two == <<Fixed(q, 1), Counted(p, q)>>
<1>2. Brings(data, Span(b, r))
  <2>1. CASE r >= 0
    <3>1. r \in 0 .. 2
      BY <2>1 DEF Results
    <3> QED
      BY <1>0, <2>1, <3>1, BringsFixed, Zenon DEF When
  <2>2. CASE ~(r >= 0)
    <3>1. Span(b, r) = {}
      BY <1>0, <2>2 DEF Span, Results
    <3> QED
      BY <2>2, <3>1, BringsNothing DEF When
  <2> QED
    BY <2>1, <2>2
<1>3. CASE wanted
  <2> DEFINE items == data \o two
             writes == Span(b, r) \cup (Fitting(p, q, v) \cup {q})
             forced == [a \in {q} |-> v]
  <2>0. DOMAIN forced = {q} /\ forced[q] = v
    OBVIOUS
  <2>1. Socketcall(r, writes, forced, items, {})
    BY <1>1, <1>3 DEF Cell, When
  <2>2. /\ two \in Seq(Items) /\ Ordered(two)
        /\ \A mem \in Memories : Touched(two, mem) = {q} \cup Span(p, mem[q] + 1)
    BY CountedItems
  <2> HIDE DEF two, data
  <2>3. /\ items \in Seq(Items) /\ Ordered(items)
        /\ \A mem \in Memories : Touched(items, mem) = Span(b, r) \cup ({q} \cup Span(p, mem[q] + 1))
    BY <1>2, <2>2, ItemsBehind DEF Brings
  <2>4. q \in writes /\ writes \subseteq Span(b, r) \cup ({q} \cup Span(p, v + 1))
    BY FittingPart
  <2> HIDE DEF writes, items, forced
  <2> QED
    BY <2>0, <2>1, <2>3, <2>4, AddressStep, Zenon
<1>4. CASE ~wanted
  <2> DEFINE items == data \o <<>>
             cells == Span(b, r) \cup {}
  <2>1. Socketcall(r, cells, <<>>, items, {})
    BY <1>1, <1>4, ZenonT(40) DEF Cell, When
  <2> HIDE DEF data
  <2>2. Brings(items, cells)
    BY <1>2, BringsNothing, BringsBoth
  <2>3. cells \subseteq cells \cup {}
    OBVIOUS
  <2> HIDE DEF items, cells
  <2> QED
    BY <2>1, <2>2, <2>3, SocketFixedStep
<1> QED
  BY <1>3, <1>4

\* The other sub calls keep the invariant.
LEMMA SocketCalls ==
  ASSUME SysInv, recvmsg \/ recv \/ socketpair \/ socketcall_trivial
  PROVE  SysInv'
<1>0. Cells \subseteq Ptrs /\ NULL \notin Cells /\ Cells \subseteq Int /\ 1 \in 0 .. 2 /\ 2 \in 0 .. 2
  BY DEF Ptrs, Cells, NULL
<1>1. CASE recvmsg
  <2>1. PICK h \in Cells, b \in Cells, c \in {NULL, 1}, r \in Results :
          Socketcall(r, Cell(r >= 0, {h} \cup Span(b, r) \cup Span(c, 1)), <<>>,
                     When(r >= 0, <<Fixed(h, 1), Fixed(b, 2)>>),
                     Cell(r >= 0, Span(c, 1)))
    BY <1>1, Zenon DEF recvmsg
  <2> DEFINE writes == Cell(r >= 0, {h} \cup Span(b, r) \cup Span(c, 1))
             items == When(r >= 0, <<Fixed(h, 1), Fixed(b, 2)>>)
             cells == Cell(r >= 0, Span(h, 1) \cup Span(b, 2))
             gap == Cell(r >= 0, Span(c, 1))
  <2>2. Socketcall(r, writes, <<>>, items, gap)
    BY <2>1
  <2>3. Brings(<<Fixed(h, 1), Fixed(b, 2)>>, Span(h, 1) \cup Span(b, 2))
    BY <1>0, BringsPair, Zenon
  <2>4. Brings(items, cells)
    BY <2>3, BringsNothing DEF When, Cell
  <2>5. Span(h, 1) = {h} /\ Span(b, r) \subseteq Span(b, 2)
    BY <1>0 DEF Span, Results
  <2>6. writes \subseteq cells \cup gap
    BY <2>5 DEF Cell
  <2> HIDE DEF writes, items, cells, gap
  <2> QED
    BY <2>2, <2>4, <2>6, SocketFixedStep
<1>2. CASE recv
  <2>1. PICK b \in Cells, n \in 0 .. 2, r \in Results :
          /\ r >= 0 => n = r
          /\ Socketcall(r, Span(b, n), <<>>, When(r > 0, <<Fixed(b, r)>>), Cell(r < 0, Span(b, n)))
    BY <1>2 DEF recv
  <2> DEFINE writes == Span(b, n)
             items == When(r > 0, <<Fixed(b, r)>>)
             cells == Cell(r > 0, Span(b, r))
             gap == Cell(r < 0, Span(b, n))
  <2>2. Socketcall(r, writes, <<>>, items, gap)
    BY <2>1
  <2>3. r > 0 => r \in 0 .. 2
    BY DEF Results
  <2>4. Brings(items, cells)
    BY <1>0, <2>3, BringsFixed, BringsNothing, Zenon DEF When, Cell
  <2>5. Span(b, 0) = {}
    BY <1>0 DEF Span
  <2>6. r > 0 \/ r < 0 \/ (r = 0 /\ n = 0)
    BY <2>1 DEF Results
  <2>7. writes \subseteq cells \cup gap
    BY <2>1, <2>5, <2>6 DEF Cell, Results
  <2> HIDE DEF writes, items, cells, gap
  <2> QED
    BY <2>2, <2>4, <2>7, SocketFixedStep
<1>3. CASE socketpair
  <2>1. PICK p \in Cells, r \in -1 .. 0 :
          Socketcall(r, Cell(r >= 0, Span(p, 2)), <<>>, When(r >= 0, <<Fixed(p, 2)>>), {})
    BY <1>3 DEF socketpair
  <2> DEFINE cells == Cell(r >= 0, Span(p, 2))
             items == When(r >= 0, <<Fixed(p, 2)>>)
  <2>2. Brings(items, cells)
    BY <1>0, BringsFixed, BringsNothing, Zenon DEF When, Cell
  <2>3. Socketcall(r, cells, <<>>, items, {}) /\ cells \subseteq cells \cup {}
    BY <2>1
  <2> HIDE DEF cells, items
  <2> QED
    BY <2>2, <2>3, SocketFixedStep
<1>4. CASE socketcall_trivial
  <2>1. PICK r \in -1 .. 0 : Socketcall(r, {}, <<>>, <<>>, {})
    BY <1>4 DEF socketcall_trivial
  <2>2. {} \subseteq {} \cup {}
    OBVIOUS
  <2> QED
    BY <2>1, <2>2, BringsNothing, SocketFixedStep
<1> QED
  BY <1>1, <1>2, <1>3, <1>4

-----------------------------------------------------------------------------
(* The map, and the program's own stores                                   *)

\* While the runs go on, the part of the invariant about a run that has ended
\* says nothing.
LEMMA StillRunning ==
  ASSUME end' = Running, SysTypes',
         \A a \in Cells : rmap'[a] # "none" => rmem'[a] = pmem'[a] \/ a \in gaps',
         \A a \in Cells : rmap'[a] # "none" => pmap'[a] = rmap'[a],
         \A a \in Cells : pmap'[a] # "none" /\ rmap'[a] = "none" => a \in released'
  PROVE  SysInv'
<1>1. end'.why = ""
  BY Zenon DEF Running
<1> QED
  BY <1>1, Zenon DEF SysInv, SameMemory, InStep, TouchChecked, MapKept

\* What the invariant says of two runs that go on
LEMMA SameRuns ==
  ASSUME SysInv, end = Running
  PROVE  /\ SysTypes
         /\ \A a \in Cells : rmap[a] # "none" => rmem[a] = pmem[a] \/ a \in gaps
         /\ \A a \in Cells : rmap[a] # "none" => pmap[a] = rmap[a]
         /\ \A a \in Cells : pmap[a] # "none" /\ rmap[a] = "none" => a \in released
BY SMTT(30) DEF SysInv, SameMemory, MapKept

\* mmap2, munmap and mprotect keep the invariant; munmap through the cells it
\* gives back.
LEMMA MapCalls == ASSUME SysInv, mmap2 \/ munmap \/ mprotect PROVE SysInv'
<1>1. CASE mmap2
  <2> DEFINE Does(p, n, perm, m, file) ==
        LET cells == Span(p, n)
            kept == Span(p, m)
        IN  /\ end = Running
            /\ cells \subseteq Cells
            /\ file \/ m = n
            /\ \E new \in [kept -> IF file THEN Values ELSE {0}] :
                 /\ rmem' = [a \in Cells |-> IF a \in kept THEN new[a]
                                             ELSE IF a \in cells THEN 0 ELSE rmem[a]]
                 /\ pmem' = [a \in Cells |-> IF a \in kept THEN new[a]
                                             ELSE IF a \in cells THEN 0 ELSE pmem[a]]
            /\ rmap' = With(rmap, cells, perm)
            /\ pmap' = With(pmap, cells, perm)
            /\ released' = released \ cells
            /\ gaps' = gaps \ cells
            /\ UNCHANGED <<brk, end>>
  <2>0. PICK p \in Data + 1 .. Top, n \in 1 .. 2, perm \in {"r", "rw"} :
          \E m \in 1 .. n, file \in BOOLEAN : Does(p, n, perm, m, file)
    BY <1>1, ZenonT(40) DEF mmap2
  <2>1. PICK m \in 1 .. n, file \in BOOLEAN : Does(p, n, perm, m, file)
    BY <2>0
  <2> DEFINE kept == Span(p, m)
             cells == Span(p, n)
  <2>2. kept \subseteq cells
    <3>1. p \in Int /\ p # NULL /\ m \in Int /\ n \in Int /\ m <= n
      BY SyscallAssumption, SMTT(30) DEF NULL
    <3> QED
      BY <3>1 DEF Span
  <2>3. PICK new \in [kept -> IF file THEN Values ELSE {0}] :
          /\ rmem' = [a \in Cells |-> IF a \in kept THEN new[a]
                                      ELSE IF a \in cells THEN 0 ELSE rmem[a]]
          /\ pmem' = [a \in Cells |-> IF a \in kept THEN new[a]
                                      ELSE IF a \in cells THEN 0 ELSE pmem[a]]
    BY <2>1
  <2>4. \A a \in kept : new[a] \in Values
    BY DEF Values
  <2>5. /\ rmap' = With(rmap, cells, perm) /\ pmap' = With(pmap, cells, perm)
        /\ released' = released \ cells /\ gaps' = gaps \ cells /\ brk' = brk
        /\ end' = Running /\ end = Running
    BY <2>1, ZenonT(40)
  <2> HIDE DEF kept, cells
  <2>6. /\ SysTypes
        /\ \A a \in Cells : rmap[a] # "none" => rmem[a] = pmem[a] \/ a \in gaps
        /\ \A a \in Cells : rmap[a] # "none" => pmap[a] = rmap[a]
        /\ \A a \in Cells : pmap[a] # "none" /\ rmap[a] = "none" => a \in released
    BY <2>5, SameRuns
  <2>7. rmem' \in Memories /\ pmem' \in Memories
    <3>1. \A a \in Cells : rmem[a] \in Values /\ pmem[a] \in Values
      BY <2>6 DEF SysTypes, Memories
    <3>2. 0 \in Values
      BY DEF Values
    <3>3. rmem' \in Memories
      BY <2>3, <2>4, <3>1, <3>2, SMTT(30) DEF Memories
    <3>4. pmem' \in Memories
      BY <2>3, <2>4, <3>1, <3>2, SMTT(30) DEF Memories
    <3> QED
      BY <3>3, <3>4
  <2>8. \A a \in Cells : /\ rmap'[a] = (IF a \in cells THEN perm ELSE rmap[a])
                         /\ pmap'[a] = (IF a \in cells THEN perm ELSE pmap[a])
    BY <2>5, SMTT(30) DEF With
  <2>9. SysTypes'
    BY <2>5, <2>6, <2>7, SMTT(30) DEF SysTypes, With, Perms
  <2>10. \A a \in Cells : a \in cells => rmem'[a] = pmem'[a]
    BY <2>3, SMTT(30)
  <2>11. \A a \in Cells : a \notin cells => rmem'[a] = rmem[a] /\ pmem'[a] = pmem[a]
    BY <2>2, <2>3
  <2>12. perm # "none"
    BY SMTT(30)
  <2> QED
    BY <2>5, <2>6, <2>8, <2>9, <2>10, <2>11, <2>12, StillRunning
<1>2. CASE munmap
  <2>1. PICK p \in Data + 1 .. Top, n \in 1 .. 2 :
          /\ end = Running
          /\ rmap' = With(rmap, Span(p, n), "none")
          /\ released' = released \cup {a \in Span(p, n) : pmap[a] # "none"}
          /\ rmem' = Without(rmem, Span(p, n))
          /\ pmem' = Without(pmem, Span(p, n))
          /\ gaps' = gaps \ Span(p, n)
          /\ UNCHANGED <<pmap, brk, end>>
    BY <1>2, SMTT(30) DEF munmap
  <2> DEFINE cells == Span(p, n)
  <2>2. /\ end = Running /\ end' = Running /\ pmap' = pmap /\ brk' = brk
        /\ rmap' = With(rmap, cells, "none")
        /\ released' = released \cup {a \in cells : pmap[a] # "none"}
        /\ rmem' = Without(rmem, cells) /\ pmem' = Without(pmem, cells)
        /\ gaps' = gaps \ cells
    BY <2>1, SMTT(30)
  <2> HIDE DEF cells
  <2>3. /\ SysTypes
        /\ \A a \in Cells : rmap[a] # "none" => rmem[a] = pmem[a] \/ a \in gaps
        /\ \A a \in Cells : rmap[a] # "none" => pmap[a] = rmap[a]
        /\ \A a \in Cells : pmap[a] # "none" /\ rmap[a] = "none" => a \in released
    BY <2>2, SameRuns, SMTT(30)
  <2>4. SysTypes'
    <3>1. rmem' \in Memories
      BY <2>2, <2>3, SMTT(30) DEF SysTypes, Memories, Values, Without
    <3>2. pmem' \in Memories
      BY <2>2, <2>3, SMTT(30) DEF SysTypes, Memories, Values, Without
    <3>3. rmap' \in [Cells -> Perms]
      BY <2>2, <2>3, SMTT(30) DEF SysTypes, With, Perms
    <3> QED
      BY <2>2, <2>3, <3>1, <3>2, <3>3, SMTT(30) DEF SysTypes
  <2>5. \A a \in Cells : rmap'[a] = IF a \in cells THEN "none" ELSE rmap[a]
    BY <2>2, SMTT(30) DEF With
  <2>6. \A a \in Cells : a \notin cells => rmem'[a] = rmem[a] /\ pmem'[a] = pmem[a]
    BY <2>2, SMTT(30) DEF Without
  <2> QED
    BY <2>2, <2>3, <2>4, <2>5, <2>6, StillRunning, SMTT(30)
<1>3. CASE mprotect
  <2>1. PICK p \in Data + 1 .. Top, n \in 1 .. 2, perm \in {"r", "rw"} :
          /\ end = Running
          /\ Mapped(rmap, Span(p, n))
          /\ rmap' = With(rmap, Span(p, n), perm)
          /\ pmap' = With(pmap, Span(p, n), perm)
          /\ UNCHANGED <<rmem, pmem, brk, released, gaps, end>>
    BY <1>3, SMTT(30) DEF mprotect
  <2> DEFINE cells == Span(p, n)
  <2>2. /\ end = Running /\ end' = Running /\ brk' = brk
        /\ rmap' = With(rmap, cells, perm) /\ pmap' = With(pmap, cells, perm)
        /\ \A a \in cells : rmap[a] # "none"
        /\ rmem' = rmem /\ pmem' = pmem /\ released' = released /\ gaps' = gaps
    BY <2>1, SMTT(30) DEF Mapped
  <2> HIDE DEF cells
  <2>3. /\ SysTypes
        /\ \A a \in Cells : rmap[a] # "none" => rmem[a] = pmem[a] \/ a \in gaps
        /\ \A a \in Cells : rmap[a] # "none" => pmap[a] = rmap[a]
        /\ \A a \in Cells : pmap[a] # "none" /\ rmap[a] = "none" => a \in released
    BY <2>2, SameRuns, SMTT(30)
  <2>4. SysTypes'
    BY <2>2, <2>3, SMTT(30) DEF SysTypes, With, Perms
  <2>5. \A a \in Cells : /\ rmap'[a] = (IF a \in cells THEN perm ELSE rmap[a])
                         /\ pmap'[a] = (IF a \in cells THEN perm ELSE pmap[a])
    BY <2>2 DEF With
  <2>6. perm # "none"
    OBVIOUS
  <2> QED
    BY <2>2, <2>3, <2>4, <2>5, <2>6, StillRunning, SMTT(30)
<1> QED
  BY <1>1, <1>2, <1>3

\* brk keeps the invariant when the repeated call returns the same.
LEMMA BrkCall == ASSUME SysInv, sys_brk PROVE SysInv'
<1>1. PICK b \in 0 .. Top + 1 :
        /\ end = Running
        /\ rmap' = BrkMap(rmap, Brk(rmap, b))
        /\ rmem' = BrkMem(rmem, Brk(rmap, b))
        /\ brk' = Brk(rmap, b)
        /\ released' = released \ ((brk .. Brk(rmap, b) - 1) \cup (Brk(rmap, b) .. brk - 1))
        /\ gaps' = gaps \ ((brk .. Brk(rmap, b) - 1) \cup (Brk(rmap, b) .. brk - 1))
        /\ replay_brk(b, Brk(rmap, b))
        /\ UNCHANGED end
  BY DEF sys_brk
<1> DEFINE r == Brk(rmap, b)
<1>2. r \in Int
  BY SMTT(30) DEF Brk, SysInv, SysTypes
<1> HIDE DEF r
<1> DEFINE up == brk .. r - 1
           down == r .. brk - 1
<1>3. /\ end = Running /\ end' = Running /\ brk' = r
      /\ rmap' = [a \in Cells |-> IF a \in down THEN "none" ELSE IF a \in up THEN "rw" ELSE rmap[a]]
      /\ pmap' = [a \in Cells |-> IF a \in down THEN "none" ELSE IF a \in up THEN "rw" ELSE pmap[a]]
      /\ rmem' = Without(rmem, up \cup down) /\ pmem' = Without(pmem, up \cup down)
      /\ released' = released \ (up \cup down) /\ gaps' = gaps \ (up \cup down)
  BY <1>1, SMTT(30) DEF r, replay_brk, BrkMap, BrkMem
<1> HIDE DEF up, down
<1>4. /\ SysTypes
      /\ \A a \in Cells : rmap[a] # "none" => rmem[a] = pmem[a] \/ a \in gaps
      /\ \A a \in Cells : rmap[a] # "none" => pmap[a] = rmap[a]
      /\ \A a \in Cells : pmap[a] # "none" /\ rmap[a] = "none" => a \in released
  BY <1>3, SameRuns, Zenon
<1>5. SysTypes'
  <2>1. rmem' \in Memories /\ pmem' \in Memories
    BY <1>3, <1>4 DEF SysTypes, Memories, Values, Without
  <2>2. rmap' \in [Cells -> Perms]
    BY <1>3, <1>4 DEF SysTypes, Perms
  <2>3. pmap' \in [Cells -> Perms]
    BY <1>3, <1>4, SMTT(30) DEF SysTypes, Perms
  <2> QED
    BY <1>2, <1>3, <2>1, <2>2, <2>3, SMTT(30) DEF SysTypes
<1>6. \A a \in Cells : a \in up \cup down => rmem'[a] = pmem'[a] /\ pmap'[a] = rmap'[a]
  BY <1>3, SMTT(30) DEF Without
<1>7. \A a \in Cells : a \notin up \cup down =>
        /\ rmem'[a] = rmem[a] /\ pmem'[a] = pmem[a]
        /\ rmap'[a] = rmap[a] /\ pmap'[a] = pmap[a]
  BY <1>3, SMTT(30) DEF Without
<1> QED
  BY <1>3, <1>4, <1>5, <1>6, <1>7, StillRunning, ZenonT(40)

\* The assertion of replay_brk fails only over a cell that munmap gave back: the
\* recorded map and that of the replay differ there alone.
LEMMA BrkFails == ASSUME SysInv, brk_inconsistent PROVE SysInv'
<1>1. PICK b \in 0 .. Top + 1 :
        /\ end = Running
        /\ Brk(pmap, b) # Brk(rmap, b)
        /\ end' = [why |-> "CASSERT", nr |-> "brk"]
        /\ UNCHANGED <<rmem, rmap, pmem, pmap, brk, released, gaps>>
  BY DEF brk_inconsistent
<1>2. /\ brk \in Int
      /\ \A a \in Cells : rmap[a] # "none" => pmap[a] = rmap[a]
      /\ \A a \in Cells : pmap[a] # "none" /\ rmap[a] = "none" => a \in released
  BY DEF SysInv, SysTypes, MapKept
<1>3. PICK a \in brk .. b - 1 : a \in Cells /\ pmap[a] # "none" /\ rmap[a] = "none"
  BY <1>1, <1>2 DEF Brk
<1>4. a \in released /\ brk <= a
  BY <1>2, <1>3
<1>5. end'.why = "CASSERT" /\ end' # Running
  BY <1>1, Zenon DEF Running
<1> QED
  BY <1>1, <1>4, <1>5, SMTT(30) DEF SysInv, SysTypes, SameMemory, InStep, TouchChecked, MapKept

\* A store of the program and a command ioctl does not know keep the invariant.
LEMMA StoreStep == ASSUME SysInv, Store \/ ioctl_unknown PROVE SysInv'
<1>1. CASE Store
  <2>1. PICK a \in Cells, v \in Values :
          /\ end = Running
          /\ rmem' = [rmem EXCEPT ![a] = v]
          /\ pmem' = [pmem EXCEPT ![a] = v]
          /\ gaps' = gaps \ {a}
          /\ UNCHANGED <<rmap, pmap, brk, released, end>>
    BY <1>1, ZenonT(40) DEF Store
  <2>2. /\ SysTypes
        /\ \A c \in Cells : rmap[c] # "none" => rmem[c] = pmem[c] \/ c \in gaps
        /\ \A c \in Cells : rmap[c] # "none" => pmap[c] = rmap[c]
        /\ \A c \in Cells : pmap[c] # "none" /\ rmap[c] = "none" => c \in released
    BY <2>1, SameRuns, SMTT(30)
  <2>3. SysTypes'
    BY <2>1, <2>2 DEF SysTypes, Memories
  <2>4. \A c \in Cells : rmap'[c] # "none" => rmem'[c] = pmem'[c] \/ c \in gaps'
    BY <2>1, <2>2, SMTT(30) DEF SysTypes, Memories
  <2> QED
    BY <2>1, <2>2, <2>3, <2>4, StillRunning
<1>2. CASE ioctl_unknown
  <2>1. /\ end' = [why |-> "FATAL", nr |-> "ioctl"]
        /\ UNCHANGED <<rmem, rmap, pmem, pmap, brk, released, gaps>>
    BY <1>2 DEF ioctl_unknown
  <2>2. end'.why = "FATAL" /\ end' # Running
    BY <2>1, Zenon DEF Running
  <2> QED
    BY <2>1, <2>2, SMTT(30) DEF SysInv, SysTypes, SameMemory, InStep, TouchChecked, MapKept
<1> QED
  BY <1>1, <1>2, SMTT(30)

-----------------------------------------------------------------------------
(* The theorems                                                            *)

\* Both runs start with the same memory and the same map.
LEMMA SysInit == Init => SysInv
<1> SUFFICES ASSUME Init PROVE SysInv
  OBVIOUS
<1>1. SysTypes
  BY SyscallAssumption DEF Init, SysTypes, Memories, Values, Perms
<1>2. end.why = ""
  BY Zenon DEF Init, Running
<1>3. pmem = rmem /\ pmap = rmap
  BY DEF Init
<1> QED
  BY <1>1, <1>2, <1>3, Zenon DEF SysInv, SameMemory, InStep, TouchChecked, MapKept

\* Every call, with its record and its replay, keeps the invariant.
LEMMA SysStep == SysInv /\ [Next]_vars => SysInv'
<1>1. ASSUME SysInv, Next PROVE SysInv'
  BY <1>1, ReadingCalls, BufferCalls, OtherCalls, UncheckedCalls, AddressCalls, AcceptCall,
     RecvfromCall, SocketCalls, MapCalls, BrkCall, BrkFails, StoreStep, SMTT(30) DEF Next
<1>2. ASSUME SysInv, UNCHANGED vars PROVE SysInv'
  BY <1>2 DEF vars, SysInv, SysTypes, SameMemory, InStep, TouchChecked, MapKept, Mapped
<1> QED
  BY <1>1, <1>2

\* The inductive invariant: types, and the four properties together.  None of
\* them is inductive alone: a handler is in step only while the length it reads
\* back is the recorded one, and it may write only while the map is kept.
THEOREM SysInvHolds == Spec => []SysInv
BY SysInit, SysStep, PTL DEF Spec

\* After any sequence of calls the replay's memory is that of the recorded run
\* outside the cells a handler is marked to leave out (log_syscalls.c and
\* replay_syscalls.c, for any memory and any heap).
THEOREM MemoryKept == Spec => []SameMemory
<1>1. SysInv => SameMemory
  BY DEF SysInv
<1> QED
  BY <1>1, SysInvHolds, PTL

\* Every replay handler reads exactly what its post handler has appended: the
\* entries of the log never shift against the calls.
THEOREM HandlersInStep == Spec => []InStep
<1>1. SysInv => InStep
  BY DEF SysInv
<1> QED
  BY <1>1, SysInvHolds, PTL

\* Only the handlers that do not look at the result, and socketcall, touch
\* memory the kernel has not accepted.
THEOREM TouchesChecked == Spec => []TouchChecked
<1>1. SysInv => TouchChecked
  BY DEF SysInv
<1> QED
  BY <1>1, SysInvHolds, PTL

\* The replay's map is the recorded one, and beyond it exactly what munmap gave
\* back; the assertion of replay_brk fails over such a cell alone.
THEOREM MapsAgree == Spec => []MapKept
<1>1. SysInv => MapKept
  BY DEF SysInv
<1> QED
  BY <1>1, SysInvHolds, PTL
=============================================================================
