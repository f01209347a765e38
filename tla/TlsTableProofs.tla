--------------------------- MODULE TlsTableProofs ---------------------------
(***************************************************************************)
(* Proof that slots, list and loops agree, for any number of threads and   *)
(* of entries of the LDT.                                                  *)
(***************************************************************************)
EXTENDS TlsTable, WellFoundedInduction, TLAPS

-----------------------------------------------------------------------------
(* Sequences and the smallest free slot                                    *)

\* A sequence is a function on 1 .. Len.
LEMMA LenProperties ==
  ASSUME NEW S, NEW s \in Seq(S)
  PROVE  /\ Len(s) \in Nat
         /\ s \in [1 .. Len(s) -> S]
         /\ DOMAIN s = 1 .. Len(s)
OBVIOUS

\* What is appended follows what was there.
LEMMA ConcatProperties ==
  ASSUME NEW S, NEW s \in Seq(S), NEW t \in Seq(S)
  PROVE  /\ s \o t \in Seq(S)
         /\ Len(s \o t) = Len(s) + Len(t)
         /\ \A i \in 1 .. Len(s) + Len(t) :
              (s \o t)[i] = IF i <= Len(s) THEN s[i] ELSE t[i - Len(s)]
OBVIOUS

\* Head is the first element, Tail the others.
LEMMA HeadTailProperties ==
  ASSUME NEW S, NEW s \in Seq(S), s # <<>>
  PROVE  /\ Head(s) \in S
         /\ Tail(s) \in Seq(S)
         /\ Len(Tail(s)) = Len(s) - 1
         /\ \A i \in 1 .. Len(Tail(s)) : Tail(s)[i] = s[i + 1]
OBVIOUS

\* Range is the set of the elements of a sequence.
LEMMA RangeMember ==
  ASSUME NEW S, NEW s \in Seq(S), NEW x
  PROVE  x \in Range(s) <=> \E i \in 1 .. Len(s) : s[i] = x
BY DEF Range

\* The loops go on with the rest of the list.
LEMMA TailSubset ==
  ASSUME NEW S, NEW s \in Seq(S), s # <<>>
  PROVE  Tail(s) \in Seq(S) /\ Range(Tail(s)) \subseteq Range(s)
<1>1. /\ Tail(s) \in Seq(S) /\ Len(Tail(s)) = Len(s) - 1
      /\ \A i \in 1 .. Len(Tail(s)) : Tail(s)[i] = s[i + 1]
  BY HeadTailProperties
<1>2. Len(s) \in Nat
  BY LenProperties
<1>3. ASSUME NEW x \in Range(Tail(s)) PROVE x \in Range(s)
  <2>1. PICK i \in 1 .. Len(Tail(s)) : Tail(s)[i] = x
    BY <1>1, RangeMember, Zenon
  <2>2. i + 1 \in 1 .. Len(s) /\ s[i + 1] = x
    BY <2>1, <1>1, <1>2
  <2> QED
    BY <2>2, RangeMember
<1> QED
  BY <1>1, <1>3

\* What is in the list and not its first is behind it.
LEMMA TailRest ==
  ASSUME NEW S, NEW s \in Seq(S), s # <<>>
  PROVE  \A x \in Range(s) : x = Head(s) \/ x \in Range(Tail(s))
<1>1. /\ Tail(s) \in Seq(S) /\ Len(Tail(s)) = Len(s) - 1
      /\ \A i \in 1 .. Len(Tail(s)) : Tail(s)[i] = s[i + 1]
  BY HeadTailProperties
<1>2. ASSUME NEW i \in 1 .. Len(s) PROVE s[i] = Head(s) \/ s[i] \in Range(Tail(s))
  <2>1. CASE i = 1
    BY <2>1
  <2>2. CASE i # 1
    <3>1. i - 1 \in 1 .. Len(Tail(s)) /\ (i - 1) + 1 = i
      BY <2>2, <1>1
    <3> QED
      BY <3>1, <1>1, RangeMember, Zenon
  <2> QED
    BY <2>1, <2>2
<1> QED
  BY <1>2, RangeMember

\* A tpd is linked at the head of the list.
LEMMA Linked ==
  ASSUME NEW S, NEW s \in Seq(S), NEW x \in S, x \notin Range(s),
         \A i, j \in 1 .. Len(s) : s[i] = s[j] => i = j
  PROVE  LET r == <<x>> \o s
         IN  /\ r \in Seq(S)
             /\ Range(r) = Range(s) \cup {x}
             /\ \A i, j \in 1 .. Len(r) : r[i] = r[j] => i = j
<1> DEFINE r == <<x>> \o s
<1>1. /\ r \in Seq(S) /\ Len(r) = Len(s) + 1 /\ Len(s) \in Nat
      /\ r[1] = x /\ \A i \in 1 .. Len(s) : r[i + 1] = s[i]
  OBVIOUS
<1> HIDE DEF r
<1>2. \A i \in 1 .. Len(r) : i = 1 \/ (i - 1 \in 1 .. Len(s) /\ r[i] = s[i - 1])
  BY <1>1
<1>3. \A i \in 1 .. Len(s) : s[i] # x
  BY RangeMember
<1>4. ASSUME NEW i \in 1 .. Len(r), NEW j \in 1 .. Len(r), r[i] = r[j]
      PROVE  i = j
  <2>1. CASE i = 1 \/ j = 1
    <3>1. r[i] = x /\ r[j] = x
      BY <2>1, <1>1, <1>4
    <3>2. \A h \in 1 .. Len(r) : r[h] = x => h = 1
      BY <1>2, <1>3, SMTT(30)
    <3> QED
      BY <3>1, <3>2
  <2>2. CASE i # 1 /\ j # 1
    <3>1. i - 1 \in 1 .. Len(s) /\ j - 1 \in 1 .. Len(s) /\ s[i - 1] = s[j - 1]
      BY <2>2, <1>2, <1>4
    <3>2. i - 1 = j - 1
      BY <3>1
    <3> QED
      BY <3>2
  <2> QED
    BY <2>1, <2>2
<1>5. \A y : y \in Range(r) <=> y \in Range(s) \cup {x}
  <2> TAKE y
  <2>1. ASSUME y \in Range(r) PROVE y \in Range(s) \cup {x}
    <3>1. PICK i \in 1 .. Len(r) : r[i] = y
      BY <2>1, <1>1, RangeMember
    <3> QED
      BY <3>1, <1>1, <1>2, RangeMember, Zenon
  <2>2. ASSUME y \in Range(s) PROVE y \in Range(r)
    <3>1. PICK i \in 1 .. Len(s) : s[i] = y
      BY <2>2, RangeMember
    <3>2. i + 1 \in 1 .. Len(r) /\ r[i + 1] = y
      BY <3>1, <1>1
    <3> QED
      BY <3>2, <1>1, RangeMember
  <2>3. x \in Range(r)
    <3>1. 1 \in 1 .. Len(r)
      BY <1>1
    <3> QED
      BY <3>1, <1>1, RangeMember
  <2> QED
    BY <2>1, <2>2, <2>3
<1> QED
  BY <1>1, <1>4, <1>5 DEF r

\* list_del takes the one link of a slot out.
LEMMA Unlinked ==
  ASSUME NEW S, NEW s \in Seq(S), NEW x \in Range(s),
         \A i, j \in 1 .. Len(s) : s[i] = s[j] => i = j
  PROVE  LET r == list_del(s, x)
         IN  /\ r \in Seq(S)
             /\ Range(r) = Range(s) \ {x}
             /\ \A i, j \in 1 .. Len(r) : r[i] = r[j] => i = j
<1> DEFINE k == CHOOSE i \in 1 .. Len(s) : s[i] = x
           r == list_del(s, x)
<1>1. k \in 1 .. Len(s) /\ s[k] = x /\ Len(s) \in Nat
  BY RangeMember, LenProperties
<1>2. r = SubSeq(s, 1, k - 1) \o SubSeq(s, k + 1, Len(s))
  BY DEF list_del
<1> HIDE DEF k, r
<1>3. /\ SubSeq(s, 1, k - 1) \in Seq(S)
      /\ Len(SubSeq(s, 1, k - 1)) = k - 1
      /\ \A i \in 1 .. k - 1 : SubSeq(s, 1, k - 1)[i] = s[i]
  BY <1>1
<1>4. /\ SubSeq(s, k + 1, Len(s)) \in Seq(S)
      /\ Len(SubSeq(s, k + 1, Len(s))) = Len(s) - k
      /\ \A i \in 1 .. Len(s) - k : SubSeq(s, k + 1, Len(s))[i] = s[k + i]
  BY <1>1
<1>5. /\ r \in Seq(S)
      /\ Len(r) = Len(s) - 1
      /\ \A i \in 1 .. Len(s) - 1 : r[i] = IF i < k THEN s[i] ELSE s[i + 1]
  <2> DEFINE a == SubSeq(s, 1, k - 1)
             b == SubSeq(s, k + 1, Len(s))
  <2>1. a \in Seq(S) /\ Len(a) = k - 1 /\ \A i \in 1 .. k - 1 : a[i] = s[i]
    BY <1>3
  <2>2. b \in Seq(S) /\ Len(b) = Len(s) - k
        /\ \A i \in 1 .. Len(s) - k : b[i] = s[k + i]
    BY <1>4
  <2>3. r = a \o b
    BY <1>2
  <2> HIDE DEF a, b
  <2>4. r \in Seq(S) /\ Len(r) = Len(a) + Len(b)
    <3>1. a \in Seq(S) /\ b \in Seq(S)
      BY <2>1, <2>2
    <3> QED
      BY <3>1, <2>3, ConcatProperties
  <2>5. Len(r) = Len(s) - 1
    <3>1. Len(a) = k - 1 /\ Len(b) = Len(s) - k
      BY <2>1, <2>2
    <3> QED
      BY <3>1, <2>4, <1>1
  <2>6. ASSUME NEW i \in 1 .. Len(s) - 1, i < k PROVE r[i] = s[i]
    <3>1. i \in 1 .. k - 1
      BY <2>6, <1>1
    <3>2. r[i] = a[i]
      BY <3>1, <2>1, <2>2, <2>3
    <3> QED
      BY <3>1, <3>2, <2>1
  <2>7. ASSUME NEW i \in 1 .. Len(s) - 1, ~(i < k) PROVE r[i] = s[i + 1]
    <3>1. i - k + 1 \in 1 .. Len(s) - k /\ k + (i - k + 1) = i + 1
      BY <2>7, <1>1
    <3>2. r[i] = b[i - k + 1]
      BY <2>7, <1>1, <2>1, <2>2, <2>3
    <3> QED
      BY <3>1, <3>2, <2>2
  <2> QED
    BY <2>4, <2>5, <2>6, <2>7
<1>6. \A i, j \in 1 .. Len(r) : r[i] = r[j] => i = j
  BY <1>1, <1>5
<1>7. \A y : y \in Range(r) <=> y \in Range(s) \ {x}
  <2> TAKE y
  <2>1. ASSUME y \in Range(r) PROVE y \in Range(s) \ {x}
    <3>1. PICK i \in 1 .. Len(r) : r[i] = y
      BY <2>1, <1>5, RangeMember
    <3>2. \E j \in 1 .. Len(s) : s[j] = y /\ j # k
      BY <3>1, <1>1, <1>5
    <3> QED
      BY <3>2, <1>1, RangeMember
  <2>2. ASSUME y \in Range(s), y # x PROVE y \in Range(r)
    <3>1. PICK i \in 1 .. Len(s) : s[i] = y
      BY <2>2, RangeMember
    <3>2. i # k
      BY <3>1, <2>2, <1>1
    <3>3. \E j \in 1 .. Len(r) : r[j] = y
      <4>1. CASE i < k
        BY <4>1, <3>1, <1>1, <1>5
      <4>2. CASE i > k
        <5>1. i - 1 \in 1 .. Len(s) - 1 /\ ~(i - 1 < k) /\ (i - 1) + 1 = i
          BY <4>2, <1>1
        <5> QED
          BY <5>1, <3>1, <1>5
      <4> QED
        BY <4>1, <4>2, <3>2, <1>1
    <3> QED
      BY <3>3, <1>5, RangeMember
  <2> QED
    BY <2>1, <2>2
<1> QED
  BY <1>5, <1>6, <1>7 DEF r

\* A set of naturals has a smallest element (the library states it with an
\* operator for the set).
LEMMA SmallestExists ==
  ASSUME NEW T, T \subseteq Nat, T # {}
  PROVE  \E x \in T : \A y \in T : x <= y
<1> DEFINE R == OpToRel(<, Nat)
<1>1. R = {ss \in Nat \X Nat : ss[1] < ss[2]}
  BY Zenon DEF OpToRel
<1>2. IsWellFoundedOn(R, Nat)
  BY NatLessThanWellFounded, Zenon
<1> HIDE DEF R
<1>3. PICK x \in T : \A y \in T : ~(<<y, x>> \in R)
  BY <1>2, WFMin, Zenon
<1>4. ASSUME NEW y \in T PROVE ~(y < x)
  <2>1. <<y, x>> \in Nat \X Nat /\ <<y, x>>[1] = y /\ <<y, x>>[2] = x
    OBVIOUS
  <2> QED
    BY <2>1, <1>1, <1>3, Zenon
<1> QED
  BY <1>4

\* find_set_free_slot finds a slot whose bit is clear, if there is one.
LEMMA FreeSlotFound ==
  ASSUME ~(Slots \subseteq thread_map)
  PROVE  find_set_free_slot \in Slots \ thread_map
<1> DEFINE T == Slots \ thread_map
<1>1. T \subseteq Nat /\ T # {}
  BY TlsAssumption DEF Slots
<1> HIDE DEF T
<1>2. \E x \in T : \A y \in T : x <= y
  BY <1>1, SmallestExists, Zenon
<1>3. Min(T) \in T
  BY <1>2 DEF Min
<1> QED
  BY <1>3 DEF find_set_free_slot, T

-----------------------------------------------------------------------------
(* The inductive invariant                                                 *)

Labels == {"unborn", "create", "load", "store", "post", "run", "cloning",
           "untraced", "clear", "gone", "flush", "flushing", "end", "dead",
           "sync", "syncing", "crash", "abort"}

TableTypes ==
  /\ tlsLock \in Threads \cup {None}
  /\ list \in Seq(Slots)
  /\ thread_map \subseteq Slots
  /\ slot \in [Threads -> Slots \cup {NoSlot}]
  /\ creator \in [Threads -> Threads \cup {None}]
  /\ walk \in [Threads -> Seq(Slots)]
  /\ pc \in [Threads -> Labels]

\* A thread has a slot from create_new_tls to clear_tls.
HasSlot(t) == pc[t] \notin {"unborn", "create", "abort", "gone"}

\* Between clone and the copy of the creator's tpd
Copying(t) == pc[t] \in {"create", "load", "store"}

\* Inside lock_tls and unlock_tls of a loop over the list
Looping(t) == pc[t] \in {"flush", "flushing", "syncing"}

SlotsOwned == \A t \in Threads : slot[t] # NoSlot <=> HasSlot(t)

LoopsLocked ==
  \A t \in Threads : /\ Looping(t) => tlsLock = t
                     /\ walk[t] # <<>> => tlsLock = t
                     /\ pc[t] = "flushing" => walk[t] # <<>>

CreatorsWait ==
  \A t \in Threads : Copying(t) => /\ creator[t] \in Threads
                                   /\ pc[creator[t]] = "cloning"
                                   /\ \A u \in Threads : Copying(u) /\ creator[u] = creator[t] => u = t

TableInv == TableTypes /\ SlotsOwned /\ LoopsLocked /\ CreatorsWait /\ TableAgrees

\* The invariant holds when the first thread has slot 0.
LEMMA TableInit == Init => TableInv
<1> SUFFICES ASSUME Init PROVE TableInv
  OBVIOUS
<1> USE DEF Init
<1>1. 0 \in Slots /\ NoSlot \notin Slots
  BY TlsAssumption DEF Slots, NoSlot
<1>2. TableTypes
  BY <1>1, TlsAssumption DEF TableTypes, Labels
<1>3. SlotsOwned
  BY TlsAssumption DEF SlotsOwned, HasSlot, NoSlot
<1>4. LoopsLocked
  BY DEF LoopsLocked, Looping
<1>5. CreatorsWait
  BY DEF CreatorsWait, Copying
<1>6. Range(list) = thread_map /\ \A t \in Threads : Range(walk[t]) = {}
  BY DEF Range
<1>7. thread_map = {slot[t] : t \in Threads} \ {NoSlot}
  BY TlsAssumption DEF NoSlot
<1>8. /\ \A t, u \in Threads : slot[t] = slot[u] /\ slot[t] # NoSlot => t = u
      /\ \A i, j \in 1 .. Len(list) : list[i] = list[j] => i = j
  OBVIOUS
<1> QED
  BY <1>2, <1>3, <1>4, <1>5, <1>6, <1>7, <1>8 DEF TableInv, TableAgrees

\* A step that moves one thread on and leaves slots, list, loops and the lock
\* alone keeps the invariant if the two labels agree on what a thread owns.
LEMMA LabelStep ==
  ASSUME TableInv, NEW t \in Threads, NEW l \in Labels, Goto(t, l),
         UNCHANGED <<tlsLock, list, thread_map, slot, creator, walk>>,
         pc[t] # "cloning",
         HasSlot(t)' <=> HasSlot(t),
         Copying(t)' => Copying(t),
         Looping(t)' => Looping(t),
         l = "flushing" => walk[t] # <<>>
  PROVE  TableInv'
<1> USE DEF Goto
<1>1. TableTypes'
  BY DEF TableInv, TableTypes
<1>2. pc' = [pc EXCEPT ![t] = l] /\ pc \in [Threads -> Labels]
  BY DEF TableInv, TableTypes
<1>3. SlotsOwned'
  BY <1>2 DEF TableInv, SlotsOwned, HasSlot
<1>4. LoopsLocked'
  BY <1>2 DEF TableInv, LoopsLocked, Looping
<1>5. CreatorsWait'
  BY <1>2 DEF TableInv, CreatorsWait, Copying
<1>6. TableAgrees'
  BY DEF TableInv, TableAgrees
<1> QED
  BY <1>1, <1>3, <1>4, <1>5, <1>6 DEF TableInv

\* lock_tls before a loop: the loop is over the list, and no other loop is on.
LEMMA LoopStarts ==
  ASSUME TableInv, NEW t \in Threads, NEW l \in {"flush", "syncing"}, Goto(t, l),
         pc[t] \in {"run", "sync"}, tlsLock = None, tlsLock' = t,
         walk' = [walk EXCEPT ![t] = list],
         UNCHANGED <<list, thread_map, slot, creator>>
  PROVE  TableInv'
<1>1. pc' = [pc EXCEPT ![t] = l] /\ pc \in [Threads -> Labels] /\ walk \in [Threads -> Seq(Slots)]
  BY DEF TableInv, TableTypes, Goto
<1>2. TableTypes'
  BY <1>1 DEF TableInv, TableTypes, Labels
<1>3. SlotsOwned'
  BY <1>1 DEF TableInv, SlotsOwned, HasSlot
<1>4. LoopsLocked'
  BY <1>1, TlsAssumption DEF TableInv, LoopsLocked, Looping
<1>5. CreatorsWait'
  BY <1>1 DEF TableInv, CreatorsWait, Copying
<1>6. TableAgrees'
  <2>1. ASSUME NEW u \in Threads PROVE Range(walk'[u]) \subseteq thread_map
    BY <1>1, Zenon DEF TableInv, TableAgrees
  <2> QED
    BY <2>1 DEF TableInv, TableAgrees
<1> QED
  BY <1>2, <1>3, <1>4, <1>5, <1>6 DEF TableInv

\* The loop goes to the next tpd.
LEMMA LoopGoes ==
  ASSUME TableInv, NEW t \in Threads, NEW l \in {"flush", "syncing"}, Goto(t, l),
         pc[t] \in {"flushing", "syncing"}, walk[t] # <<>>,
         walk' = [walk EXCEPT ![t] = Tail(@)],
         UNCHANGED <<tlsLock, list, thread_map, slot, creator>>
  PROVE  TableInv'
<1>1. pc' = [pc EXCEPT ![t] = l] /\ pc \in [Threads -> Labels] /\ walk \in [Threads -> Seq(Slots)]
  BY DEF TableInv, TableTypes, Goto
<1>2. Tail(walk[t]) \in Seq(Slots) /\ Range(Tail(walk[t])) \subseteq Range(walk[t])
  BY <1>1, TailSubset
<1>3. TableTypes'
  BY <1>1, <1>2 DEF TableInv, TableTypes, Labels
<1>4. SlotsOwned'
  BY <1>1 DEF TableInv, SlotsOwned, HasSlot
<1>5. LoopsLocked'
  BY <1>1 DEF TableInv, LoopsLocked, Looping
<1>6. CreatorsWait'
  BY <1>1 DEF TableInv, CreatorsWait, Copying
<1>7. TableAgrees'
  <2>1. ASSUME NEW u \in Threads PROVE Range(walk'[u]) \subseteq thread_map
    <3>1. CASE u = t
      BY <3>1, <1>1, <1>2, Zenon DEF TableInv, TableAgrees
    <3>2. CASE u # t
      BY <3>2, <1>1, Zenon DEF TableInv, TableAgrees
    <3> QED
      BY <3>1, <3>2
  <2> QED
    BY <2>1 DEF TableInv, TableAgrees
<1> QED
  BY <1>3, <1>4, <1>5, <1>6, <1>7 DEF TableInv

\* unlock_tls after a loop: only the holder was in one.
LEMMA LoopEnds ==
  ASSUME TableInv, NEW t \in Threads, NEW l \in {"end", "run"}, Goto(t, l),
         pc[t] \in {"flush", "syncing"}, walk[t] = <<>>, tlsLock' = None,
         UNCHANGED <<list, thread_map, slot, creator, walk>>
  PROVE  TableInv'
<1>1. pc' = [pc EXCEPT ![t] = l] /\ pc \in [Threads -> Labels]
  BY DEF TableInv, TableTypes, Goto
<1>2. TableTypes'
  BY <1>1 DEF TableInv, TableTypes, Labels
<1>3. SlotsOwned'
  BY <1>1 DEF TableInv, SlotsOwned, HasSlot
<1>4. LoopsLocked'
  BY <1>1, TlsAssumption DEF TableInv, LoopsLocked, Looping
<1>5. CreatorsWait'
  BY <1>1 DEF TableInv, CreatorsWait, Copying
<1>6. TableAgrees'
  BY DEF TableInv, TableAgrees
<1> QED
  BY <1>2, <1>3, <1>4, <1>5, <1>6 DEF TableInv

\* clone: the creator waits for this child and for no other.
LEMMA CloneStep ==
  ASSUME TableInv, NEW t \in Threads, NEW c \in Threads, Clone(t, c)
  PROVE  TableInv'
<1> USE DEF Clone, tables
<1>1. /\ pc' = [pc EXCEPT ![t] = "cloning", ![c] = "create"]
      /\ creator' = [creator EXCEPT ![c] = t]
      /\ pc \in [Threads -> Labels] /\ creator \in [Threads -> Threads \cup {None}]
      /\ t # c
  BY DEF TableInv, TableTypes
<1>2. TableTypes'
  BY <1>1, SMTT(30) DEF TableInv, TableTypes, Labels
<1>3. SlotsOwned'
  BY <1>1 DEF TableInv, SlotsOwned, HasSlot
<1>4. LoopsLocked'
  BY <1>1 DEF TableInv, LoopsLocked, Looping
<1>5. CreatorsWait'
  <2>1. \A u \in Threads : Copying(u)' => u = c \/ (u # t /\ Copying(u) /\ creator'[u] = creator[u])
    BY <1>1 DEF Copying
  <2>2. \A u \in Threads : Copying(u) => creator[u] # t /\ creator[u] # c
    BY DEF TableInv, CreatorsWait
  <2>3. creator'[c] = t /\ pc'[t] = "cloning"
    BY <1>1
  <2>4. \A u \in Threads : u # t /\ u # c => pc'[u] = pc[u]
    BY <1>1
  <2>5. ASSUME NEW u \in Threads, Copying(u)'
        PROVE  /\ creator'[u] \in Threads
               /\ pc'[creator'[u]] = "cloning"
               /\ \A v \in Threads : Copying(v)' /\ creator'[v] = creator'[u] => v = u
    <3>1. CASE u = c
      BY <3>1, <2>1, <2>2, <2>3
    <3>2. CASE u # c
      <4>1. Copying(u) /\ creator'[u] = creator[u]
        BY <3>2, <2>1, <2>5
      <4>2. creator[u] \in Threads /\ pc[creator[u]] = "cloning"
            /\ creator[u] # t /\ creator[u] # c
        BY <4>1, <2>2 DEF TableInv, CreatorsWait
      <4>3. ASSUME NEW v \in Threads, Copying(v)', creator'[v] = creator'[u]
            PROVE  v = u
        <5>1. v # c /\ Copying(v) /\ creator[v] = creator[u]
          BY <4>1, <4>2, <4>3, <2>1, <2>3
        <5> QED
          BY <4>1, <5>1 DEF TableInv, CreatorsWait
      <4> QED
        BY <4>1, <4>2, <4>3, <2>4, ZenonT(40)
    <3> QED
      BY <3>1, <3>2
  <2> QED
    BY <2>5, Zenon DEF CreatorsWait
<1>6. TableAgrees'
  BY DEF TableInv, TableAgrees
<1> QED
  BY <1>2, <1>3, <1>4, <1>5, <1>6 DEF TableInv

\* create_new_tls gives the child a slot nobody has.
LEMMA CreateStep ==
  ASSUME TableInv, NEW t \in Threads, create_new_tls(t)
  PROVE  TableInv'
<1>1. CASE Slots \subseteq thread_map
  <2>1. /\ Goto(t, "abort")
        /\ UNCHANGED <<tlsLock, list, thread_map, slot, creator, walk>>
        /\ pc[t] = "create"
    BY <1>1 DEF create_new_tls
  <2>2. pc'[t] = "abort" /\ "abort" \in Labels
    BY <2>1 DEF Goto, TableInv, TableTypes, Labels
  <2> QED
    BY <2>1, <2>2, LabelStep DEF HasSlot, Copying, Looping
<1>2. CASE ~(Slots \subseteq thread_map)
  <2> DEFINE n == find_set_free_slot
  <2>1. n \in Slots \ thread_map
    BY <1>2, FreeSlotFound
  <2>2. /\ thread_map' = thread_map \cup {n}
        /\ list' = <<n>> \o list
        /\ slot' = [slot EXCEPT ![t] = n]
        /\ pc' = [pc EXCEPT ![t] = "load"]
        /\ pc[t] = "create"
        /\ UNCHANGED <<tlsLock, creator, walk>>
    BY <1>2 DEF create_new_tls, Goto
  <2> HIDE DEF n
  <2>3. /\ pc \in [Threads -> Labels] /\ slot \in [Threads -> Slots \cup {NoSlot}]
        /\ list \in Seq(Slots)
    BY DEF TableInv, TableTypes
  <2>4. n # NoSlot
    BY <2>1, TlsAssumption DEF Slots, NoSlot
  <2>5. slot[t] = NoSlot
    BY <2>2 DEF TableInv, SlotsOwned, HasSlot
  <2>6. /\ list' \in Seq(Slots)
        /\ Range(list') = thread_map'
        /\ \A i, j \in 1 .. Len(list') : list'[i] = list'[j] => i = j
    <3>1. /\ Range(list) = thread_map
          /\ \A i, j \in 1 .. Len(list) : list[i] = list[j] => i = j
      BY DEF TableInv, TableAgrees
    <3> QED
      BY <2>1, <2>2, <2>3, <3>1, Linked
  <2>7. TableTypes'
    BY <2>1, <2>2, <2>6 DEF TableInv, TableTypes, Labels
  <2>8. SlotsOwned'
    BY <2>2, <2>3, <2>4 DEF TableInv, SlotsOwned, HasSlot
  <2>9. LoopsLocked'
    BY <2>2, <2>3 DEF TableInv, LoopsLocked, Looping
  <2>10. CreatorsWait'
    BY <2>2, <2>3 DEF TableInv, CreatorsWait, Copying
  <2>11. \A u \in Threads : slot[u] # n
    BY <2>1, <2>4 DEF TableInv, TableAgrees
  <2>12. \A u, v \in Threads : slot'[u] = slot'[v] /\ slot'[u] # NoSlot => u = v
    BY <2>2, <2>3, <2>11 DEF TableInv, TableAgrees
  <2>13. thread_map' = {slot'[u] : u \in Threads} \ {NoSlot}
    <3>1. thread_map = {slot[u] : u \in Threads} \ {NoSlot}
      BY DEF TableInv, TableAgrees
    <3>2. slot'[t] = n /\ \A u \in Threads : u # t => slot'[u] = slot[u]
      BY <2>2, <2>3
    <3> QED
      BY <3>1, <3>2, <2>2, <2>4, <2>5
  <2>14. \A u \in Threads : Range(walk'[u]) \subseteq thread_map'
    BY <2>2 DEF TableInv, TableAgrees
  <2> QED
    BY <2>6, <2>7, <2>8, <2>9, <2>10, <2>12, <2>13, <2>14, ZenonT(40) DEF TableInv, TableAgrees
<1> QED
  BY <1>1, <1>2

\* copy_init_base_tpd ends: the creator that waited for this child goes on.
LEMMA CopyStep ==
  ASSUME TableInv, NEW t \in Threads, CopyStores(t)
  PROVE  TableInv'
<1> DEFINE c == creator[t]
<1>1. /\ pc' = [pc EXCEPT ![t] = "post", ![c] = "run"]
      /\ pc[t] = "store"
      /\ UNCHANGED <<tlsLock, list, thread_map, slot, creator, walk>>
  BY DEF CopyStores
<1>2. /\ c \in Threads /\ pc[c] = "cloning" /\ c # t
      /\ \A u \in Threads : Copying(u) /\ creator[u] = c => u = t
  BY <1>1 DEF TableInv, CreatorsWait, Copying
<1> HIDE DEF c
<1>3. pc \in [Threads -> Labels]
  BY DEF TableInv, TableTypes
<1>4. TableTypes'
  BY <1>1, <1>2, Zenon DEF TableInv, TableTypes, Labels
<1>5. SlotsOwned'
  BY <1>1, <1>2, <1>3 DEF TableInv, SlotsOwned, HasSlot
<1>6. LoopsLocked'
  BY <1>1, <1>2, <1>3 DEF TableInv, LoopsLocked, Looping
<1>7. CreatorsWait'
  <2>1. \A u \in Threads : Copying(u)' => u # t /\ u # c /\ Copying(u)
    BY <1>1, <1>2, <1>3 DEF Copying
  <2>2. \A u \in Threads : u # t /\ u # c => pc'[u] = pc[u]
    BY <1>1, <1>2, <1>3
  <2>3. \A u \in Threads : Copying(u)' => creator[u] # t /\ creator[u] # c
    BY <2>1, <1>1, <1>2 DEF TableInv, CreatorsWait
  <2> QED
    BY <1>1, <2>1, <2>2, <2>3, ZenonT(40) DEF TableInv, CreatorsWait
<1>8. TableAgrees'
  BY <1>1 DEF TableInv, TableAgrees
<1> QED
  BY <1>4, <1>5, <1>6, <1>7, <1>8 DEF TableInv

\* clear_tls takes the slot of the thread off the list and out of the map;
\* no loop is on, for the lock was free.
LEMMA ClearStep ==
  ASSUME TableInv, NEW t \in Threads, clear_tls(t)
  PROVE  TableInv'
<1>1. /\ pc[t] = "clear" /\ tlsLock = None
      /\ list' = list_del(list, slot[t])
      /\ thread_map' = thread_map \ {slot[t]}
      /\ slot' = [slot EXCEPT ![t] = NoSlot]
      /\ pc' = [pc EXCEPT ![t] = "gone"]
      /\ UNCHANGED <<tlsLock, creator, walk>>
  BY DEF clear_tls, Goto
<1>2. /\ pc \in [Threads -> Labels] /\ slot \in [Threads -> Slots \cup {NoSlot}]
      /\ list \in Seq(Slots)
  BY DEF TableInv, TableTypes
<1>3. slot[t] # NoSlot
  BY <1>1 DEF TableInv, SlotsOwned, HasSlot
<1>4. thread_map = {slot[u] : u \in Threads} \ {NoSlot}
  BY DEF TableInv, TableAgrees
<1>5. /\ list' \in Seq(Slots)
      /\ Range(list') = thread_map'
      /\ \A i, j \in 1 .. Len(list') : list'[i] = list'[j] => i = j
  <2>1. /\ Range(list) = thread_map
        /\ \A i, j \in 1 .. Len(list) : list[i] = list[j] => i = j
    BY DEF TableInv, TableAgrees
  <2>2. slot[t] \in Range(list)
    BY <1>3, <1>4, <2>1
  <2> QED
    BY <1>1, <1>2, <2>1, <2>2, Unlinked
<1>6. TableTypes'
  BY <1>1, <1>5 DEF TableInv, TableTypes, Labels
<1>7. SlotsOwned'
  BY <1>1, <1>2 DEF TableInv, SlotsOwned, HasSlot
<1>8. LoopsLocked'
  BY <1>1, <1>2, SMTT(30) DEF TableInv, LoopsLocked, Looping
<1>9. CreatorsWait'
  BY <1>1, <1>2 DEF TableInv, CreatorsWait, Copying
<1>10. \A u, v \in Threads : slot'[u] = slot'[v] /\ slot'[u] # NoSlot => u = v
  BY <1>1, <1>2 DEF TableInv, TableAgrees
<1>11. thread_map' = {slot'[u] : u \in Threads} \ {NoSlot}
  <2>1. slot'[t] = NoSlot /\ \A u \in Threads : u # t => slot'[u] = slot[u]
    BY <1>1, <1>2
  <2>2. \A u \in Threads : u # t => slot[u] # slot[t]
    BY <1>3 DEF TableInv, TableAgrees
  <2> QED
    BY <1>1, <1>4, <2>1, <2>2
<1>12. \A u \in Threads : Range(walk'[u]) \subseteq thread_map'
  <2>1. \A u \in Threads : walk'[u] = <<>>
    BY <1>1, TlsAssumption DEF TableInv, LoopsLocked
  <2>2. Range(<<>>) = {}
    BY DEF Range
  <2> QED
    BY <2>1, <2>2, SMTT(30)
<1> QED
  BY <1>5, <1>6, <1>7, <1>8, <1>9, <1>10, <1>11, <1>12, Zenon DEF TableInv, TableAgrees

\* Every step of every thread keeps the invariant.
LEMMA TableStep == TableInv /\ [Next]_vars => TableInv'
<1>1. ASSUME TableInv, UNCHANGED vars PROVE TableInv'
  BY <1>1 DEF TableInv, TableTypes, SlotsOwned, HasSlot, LoopsLocked, Looping,
              CreatorsWait, Copying, TableAgrees, vars, tables
<1>2. ASSUME TableInv, NEW t \in Threads, Step(t) PROVE TableInv'
  <2> USE <1>2
  <2>1. pc \in [Threads -> Labels]
    BY DEF TableInv, TableTypes
  <2>2. CASE create_new_tls(t)
    BY <2>2, CreateStep
  <2>3. CASE CopyLoads(t)
    BY <2>1, <2>3, LabelStep, ZenonT(40) DEF CopyLoads, Goto, HasSlot, Copying, Looping, Labels
  <2>4. CASE CopyStores(t)
    BY <2>4, CopyStep
  <2>5. CASE clone_post_child(t)
    <3>1. PICK l \in {"untraced", "run"} : Goto(t, l)
      BY <2>5 DEF clone_post_child
    <3> QED
      BY <2>1, <2>5, <3>1, LabelStep, ZenonT(40)
         DEF clone_post_child, Goto, HasSlot, Copying, Looping, Labels
  <2>6. CASE clear_tls(t)
    BY <2>6, ClearStep
  <2>7. CASE FlushOneStarts(t)
    <3>1. PICK l \in {"flushing", "crash"} : Goto(t, l)
      BY <2>7 DEF FlushOneStarts
    <3> QED
      BY <2>1, <2>7, <3>1, LabelStep, ZenonT(40)
         DEF FlushOneStarts, tables, Goto, HasSlot, Copying, Looping, Labels
  <2>8. CASE FlushOneEnds(t)
    <3>1. walk[t] # <<>>
      BY <2>8 DEF FlushOneEnds, TableInv, LoopsLocked
    <3> QED
      BY <2>8, <3>1, LoopGoes, ZenonT(40) DEF FlushOneEnds, tables
  <2>9. CASE FlushAllEnds(t)
    BY <2>9, LoopEnds DEF FlushAllEnds
  <2>10. CASE ProcessEnds(t)
    BY <2>1, <2>10, LabelStep, ZenonT(40)
       DEF ProcessEnds, tables, Goto, HasSlot, Copying, Looping, Labels
  <2>11. CASE SyncStarts(t)
    BY <2>11, LoopStarts, Zenon DEF SyncStarts
  <2>12. CASE SyncOne(t)
    <3>1. Goto(t, "syncing")
      BY <2>1, <2>12, SMTT(30) DEF SyncOne, Goto
    <3> QED
      BY <2>12, <3>1, LoopGoes, ZenonT(40) DEF SyncOne
  <2>13. CASE SyncEnds(t)
    BY <2>13, LoopEnds DEF SyncEnds
  <2>14. CASE FreeBuffers(t)
    <3>1. PICK l \in {"crash", "clear"} : Goto(t, l)
      BY <2>14 DEF FreeBuffers
    <3> QED
      BY <2>1, <2>14, <3>1, LabelStep, ZenonT(40)
         DEF FreeBuffers, Goto, HasSlot, Copying, Looping, Labels
  <2>15. CASE FlushAllStarts(t)
    BY <2>15, LoopStarts, Zenon DEF FlushAllStarts
  <2>16. CASE \E c \in Threads : Clone(t, c)
    BY <2>16, CloneStep
  <2>17. CASE \E h \in Handlers : pre_rt_sigaction(t, h)
    BY <2>1, <2>17, LabelStep, ZenonT(40)
       DEF pre_rt_sigaction, Goto, HasSlot, Copying, Looping, Labels
  <2> QED
    BY <2>2, <2>3, <2>4, <2>5, <2>6, <2>7, <2>8, <2>9, <2>10, <2>11, <2>12,
       <2>13, <2>14, <2>15, <2>16, <2>17, SMTT(30) DEF Step, Inner
<1> QED
  BY <1>1, <1>2 DEF Next

\* The slots of threads, the list and the loops stay in the invariant.
THEOREM TableInvariant == Spec => []TableInv
BY TableInit, TableStep, PTL DEF Spec

\* For any number of threads and of LDT entries: the bits of thread_map are the
\* slots of the threads, no two have the same, tpd_list_head links each once,
\* and a loop over the list meets no tpd that is gone (tls.c).
THEOREM TableAgreesHolds == Spec => []TableAgrees
<1>1. TableInv => TableAgrees
  BY DEF TableInv
<1> QED
  BY <1>1, TableInvariant, PTL

-----------------------------------------------------------------------------
(* HandlersShared                                                          *)

\* The thread's own tpd holds what rt_sigaction has installed: it exists, and the
\* creator's entries have been copied into it.
Settled(t) == slot[t] # NoSlot /\ pc[t] \notin {"load", "store"}

\* Every tpd holds the handler v, and so does every copy on its way into one.
Shared(v) ==
  \A t \in Threads : /\ Settled(t) => sigaction[slot[t]] = v
                     /\ pc[t] = "store" => loaded[t] = v

InSync(t) == pc[t] \in {"sync", "syncing"}

\* A thread in rt_sigaction is the only one, and no thread starts.
Alone == \A t, u \in Threads : InSync(t) /\ (InSync(u) \/ Copying(u)) => u = t

\* Behind the loop of sync_sighandler all tpds hold the thread's handler.
Synced ==
  \A t \in Threads : pc[t] = "syncing" =>
    \A s \in thread_map \ Range(walk[t]) : sigaction[s] = sigaction[slot[t]]

HandlerTypes ==
  /\ sigaction \in [Slots -> Handlers \cup {Default}]
  /\ loaded \in [Threads -> Handlers \cup {Default}]

SharedInv ==
  /\ HandlerTypes
  /\ ~raced => /\ Alone
               /\ (\A t \in Threads : ~InSync(t)) => \E v \in Handlers \cup {Default} : Shared(v)
               /\ Synced

\* Slots of the threads are slots, and the threads that are in use of the table
\* have one.
LEMMA SlotFacts ==
  ASSUME TableInv
  PROVE  /\ \A t \in Threads : slot[t] # NoSlot => slot[t] \in Slots /\ slot[t] \in thread_map
         /\ \A s \in thread_map : \E t \in Threads : slot[t] = s /\ s # NoSlot
         /\ \A t, u \in Threads : slot[t] = slot[u] /\ slot[t] # NoSlot => t = u
         /\ pc \in [Threads -> Labels] /\ walk \in [Threads -> Seq(Slots)]
         /\ slot \in [Threads -> Slots \cup {NoSlot}]
         /\ Range(list) = thread_map
BY DEF TableInv, TableTypes, TableAgrees

\* Before any rt_sigaction every tpd holds the default.
LEMMA SharedInit == Init => SharedInv
<1> SUFFICES ASSUME Init PROVE SharedInv
  OBVIOUS
<1>1. TableInv
  BY TableInit
<1>2. HandlerTypes
  BY DEF Init, HandlerTypes
<1>3. \A t \in Threads : pc[t] \in {"run", "unborn"}
  BY DEF Init
<1>4. Alone /\ Synced
  BY <1>3 DEF Alone, Synced, InSync, Copying
<1>5. Shared(Default)
  <2>1. \A t \in Threads : Settled(t) => slot[t] \in Slots
    BY <1>1, SlotFacts, SMTT(30) DEF Settled
  <2> QED
    BY <2>1, <1>3 DEF Shared, Init
<1> QED
  BY <1>2, <1>4, <1>5 DEF SharedInv

\* A step that leaves the handlers alone keeps them shared, if nobody gets a new
\* tpd or a new copy by it and no loop over the list goes on.
LEMMA SharedKept ==
  ASSUME TableInv, SharedInv, ~raced, UNCHANGED <<sigaction, loaded>>,
         thread_map' \subseteq thread_map,
         \A u \in Threads : /\ Settled(u)' => Settled(u) /\ slot'[u] = slot[u]
                            /\ pc'[u] = "store" => pc[u] = "store"
                            /\ InSync(u) => InSync(u)'
                            /\ pc'[u] = "syncing" => /\ pc[u] = "syncing"
                                                     /\ walk'[u] = walk[u]
                                                     /\ slot'[u] = slot[u]
  PROVE  /\ (\A t \in Threads : ~InSync(t)') => \E v \in Handlers \cup {Default} : Shared(v)'
         /\ Synced'
<1>1. ASSUME \A t \in Threads : ~InSync(t)'
      PROVE  \E v \in Handlers \cup {Default} : Shared(v)'
  <2>1. PICK v \in Handlers \cup {Default} : Shared(v)
    BY <1>1, SMTT(30) DEF SharedInv
  <2>2. Shared(v)'
    BY <2>1, SMTT(30) DEF Shared
  <2> QED
    BY <2>2, SMTT(30)
<1>2. Synced'
  <2>1. Synced
    BY DEF SharedInv
  <2> QED
    BY <2>1 DEF Synced
<1> QED
  BY <1>1, <1>2, SMTT(30)

\* create_new_tls writes the default into a tpd that is nobody's yet.
LEMMA SharedCreate ==
  ASSUME TableInv, SharedInv, ~raced, NEW t \in Threads, create_new_tls(t),
         ~(Slots \subseteq thread_map)
  PROVE  /\ (\A u \in Threads : ~InSync(u)') => \E v \in Handlers \cup {Default} : Shared(v)'
         /\ Synced'
<1> DEFINE n == find_set_free_slot
<1>1. n \in Slots \ thread_map
  BY FreeSlotFound
<1>2. /\ slot' = [slot EXCEPT ![t] = n]
      /\ pc' = [pc EXCEPT ![t] = "load"]
      /\ sigaction' = [sigaction EXCEPT ![n] = Default]
      /\ pc[t] = "create"
      /\ UNCHANGED <<loaded, walk>>
  BY DEF create_new_tls, Goto
<1> HIDE DEF n
<1>3. HandlerTypes /\ Alone
  BY DEF SharedInv
<1>4. \A u \in Threads : ~InSync(u)
  BY <1>2, <1>3 DEF Alone, InSync, Copying
<1>5. \A u \in Threads : u # t => pc'[u] = pc[u] /\ slot'[u] = slot[u]
  BY <1>2, SlotFacts
<1>6. pc'[t] = "load" /\ slot'[t] = n
  BY <1>2, SlotFacts
<1>7. \A u \in Threads : slot[u] # NoSlot => slot[u] # n /\ slot[u] \in Slots
  BY <1>1, SlotFacts
<1>8. \A s \in Slots : s # n => sigaction'[s] = sigaction[s]
  BY <1>2, <1>3 DEF HandlerTypes
<1>9. PICK v \in Handlers \cup {Default} : Shared(v)
  BY <1>4 DEF SharedInv
<1>10. Shared(v)'
  <2>1. ASSUME NEW u \in Threads
        PROVE  /\ Settled(u)' => sigaction'[slot'[u]] = v
               /\ pc'[u] = "store" => loaded'[u] = v
    <3>1. CASE u = t
      BY <3>1, <1>6 DEF Settled
    <3>2. CASE u # t
      BY <3>2, <1>2, <1>5, <1>7, <1>8, <1>9 DEF Settled, Shared
    <3> QED
      BY <3>1, <3>2
  <2> QED
    BY <2>1 DEF Shared
<1>11. Synced'
  BY <1>4, <1>5, <1>6 DEF Synced, InSync
<1> QED
  BY <1>10, <1>11

\* The load of copy_init_base_tpd finds the shared handler in the creator's tpd.
LEMMA SharedLoad ==
  ASSUME TableInv, SharedInv, ~raced, NEW t \in Threads, CopyLoads(t)
  PROVE  /\ (\A u \in Threads : ~InSync(u)') => \E v \in Handlers \cup {Default} : Shared(v)'
         /\ Synced'
<1>1. /\ loaded' = [loaded EXCEPT ![t] = sigaction[slot[creator[t]]]]
      /\ pc' = [pc EXCEPT ![t] = "store"]
      /\ pc[t] = "load"
      /\ UNCHANGED <<sigaction, walk, slot>>
  BY DEF CopyLoads, Goto
<1>2. HandlerTypes /\ Alone
  BY DEF SharedInv
<1>3. \A u \in Threads : ~InSync(u)
  BY <1>1, <1>2 DEF Alone, InSync, Copying
<1>4. \A u \in Threads : u # t => pc'[u] = pc[u] /\ loaded'[u] = loaded[u]
  BY <1>1, <1>2, SlotFacts, SMTT(30) DEF HandlerTypes
<1>5. pc'[t] = "store" /\ loaded'[t] = sigaction[slot[creator[t]]]
  BY <1>1, <1>2, SlotFacts DEF HandlerTypes
<1>6. PICK v \in Handlers \cup {Default} : Shared(v)
  BY <1>3 DEF SharedInv
<1>7. creator[t] \in Threads /\ Settled(creator[t])
  BY <1>1, SMTT(30) DEF TableInv, CreatorsWait, Copying, SlotsOwned, HasSlot, Settled
<1>8. Shared(v)'
  <2>1. ASSUME NEW u \in Threads
        PROVE  /\ Settled(u)' => sigaction'[slot'[u]] = v
               /\ pc'[u] = "store" => loaded'[u] = v
    <3>1. CASE u = t
      BY <3>1, <1>5, <1>6, <1>7 DEF Settled, Shared
    <3>2. CASE u # t
      BY <3>2, <1>1, <1>4, <1>6 DEF Settled, Shared
    <3> QED
      BY <3>1, <3>2
  <2> QED
    BY <2>1, SMTT(30) DEF Shared
<1>9. Synced'
  BY <1>3, <1>4, <1>5 DEF Synced, InSync
<1> QED
  BY <1>8, <1>9

\* Its store makes the child's tpd one of those that hold it.
LEMMA SharedStore ==
  ASSUME TableInv, SharedInv, ~raced, NEW t \in Threads, CopyStores(t)
  PROVE  /\ (\A u \in Threads : ~InSync(u)') => \E v \in Handlers \cup {Default} : Shared(v)'
         /\ Synced'
<1> DEFINE c == creator[t]
<1>1. /\ sigaction' = [sigaction EXCEPT ![slot[t]] = loaded[t]]
      /\ pc' = [pc EXCEPT ![t] = "post", ![c] = "run"]
      /\ pc[t] = "store"
      /\ UNCHANGED <<loaded, walk, slot>>
  BY DEF CopyStores
<1>2. HandlerTypes /\ Alone
  BY DEF SharedInv
<1>3. \A u \in Threads : ~InSync(u)
  BY <1>1, <1>2 DEF Alone, InSync, Copying
<1>4. c \in Threads /\ pc[c] = "cloning" /\ c # t /\ slot[t] # NoSlot
  BY <1>1 DEF TableInv, CreatorsWait, Copying, SlotsOwned, HasSlot
<1> HIDE DEF c
<1>5. /\ \A u \in Threads : u # t /\ u # c => pc'[u] = pc[u]
      /\ pc'[t] = "post" /\ pc'[c] = "run"
  BY <1>1, <1>4, SlotFacts
<1>6. /\ \A s \in Slots : s # slot[t] => sigaction'[s] = sigaction[s]
      /\ sigaction'[slot[t]] = loaded[t]
  BY <1>1, <1>2, <1>4, SlotFacts, SMTT(30) DEF HandlerTypes
<1>7. PICK v \in Handlers \cup {Default} : Shared(v)
  BY <1>3 DEF SharedInv
<1>8. Shared(v)'
  <2>1. ASSUME NEW u \in Threads
        PROVE  /\ Settled(u)' => sigaction'[slot'[u]] = v
               /\ pc'[u] = "store" => loaded'[u] = v
    <3>1. CASE u = t
      BY <3>1, <1>1, <1>5, <1>6, <1>7, SMTT(30) DEF Shared
    <3>2. CASE u # t
      <4>1. pc'[u] = pc[u] \/ (pc[u] = "cloning" /\ pc'[u] = "run")
        BY <3>2, <1>4, <1>5
      <4>2. slot[u] # NoSlot => slot[u] \in Slots /\ slot[u] # slot[t]
        BY <3>2, SlotFacts
      <4> QED
        BY <4>1, <4>2, <1>1, <1>6, <1>7 DEF Settled, Shared
    <3> QED
      BY <3>1, <3>2
  <2> QED
    BY <2>1 DEF Shared
<1>9. Synced'
  BY <1>3, <1>4, <1>5 DEF Synced, InSync
<1> QED
  BY <1>8, <1>9

\* In the loop of sync_sighandler one more tpd gets the thread's handler.
LEMMA SharedSync ==
  ASSUME TableInv, SharedInv, ~raced, NEW t \in Threads, SyncOne(t)
  PROVE  Synced'
<1>1. /\ sigaction' = [sigaction EXCEPT ![Head(walk[t])] = sigaction[slot[t]]]
      /\ walk' = [walk EXCEPT ![t] = Tail(@)]
      /\ pc[t] = "syncing"
      /\ walk[t] # <<>>
      /\ UNCHANGED <<thread_map, slot, pc>>
  BY DEF SyncOne
<1>2. HandlerTypes /\ Alone /\ Synced
  BY DEF SharedInv
<1>3. walk[t] \in Seq(Slots) /\ walk'[t] = Tail(walk[t])
  BY <1>1, SlotFacts
<1>4. \A s \in Range(walk[t]) : s = Head(walk[t]) \/ s \in Range(Tail(walk[t]))
  BY <1>1, <1>3, TailRest
<1>5. slot[t] \in Slots /\ thread_map \subseteq Slots
  BY <1>1, SlotFacts, Zenon DEF TableInv, SlotsOwned, HasSlot, TableTypes
<1>6. Head(walk[t]) \in Slots
  BY <1>1, <1>3
<1>7. \A s \in Slots : sigaction'[s] = IF s = Head(walk[t]) THEN sigaction[slot[t]] ELSE sigaction[s]
  BY <1>1, <1>2, <1>6 DEF HandlerTypes
<1>8. sigaction'[slot[t]] = sigaction[slot[t]]
  BY <1>5, <1>7
<1>9. ASSUME NEW s \in thread_map \ Range(Tail(walk[t]))
      PROVE  sigaction'[s] = sigaction[slot[t]]
  <2>1. CASE s = Head(walk[t])
    BY <2>1, <1>6, <1>7
  <2>2. CASE s # Head(walk[t])
    <3>1. s \in thread_map \ Range(walk[t])
      BY <2>2, <1>4
    <3>2. sigaction[s] = sigaction[slot[t]]
      BY <3>1, <1>1, <1>2 DEF Synced
    <3> QED
      BY <2>2, <3>2, <1>5, <1>7
  <2> QED
    BY <2>1, <2>2
<1>10. \A u \in Threads : pc[u] = "syncing" => u = t
  BY <1>1, <1>2 DEF Alone, InSync
<1> QED
  BY <1>1, <1>3, <1>8, <1>9, <1>10 DEF Synced

\* Handlers stay well typed.
LEMMA HandlersTyped ==
  ASSUME TableInv, HandlerTypes, NEW t \in Threads, Step(t)
  PROVE  HandlerTypes'
<1>1. \A s \in Slots : sigaction[s] \in Handlers \cup {Default}
  BY DEF HandlerTypes
<1>2. \A u \in Threads : loaded[u] \in Handlers \cup {Default}
  BY DEF HandlerTypes
<1>3. CASE create_new_tls(t)
  BY <1>3, SMTT(30) DEF create_new_tls, HandlerTypes
<1>4. CASE CopyLoads(t)
  <2>1. slot[creator[t]] \in Slots
    BY <1>4, SlotFacts, Zenon DEF CopyLoads, TableInv, CreatorsWait, Copying, SlotsOwned, HasSlot
  <2> QED
    BY <1>1, <1>4, <2>1 DEF CopyLoads, HandlerTypes
<1>5. CASE CopyStores(t)
  BY <1>2, <1>5, Zenon DEF CopyStores, HandlerTypes
<1>6. CASE SyncOne(t)
  <2>1. slot[t] \in Slots
    BY <1>6, SlotFacts, Zenon DEF SyncOne, TableInv, SlotsOwned, HasSlot
  <2> QED
    BY <1>1, <1>6, <2>1, Zenon DEF SyncOne, HandlerTypes
<1>7. CASE \E h \in Handlers : pre_rt_sigaction(t, h)
  BY <1>7, Zenon DEF pre_rt_sigaction, HandlerTypes
<1>8. CASE UNCHANGED <<sigaction, loaded>>
  BY <1>8 DEF HandlerTypes
<1> QED
  BY <1>3, <1>4, <1>5, <1>6, <1>7, <1>8, Zenon
     DEF Step, Inner, clone_post_child, clear_tls, FlushOneStarts, FlushOneEnds, FlushAllEnds,
         ProcessEnds, SyncStarts, SyncEnds, FreeBuffers, FlushAllStarts, Clone, tables

\* Every step keeps the handlers shared, or the history says that two overlapped.
LEMMA SharedStep == TableInv /\ SharedInv /\ [Next]_vars => SharedInv'
<1>1. ASSUME SharedInv, UNCHANGED vars PROVE SharedInv'
  BY <1>1, Zenon DEF SharedInv, HandlerTypes, Alone, InSync, Copying, Shared, Settled, Synced,
     vars, tables
<1>2. ASSUME TableInv, SharedInv, Next PROVE SharedInv'
  <2>1. PICK t \in Threads : Step(t)
    BY <1>2 DEF Next
  <2>2. HandlerTypes'
    BY <1>2, <2>1, HandlersTyped, SMTT(30) DEF SharedInv
  <2>3. ASSUME ~raced'
        PROVE  /\ Alone'
               /\ (\A u \in Threads : ~InSync(u)') => \E v \in Handlers \cup {Default} : Shared(v)'
               /\ Synced'
    <3>1. ~raced /\ ~Overlap'
      BY <1>2, <2>3, ZenonT(40) DEF Next
    <3>2. Alone'
      BY <3>1 DEF Overlap, Syncing, Starting, Alone, InSync, Copying
    <3> USE <1>2, <2>1, <3>1
    <3>3. pc \in [Threads -> Labels]
      BY SlotFacts
    <3>4. CASE create_new_tls(t)
      <4>1. CASE Slots \subseteq thread_map
        <5>1. /\ pc' = [pc EXCEPT ![t] = "abort"] /\ pc[t] = "create"
              /\ UNCHANGED <<sigaction, loaded, thread_map, slot, walk>>
          BY <3>4, <4>1 DEF create_new_tls, Goto
        <5> QED
          BY <3>2, <3>3, <5>1, SharedKept DEF Settled, InSync
      <4> QED
        BY <3>2, <3>4, <4>1, SharedCreate, SMTT(30)
    <3>5. CASE CopyLoads(t)
      BY <3>2, <3>5, SharedLoad
    <3>6. CASE CopyStores(t)
      BY <3>2, <3>6, SharedStore, SMTT(30)
    <3>7. CASE clone_post_child(t)
      <4>1. PICK l \in {"untraced", "run"} : pc' = [pc EXCEPT ![t] = l]
        BY <3>7 DEF clone_post_child, Goto
      <4>2. /\ pc[t] = "post" /\ UNCHANGED <<sigaction, loaded, thread_map, slot, walk>>
        BY <3>7 DEF clone_post_child
      <4> QED
        BY <3>2, <3>3, <4>1, <4>2, SharedKept DEF Settled, InSync
    <3>8. CASE clear_tls(t)
      <4>1. /\ pc' = [pc EXCEPT ![t] = "gone"] /\ pc[t] = "clear"
            /\ slot' = [slot EXCEPT ![t] = NoSlot]
            /\ thread_map' \subseteq thread_map
            /\ UNCHANGED <<sigaction, loaded, walk>>
        BY <3>8 DEF clear_tls, Goto
      <4>2. slot \in [Threads -> Slots \cup {NoSlot}]
        BY SlotFacts, SMTT(30)
      <4> QED
        BY <3>2, <3>3, <4>1, <4>2, SharedKept DEF Settled, InSync
    <3>9. CASE FlushOneStarts(t) \/ FreeBuffers(t)
      <4>1. PICK l \in {"flushing", "crash", "clear"} : pc' = [pc EXCEPT ![t] = l]
        BY <3>9, SMTT(30) DEF FlushOneStarts, FreeBuffers, Goto
      <4>2. /\ pc[t] \in {"flush", "run"} /\ UNCHANGED <<sigaction, loaded, thread_map, slot, walk>>
        BY <3>9, SMTT(30) DEF FlushOneStarts, FreeBuffers, tables
      <4> QED
        BY <3>2, <3>3, <4>1, <4>2, SharedKept, SMTT(30) DEF Settled, InSync
    <3>10. CASE FlushOneEnds(t) \/ FlushAllEnds(t) \/ ProcessEnds(t) \/ FlushAllStarts(t)
      <4>1. PICK l \in {"flush", "end", "dead"} : pc' = [pc EXCEPT ![t] = l]
        BY <3>10 DEF FlushOneEnds, FlushAllEnds, ProcessEnds, FlushAllStarts, Goto
      <4>2. /\ pc[t] \in {"flushing", "flush", "end", "run"}
            /\ UNCHANGED <<sigaction, loaded, thread_map, slot>>
        BY <3>10, SMTT(30) DEF FlushOneEnds, FlushAllEnds, ProcessEnds, FlushAllStarts, tables
      <4>3. \A u \in Threads : u # t => walk'[u] = walk[u]
        BY <3>10, SlotFacts, SMTT(30) DEF FlushOneEnds, FlushAllEnds, ProcessEnds, FlushAllStarts, tables
      <4> QED
        BY <3>2, <3>3, <4>1, <4>2, <4>3, SharedKept DEF Settled, InSync
    <3>11. CASE \E c \in Threads : Clone(t, c)
      <4>1. PICK c \in Threads : Clone(t, c)
        BY <3>11
      <4>2. /\ pc' = [pc EXCEPT ![t] = "cloning", ![c] = "create"]
            /\ pc[t] = "run" /\ pc[c] = "unborn"
            /\ UNCHANGED <<sigaction, loaded, thread_map, slot, walk>>
        BY <4>1 DEF Clone, tables
      <4>3. slot[c] = NoSlot
        BY <4>2 DEF TableInv, SlotsOwned, HasSlot
      <4> QED
        BY <3>2, <3>3, <4>2, <4>3, SharedKept DEF Settled, InSync
    <3>12. CASE \E h \in Handlers : pre_rt_sigaction(t, h)
      <4>1. pc' = [pc EXCEPT ![t] = "sync"]
        BY <3>12 DEF pre_rt_sigaction, Goto
      <4>2. InSync(t)' /\ pc'[t] = "sync"
        BY <3>3, <4>1 DEF InSync
      <4>3. Synced'
        BY <3>2, <4>2 DEF Alone, Synced, InSync
      <4> QED
        BY <3>2, <4>2, <4>3
    <3>13. CASE SyncStarts(t)
      <4>1. /\ pc' = [pc EXCEPT ![t] = "syncing"] /\ walk' = [walk EXCEPT ![t] = list]
            /\ UNCHANGED thread_map
        BY <3>13 DEF SyncStarts, Goto
      <4>2. InSync(t)' /\ walk'[t] = list
        BY <3>3, <4>1, SlotFacts DEF InSync
      <4>3. Synced'
        <5>1. \A u \in Threads : pc'[u] = "syncing" => u = t
          BY <3>2, <4>2 DEF Alone, InSync
        <5>2. thread_map' \ Range(walk'[t]) = {}
          BY <4>1, <4>2, SlotFacts
        <5> QED
          BY <5>1, <5>2 DEF Synced
      <4> QED
        BY <3>2, <4>2, <4>3
    <3>14. CASE SyncOne(t)
      <4>1. InSync(t)'
        BY <3>14, SMTT(30) DEF SyncOne, InSync
      <4> QED
        BY <3>2, <3>14, <4>1, SharedSync
    <3>15. CASE SyncEnds(t)
      <4>1. /\ pc' = [pc EXCEPT ![t] = "run"] /\ pc[t] = "syncing" /\ walk[t] = <<>>
            /\ UNCHANGED <<sigaction, loaded, thread_map, slot, walk>>
        BY <3>15 DEF SyncEnds, Goto
      <4>2. HandlerTypes /\ Alone /\ Synced
        BY SMTT(30) DEF SharedInv
      <4>3. \A u \in Threads : u # t => pc'[u] = pc[u] /\ ~InSync(u) /\ ~Copying(u)
        BY <3>3, <4>1, <4>2, SMTT(30) DEF Alone, InSync
      <4>4. pc'[t] = "run"
        BY <3>3, <4>1
      <4>5. thread_map \ Range(walk[t]) = thread_map
        BY <4>1 DEF Range
      <4>6. \A s \in thread_map : sigaction[s] = sigaction[slot[t]]
        BY <4>1, <4>2, <4>5 DEF Synced
      <4>7. slot[t] \in Slots
        BY <4>1, SlotFacts, SMTT(30) DEF TableInv, SlotsOwned, HasSlot
      <4>8. sigaction[slot[t]] \in Handlers \cup {Default}
        BY <4>2, <4>7 DEF HandlerTypes
      <4>9. Shared(sigaction[slot[t]])'
        <5>1. \A u \in Threads : pc'[u] # "store"
          BY <4>3, <4>4, SMTT(30) DEF Copying
        <5>2. \A u \in Threads : slot[u] # NoSlot => sigaction[slot[u]] = sigaction[slot[t]]
          BY <4>6, SlotFacts
        <5> QED
          BY <4>1, <5>1, <5>2 DEF Shared, Settled
      <4>10. Synced'
        BY <4>3, <4>4 DEF Synced, InSync
      <4> QED
        BY <3>2, <4>1, <4>8, <4>9, <4>10, SMTT(30)
    <3> QED
      BY <3>4, <3>5, <3>6, <3>7, <3>8, <3>9, <3>10, <3>11, <3>12, <3>13, <3>14, <3>15
         DEF Step, Inner
  <2> QED
    BY <2>2, <2>3 DEF SharedInv
<1> QED
  BY <1>1, <1>2

\* For any number of threads, slots, handlers and calls: as long as calls of
\* rt_sigaction neither overlapped nor met a starting thread, all tpds hold the same
\* handler whenever none is under way (sync_sighandler, copy_init_base_tpd).
THEOREM HandlersSharedHolds == Spec => []HandlersShared
<1>1. TableInv /\ SharedInv => HandlersShared
  <2>1. SUFFICES ASSUME TableInv, SharedInv, ~raced, Syncing \cup Starting = {},
                        NEW s1 \in thread_map, NEW s2 \in thread_map
                 PROVE  sigaction[s1] = sigaction[s2]
    BY DEF HandlersShared
  <2>2. \A u \in Threads : ~InSync(u) /\ ~Copying(u)
    BY <2>1 DEF Syncing, Starting, InSync, Copying
  <2>3. PICK v \in Handlers \cup {Default} : Shared(v)
    BY <2>1, <2>2, SMTT(30) DEF SharedInv
  <2>4. \A s \in thread_map : sigaction[s] = v
    BY <2>1, <2>2, <2>3, SlotFacts DEF Shared, Settled, Copying
  <2> QED
    BY <2>4
<1> QED
  BY <1>1, SharedInit, SharedStep, TableInvariant, PTL DEF Spec
=============================================================================
