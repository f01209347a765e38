---------------------------- MODULE ThreadProofs ----------------------------
(***************************************************************************)
(* Proofs about one thread of the recorded program: its signal mask, for   *)
(* any signals, handlers, requests and any depth of handlers, and its      *)
(* start, for any number of clones.                                        *)
(***************************************************************************)
EXTENDS SignalMask, CloneHandshake, TLAPS

\* How unblock_sigmask u relates to the native mask n in a handler with the
\* frame f
HandlerRel(u, n, f) ==
  /\ n \subseteq u \cup f.native \cup {Replace} \cup {s \in {f.sig} : s > 32}
  /\ u \cap Blockable \subseteq n \cup {Replace, BlockedBit(f.sig)}
                              \cup (IF f.place = "called" THEN f.call.set ELSE {})

\* The same at the depth k of the frames fs
MaskRel(u, n, fs, k) ==
  /\ n \subseteq Blockable
  /\ IF k = 0 THEN u \ {Replace} = n \ {Replace} ELSE HandlerRel(u, n, fs[k])

\* What the masks have to do with each other at a place pl of the thread: the
\* kernel's mask m, unblock_sigmask u, the native mask n and the call c
PlaceRel(pl, m, u, n, c, fs, k) ==
  /\ pl \in {"program", "pre", "post"} => RECORD_PROCMASK \subseteq m
  /\ pl \in {"program", "pre", "open", "wait"} => MaskRel(u, n, fs, k)
  /\ pl = "open" => m = u \cap Blockable
  /\ pl = "wait" => c.op = "suspend"
  /\ (pl \in {"called", "post"} /\ c.op \notin ProcMask) => MaskRel(u, n, fs, k)
  /\ (pl = "called" /\ c.op \notin ProcMask) => m = u \cap Blockable
  /\ (pl \in {"called", "post"} /\ c.op \in ProcMask) => c.oset = u \cap Blockable
  /\ (pl = "called" /\ c.op \in ProcMask) => MaskRel(m, n, fs, k)
  /\ (pl = "post" /\ c.op \in ProcMask) => MaskRel(c.current, n, fs, k)

\* The inductive invariant: the relation holds where the thread is, and it
\* holds for every frame where the handler of that frame will return to.
MaskInv ==
  /\ TypeOK
  /\ PlaceRel(pc, kernel, unblock, native, call, frames, Len(frames))
  /\ \A i \in 1 .. Len(frames) :
       PlaceRel(frames[i].place, frames[i].kernel, frames[i].unblock,
                frames[i].native, frames[i].call, frames, i - 1)

-----------------------------------------------------------------------------
\* The bit that is set for a signal up to 32 is its own.
LEMMA BitOfLow ==
  ASSUME NEW s \in Sigs
  PROVE  /\ BlockedBit(s) \in All
         /\ s <= 32 => BlockedBit(s) = s
<1>1. s \in 1 .. 64
  BY MaskAssumption
<1>2. s <= 32 => (s - 1) % 32 = s - 1
  BY <1>1, SMT
<1> QED
  BY <1>1, <1>2, MaskAssumption DEF BlockedBit

\* The relation of a depth only looks at the frame of that depth.
LEMMA RelFrames ==
  ASSUME NEW pl, NEW m, NEW u, NEW n, NEW c, NEW fs, NEW gs, NEW k,
         k # 0 => fs[k] = gs[k],
         PlaceRel(pl, m, u, n, c, fs, k)
  PROVE  PlaceRel(pl, m, u, n, c, gs, k)
BY DEF PlaceRel, MaskRel

\* A change of the mask by the kernel keeps the relation.
LEMMA ChangedRel ==
  ASSUME NEW u, NEW n, NEW c, NEW fs, NEW k,
         MaskRel(u, n, fs, k)
  PROVE  MaskRel(Changed(u \cap Blockable, c), Changed(n, c), fs, k)
<1>1. CASE c.op = "block"
  BY <1>1 DEF MaskRel, HandlerRel, Changed
<1>2. CASE c.op = "unblock"
  BY <1>2 DEF MaskRel, HandlerRel, Changed
<1>3. CASE c.op = "setmask"
  BY <1>3 DEF MaskRel, HandlerRel, Changed
<1>4. CASE c.op \notin {"block", "unblock", "setmask"}
  BY <1>4 DEF MaskRel, HandlerRel, Changed
<1> QED
  BY <1>1, <1>2, <1>3, <1>4

\* The kernel's masks stay sets of signal numbers.
LEMMA ChangedType ==
  ASSUME NEW m \in Masks, NEW c \in CallType
  PROVE  Changed(m, c) \in Masks
<1>1. CASE c.op = "block"
  BY <1>1 DEF Changed, Masks, CallType
<1>2. CASE c.op = "unblock"
  BY <1>2 DEF Changed, Masks, CallType
<1>3. CASE c.op = "setmask"
  BY <1>3 DEF Changed, Masks, CallType
<1>4. CASE c.op \notin {"block", "unblock", "setmask"}
  BY <1>4 DEF Changed, Masks, CallType
<1> QED
  BY <1>1, <1>2, <1>3, <1>4

\* A sequence without its last element is one shorter.
LEMMA PrefixLength ==
  ASSUME NEW S, NEW q \in Seq(S), NEW n \in Nat, Len(q) = n + 1
  PROVE  Len(SubSeq(q, 1, n)) = n
OBVIOUS

\* A handler that was left returns to a state in which the relation holds; the
\* frames below it are those from before.
LEMMA FrontFrames ==
  ASSUME frames \in Seq(Frames), frames # <<>>
  PROVE  /\ SubSeq(frames, 1, Len(frames) - 1) \in Seq(Frames)
         /\ Len(SubSeq(frames, 1, Len(frames) - 1)) = Len(frames) - 1
         /\ \A i \in 1 .. Len(frames) - 1 : SubSeq(frames, 1, Len(frames) - 1)[i] = frames[i]
         /\ Len(frames) \in 1 .. Len(frames)
         /\ frames[Len(frames)] \in Frames
<1>1. Len(frames) \in Nat /\ Len(frames) # 0
  OBVIOUS
<1>2. SubSeq(frames, 1, Len(frames) - 1) \in Seq(Frames)
  BY <1>1
<1>3. Len(SubSeq(frames, 1, Len(frames) - 1)) = Len(frames) - 1
  <2>1. PICK n \in Nat : Len(frames) = n + 1
    BY <1>1
  <2>2. Len(SubSeq(frames, 1, n)) = n
    BY <2>1, PrefixLength
  <2>3. Len(frames) - 1 = n
    BY <2>1
  <2> QED
    BY <2>2, <2>3
<1>4. \A i \in 1 .. Len(frames) - 1 : SubSeq(frames, 1, Len(frames) - 1)[i] = frames[i]
  BY <1>1
<1>5. frames[Len(frames)] \in Frames
  BY <1>1
<1> QED
  BY <1>1, <1>2, <1>3, <1>4, <1>5

\* The invariant holds when arch_init_signal is done.
LEMMA MaskInit == Init => MaskInv
<1> SUFFICES ASSUME Init PROVE MaskInv
  OBVIOUS
<1>1. TypeOK
  BY MaskAssumption DEF Init, TypeOK, Masks, Places, NoCall, Call, CallType, RECORD_PROCMASK
<1>2. PlaceRel(pc, kernel, unblock, native, call, frames, Len(frames))
  BY MaskAssumption DEF Init, PlaceRel, MaskRel, Blockable
<1> QED
  BY <1>1, <1>2 DEF MaskInv, Init

\* Every step keeps the types.
LEMMA TypeStep == TypeOK /\ [Next]_vars => TypeOK'
<1> SUFFICES ASSUME TypeOK, [Next]_vars PROVE TypeOK'
  OBVIOUS
<1> USE DEF Masks, Places
<1>1. ASSUME NEW c \in Calls, EnterCall(c) PROVE TypeOK'
  <2>1. Filtered(c) \in CallType
    BY MaskAssumption DEF Calls, Filtered, CallType, Call, ProcMask
  <2> QED
    BY <1>1, <2>1 DEF EnterCall, TypeOK
<1>2. CASE QuietCall
  BY <1>2 DEF QuietCall, TypeOK
<1>3. CASE UNBLOCK_SIGPROCMASK
  BY <1>3 DEF UNBLOCK_SIGPROCMASK, TypeOK
<1>4. CASE Int80
  <2>1. Changed(kernel, call) \in Masks /\ Changed(native, call) \in Masks
    BY ChangedType DEF TypeOK
  <2>2. call' \in CallType
    BY <1>4, SMTT(30) DEF Int80, TypeOK, CallType
  <2> QED
    BY <1>4, <2>1, <2>2 DEF Int80, TypeOK
<1>5. CASE Suspend
  BY <1>5 DEF Suspend, TypeOK, CallType
<1>6. CASE BLOCK_SIGPROCMASK
  <2>1. call' \in CallType
    BY <1>6 DEF BLOCK_SIGPROCMASK, TypeOK, CallType
  <2> QED
    BY <1>6, <2>1 DEF BLOCK_SIGPROCMASK, TypeOK, RECORD_PROCMASK
<1>7. CASE LeaveCall
  BY <1>7 DEF LeaveCall, TypeOK, NoCall, Call, CallType
<1>8. ASSUME NEW s \in Sigs, signal_handler(s) PROVE TypeOK'
  <2>1. Frame(s) \in Frames
    BY <1>8 DEF signal_handler, Frame, Frames, TypeOK
  <2>2. frames' \in Seq(Frames)
    BY <1>8, <2>1 DEF signal_handler, TypeOK
  <2>3. SaMask[s] \in SUBSET All /\ BlockedBit(s) \in All /\ s \in All
    BY MaskAssumption, BitOfLow
  <2>4. Corrected \in SUBSET All /\ call.set \in SUBSET All
    BY DEF Corrected, TypeOK, CallType
  <2>5. kernel' \in Masks
    BY <1>8, <2>3 DEF signal_handler, TypeOK, RECORD_PROCMASK
  <2>6. unblock' \in Masks
    BY <1>8, <2>3, <2>4 DEF signal_handler
  <2>7. native' \in Masks
    BY <1>8, <2>3, <2>4 DEF signal_handler, TypeOK
  <2> QED
    BY <1>8, <2>2, <2>5, <2>6, <2>7 DEF signal_handler, TypeOK
<1>9. ASSUME NEW s \in Sigs, Overwrite(s) PROVE TypeOK'
  BY <1>9 DEF Overwrite, TypeOK
<1>10. CASE sigreturn
  <2>1. frames[Len(frames)] \in Frames /\ SubSeq(frames, 1, Len(frames) - 1) \in Seq(Frames)
    BY <1>10, FrontFrames DEF TypeOK, sigreturn
  <2> QED
    BY <1>10, <2>1 DEF sigreturn, TypeOK, Frames
<1>11. ASSUME NEW s \in Sigs, Send(s) PROVE TypeOK'
  BY <1>11, MaskAssumption DEF Send, TypeOK
<1>12. CASE UNCHANGED vars
  BY <1>12 DEF vars, TypeOK
<1> QED
  BY <1>1, <1>2, <1>3, <1>4, <1>5, <1>6, <1>7, <1>8, <1>9, <1>10, <1>11, <1>12
     DEF Next, Thread

\* Every step keeps the relation between the masks.
LEMMA MaskStep == MaskInv /\ [Next]_vars => MaskInv'
<1> SUFFICES ASSUME MaskInv, [Next]_vars PROVE MaskInv'
  OBVIOUS
<1>t. TypeOK /\ TypeOK'
  BY TypeStep DEF MaskInv
<1>r. PlaceRel(pc, kernel, unblock, native, call, frames, Len(frames))
  BY DEF MaskInv
<1>f. \A i \in 1 .. Len(frames) :
        PlaceRel(frames[i].place, frames[i].kernel, frames[i].unblock,
                 frames[i].native, frames[i].call, frames, i - 1)
  BY DEF MaskInv
<1>n. Len(frames) \in Nat
  BY <1>t DEF TypeOK
<1>k. ASSUME frames' = frames,
             PlaceRel(pc', kernel', unblock', native', call', frames, Len(frames))
      PROVE  MaskInv'
  BY <1>t, <1>f, <1>k DEF MaskInv
<1>1. ASSUME NEW c \in Calls, EnterCall(c) PROVE MaskInv'
  BY <1>1, <1>r, <1>k DEF EnterCall, PlaceRel
<1>2. CASE QuietCall
  BY <1>2, <1>r, <1>k DEF QuietCall, PlaceRel, ProcMask
<1>3. CASE UNBLOCK_SIGPROCMASK
  BY <1>3, <1>r, <1>k DEF UNBLOCK_SIGPROCMASK, PlaceRel
<1>4. CASE Int80
  <2>1. MaskRel(unblock, native, frames, Len(frames)) /\ kernel = unblock \cap Blockable
    BY <1>4, <1>r DEF Int80, PlaceRel
  <2>2. MaskRel(kernel', native', frames, Len(frames))
    BY <1>4, <2>1, ChangedRel DEF Int80
  <2>3. call'.op = call.op /\ (call.op \in ProcMask => call'.oset = kernel)
    BY <1>4, <1>t DEF Int80, TypeOK, CallType
  <2>4. call.op \notin ProcMask => kernel' = kernel /\ native' = native
    BY <1>4 DEF Int80, Changed, ProcMask
  <2> QED
    BY <1>4, <1>k, <2>1, <2>2, <2>3, <2>4, ZenonT(40) DEF Int80, PlaceRel
<1>5. CASE Suspend
  BY <1>5, <1>r, <1>k DEF Suspend, PlaceRel
<1>6. CASE BLOCK_SIGPROCMASK
  <2>1. call'.op = call.op /\ call'.oset = call.oset /\ call'.current = kernel
    BY <1>6, <1>t DEF BLOCK_SIGPROCMASK, TypeOK, CallType
  <2> QED
    BY <1>6, <1>r, <1>k, <2>1 DEF BLOCK_SIGPROCMASK, PlaceRel
<1>7. CASE LeaveCall
  BY <1>7, <1>r, <1>k DEF LeaveCall, PlaceRel
<1>8. ASSUME NEW s \in Sigs, signal_handler(s) PROVE MaskInv'
  <2> DEFINE f == Frame(s)
             n == Len(frames)
  <2>1. frames' = Append(frames, f) /\ Len(frames') = n + 1 /\ frames'[n + 1] = f
    BY <1>8, <1>t DEF signal_handler, TypeOK
  <2>2. \A i \in 1 .. n : frames'[i] = frames[i]
    BY <1>t, <2>1 DEF TypeOK
  <2>3. PlaceRel(f.place, f.kernel, f.unblock, f.native, f.call, frames, n)
    <3>1. CASE pc = "wait"
      <4>1. /\ f.place = "called" /\ f.kernel = unblock \cap Blockable
            /\ f.unblock = unblock /\ f.native = native /\ f.call = call
        BY <3>1 DEF Frame
      <4> QED
        BY <3>1, <4>1, <1>r DEF PlaceRel, ProcMask
    <3>2. CASE pc # "wait"
      <4>1. /\ f.place = pc /\ f.kernel = kernel
            /\ f.unblock = unblock /\ f.native = native /\ f.call = call
        BY <3>2 DEF Frame
      <4> QED
        BY <4>1, <1>r
    <3> QED
      BY <3>1, <3>2
  <2>4. ASSUME NEW i \in 1 .. n + 1
        PROVE  PlaceRel(frames'[i].place, frames'[i].kernel, frames'[i].unblock,
                        frames'[i].native, frames'[i].call, frames', i - 1)
    <3>1. CASE i = n + 1
      <4>1. i - 1 = n /\ (n # 0 => frames[n] = frames'[n])
        BY <3>1, <1>n, <2>2
      <4>2. PlaceRel(f.place, f.kernel, f.unblock, f.native, f.call, frames', n)
        BY <2>3, <4>1, RelFrames
      <4> QED
        BY <3>1, <2>1, <4>1, <4>2, ZenonT(40)
    <3>2. CASE i # n + 1
      <4>1. i \in 1 .. n /\ (i - 1 # 0 => i - 1 \in 1 .. n)
        BY <3>2, <1>n
      <4>2. frames'[i] = frames[i] /\ (i - 1 # 0 => frames[i - 1] = frames'[i - 1])
        BY <4>1, <2>2
      <4>3. PlaceRel(frames[i].place, frames[i].kernel, frames[i].unblock,
                     frames[i].native, frames[i].call, frames, i - 1)
        BY <4>1, <1>f
      <4> QED
        BY <4>2, <4>3, RelFrames
    <3> QED
      BY <3>1, <3>2
  <2>5. MaskRel(unblock', native', frames', n + 1)
    <3>1. native \subseteq Blockable /\ s \in Blockable
      BY <1>8, <1>r, MaskAssumption DEF signal_handler, PlaceRel, MaskRel, Blockable
    <3>2. native' \subseteq Blockable
      BY <1>8, <3>1 DEF signal_handler
    <3>3. f.sig = s /\ f.native = native /\ f.call = call
      BY DEF Frame
    <3>4. f.place = "called" <=> pc \in {"wait", "called"}
      BY DEF Frame
    <3>5. s > 32 \/ s = BlockedBit(s)
      BY BitOfLow, MaskAssumption
    <3>6. native' \subseteq unblock' \cup f.native \cup {Replace} \cup {x \in {f.sig} : x > 32}
      <4>1. SaMask[s] \cap Blockable \subseteq unblock' \cup {Replace}
        BY <1>8 DEF signal_handler
      <4>2. s \in unblock' \cup {x \in {f.sig} : x > 32}
        BY <1>8, <3>3, <3>5 DEF signal_handler
      <4>3. (IF pc = "wait" THEN call.set \cap Blockable ELSE native)
              \subseteq unblock' \cup f.native
        BY <1>8, <1>r, <3>3 DEF signal_handler, Corrected, PlaceRel
      <4> QED
        BY <1>8, <4>1, <4>2, <4>3 DEF signal_handler
    <3>7. unblock' \cap Blockable \subseteq native' \cup {Replace, BlockedBit(f.sig)}
                 \cup (IF f.place = "called" THEN f.call.set ELSE {})
      <4>1. Corrected \subseteq (IF f.place = "called" THEN f.call.set ELSE {})
        BY <3>3, <3>4 DEF Corrected
      <4> QED
        BY <1>8, <3>3, <4>1 DEF signal_handler
    <3> QED
      BY <1>n, <2>1, <3>2, <3>6, <3>7 DEF MaskRel, HandlerRel
  <2>6. PlaceRel(pc', kernel', unblock', native', call', frames', n + 1)
    BY <1>8, <2>5 DEF signal_handler, PlaceRel
  <2> QED
    BY <1>t, <2>1, <2>4, <2>6 DEF MaskInv
<1>9. ASSUME NEW s \in Sigs, Overwrite(s) PROVE MaskInv'
  BY <1>9, <1>r, <1>k DEF Overwrite, PlaceRel
<1>10. CASE sigreturn
  <2> DEFINE f == frames[Len(frames)]
             n == Len(frames) - 1
  <2>1. PlaceRel(f.place, f.kernel, f.unblock, f.native, f.call, frames, n)
    BY <1>10, <1>f, <1>t, FrontFrames DEF sigreturn, TypeOK
  <2>2. PlaceRel(f.place, f.kernel, f.unblock, f.native, f.call, SubSeq(frames, 1, Len(frames) - 1), n)
    <3>1. n # 0 => frames[n] = SubSeq(frames, 1, Len(frames) - 1)[n]
      BY <1>10, <1>t, <1>n, FrontFrames DEF sigreturn, TypeOK
    <3> HIDE DEF f, n
    <3> QED
      BY <2>1, <3>1, RelFrames, Zenon
  <2>3. ASSUME NEW i \in 1 .. n
        PROVE  PlaceRel(frames'[i].place, frames'[i].kernel, frames'[i].unblock,
                        frames'[i].native, frames'[i].call, frames', i - 1)
    <3>1. PlaceRel(frames[i].place, frames[i].kernel, frames[i].unblock,
                   frames[i].native, frames[i].call, frames, i - 1)
      BY <1>f, <1>n
    <3>2. frames'[i] = frames[i] /\ (i - 1 # 0 => frames'[i - 1] = frames[i - 1])
      BY <1>10, <1>t, <1>n, FrontFrames DEF sigreturn, TypeOK
    <3> QED
      BY <3>1, <3>2, RelFrames
  <2>4. Len(frames') = n
    BY <1>10, <1>t, FrontFrames DEF sigreturn, TypeOK
  <2> QED
    BY <1>10, <1>t, <2>2, <2>3, <2>4 DEF MaskInv, sigreturn
<1>11. ASSUME NEW s \in Sigs, Send(s) PROVE MaskInv'
  BY <1>11, <1>r, <1>k DEF Send
<1>12. CASE UNCHANGED vars
  BY <1>12, <1>r, <1>k DEF vars
<1> QED
  BY <1>1, <1>2, <1>3, <1>4, <1>5, <1>6, <1>7, <1>8, <1>9, <1>10, <1>11, <1>12
     DEF Next, Thread

\* The inductive invariant holds in every reachable state.
THEOREM MaskInvariant == Spec => []MaskInv
BY MaskInit, MaskStep, PTL DEF Spec

\* Outside of handlers unblock_sigmask is the mask the program would have
\* without the recorder, but for SIGKILL_REPLACE: whatever handlers were
\* entered, at whatever depth, and whatever masks were set meanwhile.
THEOREM RestMaskHolds == Spec => []RestMask
<1>1. MaskInv => RestMask
  <2> SUFFICES ASSUME MaskInv, pc \in {"program", "pre"}, frames = <<>>
               PROVE  unblock \ {Replace} = native \ {Replace}
    BY DEF RestMask
  <2>1. Len(frames) = 0
    OBVIOUS
  <2> QED
    BY <2>1 DEF MaskInv, PlaceRel, MaskRel
<1> QED
  BY <1>1, MaskInvariant, PTL

\* Inside a handler the mask differs from the native one by no more than the
\* interrupted mask, the handler's own signal above 32, the bit that stands in
\* for it, and the set of the rt_sigsuspend the handler broke.
THEOREM HandlerMaskHolds == Spec => []HandlerMask
<1>1. MaskInv => HandlerMask
  <2> SUFFICES ASSUME MaskInv, pc \in {"program", "pre"}, frames # <<>>
               PROVE  HandlerRel(unblock, native, frames[Len(frames)])
    BY DEF HandlerMask, HandlerRel
  <2>1. Len(frames) # 0
    BY DEF MaskInv, TypeOK
  <2> QED
    BY <2>1 DEF MaskInv, PlaceRel, MaskRel
<1> QED
  BY <1>1, MaskInvariant, PTL

\* Compiled code and the recorder never run with a signal of RECORD_PROCMASK
\* open, so no such signal finds the recorder on its own stack.
THEOREM RecorderShieldHolds == Spec => []RecorderShielded
<1>1. MaskInv => RecorderShielded
  BY SMTT(30) DEF MaskInv, PlaceRel, RecorderShielded
<1> QED
  BY <1>1, MaskInvariant, PTL

\* post_rt_sigprocmask's assertion can only fail for SIGKILL and SIGSTOP.
THEOREM OsetExactHolds == Spec => []OsetExact
<1>1. MaskInv => OsetExact
  BY DEF MaskInv, PlaceRel, OsetExact
<1> QED
  BY <1>1, MaskInvariant, PTL

-----------------------------------------------------------------------------
(* The start of a thread: creator and child of CloneHandshake              *)

Starts == [esp : Int, target : Int]

\* The types the proof needs
CloneTypes ==
  /\ futex \in Int
  /\ preg \in Int
  /\ clone \in Nat
  /\ clone <= MaxClones
  /\ ppc \in {"run", "int80", "decl", "decl2", "test", "store", "wait", "asleep"}
  /\ target \in Int
  /\ saver \in Int
  /\ cpc \in [Clones -> {"none", "born", "stack", "target", "incl", "incl2", "test",
                         "store", "wake", "run"}]
  /\ creg \in [Clones -> Int]
  /\ start \in [Clones -> Starts]

\* The child has not yet taken all it needs from old_tpd.
Taking(k) == cpc[k] \in {"born", "stack", "target"}

\* No child but k is between its birth and its end.
Alone(k) == \A j \in Clones \ {k} : cpc[j] \in {"none", "run"}

\* The creator cannot leave its loop: futex_data and the operand of its decl
\* are at most 0, and futex_data is negative when it is tested.
Held ==
  /\ ppc \in {"decl", "decl2", "test", "store", "wait", "asleep"}
  /\ futex <= 0
  /\ ppc = "decl2" => preg <= 0
  /\ ppc = "test" => futex < 0

\* A clone that was issued while no earlier child was about: in its system call,
\* and while its child takes target and stack
Issued ==
  ppc = "int80" =>
    /\ clone \in Clones
    /\ target = clone
    /\ cpc[clone] = "none"
    /\ clone \notin late => futex = 0 /\ Alone(clone)

TakingInv ==
  \A k \in Clones \ late : Taking(k) =>
    /\ clone = k
    /\ Alone(k)
    /\ Held
    /\ target = k
    /\ cpc[k] # "born" => saver = k
    /\ cpc[k] = "target" => start[k].esp = k

Unissued == \A j \in Clones : j > clone => cpc[j] = "none"

CloneInv == CloneTypes /\ Unissued /\ Issued /\ TakingInv /\ ChildStartsRight

-----------------------------------------------------------------------------
\* The invariant holds before the first clone.
LEMMA CloneStart == CloneInit => CloneInv
BY CloneAssumption DEF CloneInit, CloneInv, CloneTypes, Unissued, Issued, TakingInv, Taking,
  ChildStartsRight, Copied, Clones, Other, Starts

\* A step of the creator (clone_post_parent) keeps the invariant: while a
\* child takes its stack and target, the creator cannot leave its loop.
LEMMA ParentStep == CloneInv /\ Parent => CloneInv'
<1> SUFFICES ASSUME CloneInv, Parent PROVE CloneInv'
  OBVIOUS
<1> USE CloneAssumption DEF CloneInv, CloneTypes, Unissued, Issued, TakingInv, Taking, Alone, Held,
  ChildStartsRight, Copied, Clones, Other, Starts, parentVars, childVars
<1>1. CASE Branch
  BY <1>1 DEF Branch
<1>2. CASE pre_clone
  <2>1. CloneTypes'
    BY <1>2 DEF pre_clone
  <2>2. Unissued' /\ Issued'
    BY <1>2 DEF pre_clone
  <2>3. TakingInv'
    BY <1>2 DEF pre_clone
  <2>4. ChildStartsRight'
    BY <1>2 DEF pre_clone
  <2> QED
    BY <2>1, <2>2, <2>3, <2>4, Zenon
<1>3. CASE CloneSucceeds
  <2>1. CloneTypes'
    BY <1>3 DEF CloneSucceeds
  <2>2. Unissued' /\ Issued'
    BY <1>3 DEF CloneSucceeds
  <2>3. TakingInv'
    BY <1>3 DEF CloneSucceeds
  <2>4. ChildStartsRight'
    BY <1>3 DEF CloneSucceeds
  <2> QED
    BY <2>1, <2>2, <2>3, <2>4, Zenon
<1>4. CASE CloneFails
  BY <1>4 DEF CloneFails
<1>5. CASE DeclRead
  BY <1>5 DEF DeclRead
<1>6. CASE DeclWrite
  BY <1>6 DEF DeclWrite
<1>7. CASE ParentTest
  BY <1>7 DEF ParentTest
<1>8. CASE ParentStore
  BY <1>8 DEF ParentStore
<1>9. CASE FutexWait
  BY <1>9 DEF FutexWait
<1>10. CASE FutexInterrupted
  BY <1>10 DEF FutexInterrupted
<1> QED
  BY <1>1, <1>2, <1>3, <1>4, <1>5, <1>6, <1>7, <1>8, <1>9, <1>10, Zenon DEF Parent, ParentWaits

\* So does a step of a child (clone_post_child).
LEMMA ChildStep ==
  ASSUME CloneInv, NEW k \in Clones, Child(k)
  PROVE  CloneInv'
<1> USE CloneAssumption DEF CloneInv, CloneTypes, Unissued, Issued, TakingInv, Taking, Alone, Held,
  ChildStartsRight, Copied, Clones, Other, Starts, parentVars, childVars, ChildGoto
<1>1. CASE ChildSavesStack(k)
  BY <1>1, SMTT(30) DEF ChildSavesStack
<1>2. CASE ChildTakesStack(k)
  <2>1. /\ start' \in [Clones -> Starts]
        /\ start'[k].esp = saver
        /\ \A j \in Clones \ {k} : start'[j] = start[j]
    <3>1. /\ start' = [start EXCEPT ![k].esp = saver]
          /\ start \in [Clones -> Starts] /\ saver \in Int
      BY <1>2, Zenon DEF ChildTakesStack
    <3> HIDE DEF CloneInv, Clones
    <3> QED
      BY <3>1
  <2>2. /\ cpc[k] = "stack" /\ cpc' = [cpc EXCEPT ![k] = "target"]
        /\ UNCHANGED <<futex, target, saver, parentVars, creg>>
    BY <1>2 DEF ChildTakesStack
  <2>3. CloneTypes'
    BY <2>1, <2>2
  <2>4. Unissued' /\ Issued'
    BY <2>2, SMTT(30)
  <2>5. TakingInv'
    <3> SUFFICES ASSUME NEW j \in Clones \ late, Taking(j)'
                 PROVE  /\ clone = j /\ Alone(j)' /\ Held' /\ target = j
                        /\ saver = j
                        /\ cpc'[j] = "target" => start'[j].esp = j
      BY <2>2
    <3>1. Taking(j)
      BY <2>2
    <3>2. /\ clone = j /\ Alone(j) /\ Held /\ target = j
          /\ cpc[j] # "born" => saver = j
      BY <3>1
    <3>3. j = k
      BY <3>2, <2>2, Zenon
    <3> QED
      BY <2>1, <2>2, <3>2, <3>3
  <2>6. ChildStartsRight'
    BY <2>1, <2>2
  <2> QED
    BY <2>3, <2>4, <2>5, <2>6, Zenon
<1>3. CASE ChildTakesTarget(k)
  <2>1. /\ start' \in [Clones -> Starts]
        /\ start'[k] = [esp |-> start[k].esp, target |-> target]
        /\ \A j \in Clones \ {k} : start'[j] = start[j]
    BY <1>3 DEF ChildTakesTarget
  <2>2. /\ cpc[k] = "target" /\ cpc' = [cpc EXCEPT ![k] = "incl"]
        /\ UNCHANGED <<futex, target, saver, parentVars, creg>>
    BY <1>3 DEF ChildTakesTarget
  <2>3. CloneTypes'
    BY <2>1, <2>2
  <2>4. Unissued' /\ Issued'
    BY <2>2, SMTT(30)
  <2>5. TakingInv'
    <3> SUFFICES ASSUME NEW j \in Clones \ late, Taking(j)' PROVE FALSE
      BY <2>2
    <3>1. j # k /\ Taking(j)
      BY <2>2
    <3>2. Alone(j)
      BY <3>1, Zenon
    <3> QED
      BY <3>1, <3>2, <2>2, Zenon
  <2>6. ChildStartsRight'
    <3> SUFFICES ASSUME NEW j \in Clones \ late, Copied(j)'
                 PROVE  start'[j] = [esp |-> j, target |-> j]
      BY <2>2
    <3>1. CASE j = k
      BY <3>1, <2>1, <2>2
    <3>2. CASE j # k
      <4>1. Copied(j) /\ start'[j] = start[j]
        BY <3>2, <2>1, <2>2
      <4> QED
        BY <4>1
    <3> QED
      BY <3>1, <3>2
  <2> QED
    BY <2>3, <2>4, <2>5, <2>6, Zenon
<1>4. CASE InclRead(k)
  <2>1. CloneTypes'
    BY <1>4 DEF InclRead
  <2>2. Unissued' /\ Issued'
    BY <1>4, Zenon DEF InclRead
  <2>3. TakingInv'
    BY <1>4, SMTT(30) DEF InclRead
  <2>4. ChildStartsRight'
    BY <1>4 DEF InclRead
  <2> QED
    BY <2>1, <2>2, <2>3, <2>4, Zenon
<1>5. CASE InclWrite(k)
  BY <1>5, SMTT(30) DEF InclWrite
<1>6. CASE ChildTest(k)
  BY <1>6, SMTT(30) DEF ChildTest
<1>7. CASE ChildStore(k)
  <2>1. CloneTypes'
    BY <1>7 DEF ChildStore
  <2>2. Unissued' /\ Issued'
    BY <1>7, Zenon DEF ChildStore
  <2>3. TakingInv'
    BY <1>7, Zenon DEF ChildStore
  <2>4. ChildStartsRight'
    BY <1>7 DEF ChildStore
  <2> QED
    BY <2>1, <2>2, <2>3, <2>4, Zenon
<1>8. CASE ChildWakes(k)
  <2>1. CloneTypes'
    BY <1>8 DEF ChildWakes
  <2>2. Unissued' /\ Issued'
    BY <1>8, SMTT(30) DEF ChildWakes
  <2>3. TakingInv'
    BY <1>8, SMTT(30) DEF ChildWakes
  <2>4. ChildStartsRight'
    BY <1>8 DEF ChildWakes
  <2> QED
    BY <2>1, <2>2, <2>3, <2>4, Zenon
<1> QED
  BY <1>1, <1>2, <1>3, <1>4, <1>5, <1>6, <1>7, <1>8, Zenon DEF Child

\* Creator and children stay in the invariant for any number of clones.
THEOREM CloneInvariant == CloneSpec => []CloneInv
<1>1. CloneInv /\ UNCHANGED cloneVars => CloneInv'
  BY DEF CloneInv, CloneTypes, Unissued, Issued, TakingInv, Taking, Alone, Held,
    ChildStartsRight, Copied, cloneVars
<1>2. CloneInv /\ [CloneNext]_cloneVars => CloneInv'
  BY <1>1, ParentStep, ChildStep, Zenon DEF CloneNext
<1> QED
  BY CloneStart, <1>2, PTL DEF CloneSpec

\* For any number of clones: a child of a clone issued while no earlier child
\* was about starts at its own target and on its own stack, for the creator
\* overwrites neither before its wait in clone_post_parent is over.
THEOREM ChildStartsHolds == CloneSpec => []ChildStartsRight
BY CloneInvariant, PTL DEF CloneInv
=============================================================================
