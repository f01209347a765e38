----------------------------- MODULE SignalMask -----------------------------
(***************************************************************************)
(* The signal mask of a recorded thread (arch/x86/interp/arch_signal.c,    *)
(* logger.S, syscalls/rt_sigprocmask.c, syscalls/sigprocmask.c).           *)
(*                                                                         *)
(* Compiled code and the recorder run with RECORD_PROCMASK.  The mask the  *)
(* program believes in is kept in unblock_sigmask and is given to the      *)
(* kernel only around the program's own int $0x80; what the call left in   *)
(* the kernel is read back into current_sigmask.  A handler entered in     *)
(* between keeps unblock_sigmask in its signal frame.                      *)
(*                                                                         *)
(* native is the mask the thread would have without the recorder, with the *)
(* rules of the kernel: a handler adds its sa_mask and its own signal to   *)
(* what is blocked, and sigreturn restores what was blocked.  Programs     *)
(* leave a handler by returning from it.                                   *)
(***************************************************************************)
EXTENDS Integers, Sequences

CONSTANTS
  All,         \* signal numbers
  Sigs,        \* signals that are sent to the thread; each has a handler
  SaMask,      \* sa_mask of the handler of each
  Initial,     \* masks the program may be started with
  Requests,    \* operations and sets the program passes to the kernel
  MaxSignals   \* bound: signals that are sent

ASSUME MaskAssumption ==
  /\ All \subseteq 1 .. 64
  /\ Sigs \subseteq All \ {9, 19}
  /\ \A s \in Sigs : ((s - 1) % 32) + 1 \in All
  /\ SaMask \in [Sigs -> SUBSET All]
  /\ Initial \subseteq SUBSET (All \ {9, 19})
  /\ Requests \subseteq {"block", "unblock", "setmask", "suspend"} \X SUBSET All
  /\ MaxSignals \in Nat

\* SIGKILL_REPLACE, which the program may not block
Replace == 33

\* The bits that are 0 in RECORD_PROCMASK
LeftOpen == {4, 8, 9, 11, 19, 32, 33, 62}

RECORD_PROCMASK == All \ LeftOpen

\* SIGKILL and SIGSTOP: the kernel never blocks them.
Blockable == All \ {9, 19}

\* A call: its operation, its set, the old mask the kernel returned, and
\* current_sigmask, which only the handler behind the same call reads
Call(op, set) == [op |-> op, set |-> set, oset |-> {}, current |-> {}]
NoCall == Call("none", {})
Calls == {Call(r[1], r[2]) : r \in Requests} \cup {Call("other", {})}

ProcMask == {"block", "unblock", "setmask"}

VARIABLES
  kernel,   \* the mask in the kernel
  pending,  \* signals that wait for delivery
  unblock,  \* unblock_sigmask
  pc,       \* see Places
  call,     \* the system call in progress
  frames,   \* signal frames on the stack of the program
  sent,     \* signals sent so far
  native    \* history: the mask without the recorder

vars == <<kernel, pending, unblock, pc, call, frames, sent, native>>

\* program: compiled code    pre, post: the recorder, before and after a call
\* open: behind UNBLOCK_SIGPROCMASK    wait: in rt_sigsuspend
\* called: at after_normal_int80    lost: the recorder's stack is overwritten
Places == {"program", "pre", "open", "wait", "called", "post", "lost"}

\* Signals the kernel delivers now
Due == pending \ kernel

\* arch_init_signal: the inherited mask becomes unblock_sigmask.
Init ==
  /\ unblock \in Initial
  /\ native = unblock
  /\ kernel = RECORD_PROCMASK
  /\ pending = {}
  /\ pc = "program"
  /\ call = NoCall
  /\ frames = <<>>
  /\ sent = 0

Send(s) ==
  /\ sent < MaxSignals
  /\ s \notin pending
  /\ sent' = sent + 1
  /\ pending' = pending \cup {s}
  /\ UNCHANGED <<kernel, unblock, pc, call, frames, native>>

-----------------------------------------------------------------------------
(* System calls                                                            *)

\* The set as pre_rt_sigprocmask leaves it
Filtered(c) ==
  IF c.op = "block" THEN [c EXCEPT !.set = @ \ {Replace}] ELSE c

\* pre_log_syscall
EnterCall(c) ==
  /\ pc = "program"
  /\ Due = {}
  /\ call' = Filtered(c)
  /\ pc' = "pre"
  /\ UNCHANGED <<kernel, pending, unblock, frames, sent, native>>

\* A handler that returns 1 or 2, as for rt_sigaction and fork: the signals
\* stay blocked.
QuietCall ==
  /\ pc = "pre"
  /\ Due = {}
  /\ call.op = "other"
  /\ pc' = "post"
  /\ UNCHANGED <<kernel, pending, unblock, call, frames, sent, native>>

\* Mutated form of UNBLOCK_SIGPROCMASK: installs block_sigmask.
UNBLOCK_SIGPROCMASK_blocked ==
  /\ pc = "pre"
  /\ Due = {}
  /\ kernel' = RECORD_PROCMASK
  /\ pc' = "open"
  /\ UNCHANGED <<pending, unblock, call, frames, sent, native>>

UNBLOCK_SIGPROCMASK ==
  /\ pc = "pre"
  /\ Due = {}
  /\ kernel' = unblock \cap Blockable
  /\ pc' = "open"
  /\ UNCHANGED <<pending, unblock, call, frames, sent, native>>

\* What the kernel makes of a mask
Changed(mask, c) ==
  CASE c.op = "block"   -> mask \cup (c.set \cap Blockable)
    [] c.op = "unblock" -> mask \ c.set
    [] c.op = "setmask" -> c.set \cap Blockable
    [] OTHER            -> mask

\* int $0x80, any call that does not wait for a signal
Int80 ==
  /\ pc = "open"
  /\ Due = {}
  /\ call.op # "suspend"
  /\ kernel' = Changed(kernel, call)
  /\ native' = Changed(native, call)
  /\ call' = [call EXCEPT !.oset = IF call.op \in ProcMask THEN kernel ELSE @]
  /\ pc' = "called"
  /\ UNCHANGED <<pending, unblock, frames, sent>>

\* int $0x80, rt_sigsuspend
Suspend ==
  /\ pc = "open"
  /\ Due = {}
  /\ call.op = "suspend"
  /\ kernel' = call.set \cap Blockable
  /\ pc' = "wait"
  /\ UNCHANGED <<pending, unblock, call, frames, sent, native>>

\* Mutated form of BLOCK_SIGPROCMASK: SET_EDX_0 in place of the store
BLOCK_SIGPROCMASK_no_oset ==
  /\ pc = "called"
  /\ Due = {}
  /\ kernel' = RECORD_PROCMASK
  /\ pc' = "post"
  /\ UNCHANGED <<pending, unblock, call, frames, sent, native>>

BLOCK_SIGPROCMASK ==
  /\ pc = "called"
  /\ Due = {}
  /\ call' = [call EXCEPT !.current = kernel]
  /\ kernel' = RECORD_PROCMASK
  /\ pc' = "post"
  /\ UNCHANGED <<pending, unblock, frames, sent, native>>

\* post_log_syscall with post_rt_sigprocmask
LeaveCall ==
  /\ pc = "post"
  /\ Due = {}
  /\ unblock' = IF call.op \in ProcMask THEN call.current ELSE unblock
  /\ call' = NoCall
  /\ pc' = "program"
  /\ UNCHANGED <<kernel, pending, frames, sent, native>>

-----------------------------------------------------------------------------
(* Handlers                                                                *)

\* unblock_sigmask[_num / 64] |= 1UL << (_num % 64), _num = s - 1, in words of
\* 32 bits: the index is 0, and the shift takes its count modulo 32.
BlockedBit(s) == ((s - 1) % 32) + 1

\* Mutated form of Corrected: without the test of the address
CorrectedAlways == IF call.op = "suspend" THEN call.set ELSE {}

\* correct_sigsuspend: at after_normal_int80 the set of rt_sigsuspend counts.
Corrected ==
  IF call.op = "suspend" /\ pc \in {"wait", "called"} THEN call.set ELSE {}

\* The frame of a handler.  The kernel returns to the place behind the call
\* it breaks, with the mask from before rt_sigsuspend.
Frame(s) ==
  [sig     |-> s,
   place   |-> IF pc = "wait" THEN "called" ELSE pc,
   kernel  |-> IF pc = "wait" THEN unblock \cap Blockable ELSE kernel,
   call    |-> call,
   unblock |-> unblock,
   native  |-> native]

\* Mutated form of signal_handler: the wrapper is installed with the
\* program's sa_mask.
signal_handler_sa_mask(s) ==
  /\ s \in Due
  /\ pc \in {"program", "open", "wait", "called"}
  /\ pending' = pending \ {s}
  /\ frames' = Append(frames, Frame(s))
  /\ kernel' = kernel \cup SaMask[s] \cup {s}
  /\ unblock' = (SaMask[s] \ {Replace}) \cup Corrected \cup {BlockedBit(s)}
  /\ native' = (IF pc = "wait" THEN call.set \cap Blockable ELSE native)
                 \cup (SaMask[s] \cap Blockable) \cup {s}
  /\ pc' = "program"
  /\ UNCHANGED <<call, sent>>

\* common_wrapper_sighandler, signal_handler.  The wrapper was installed with
\* RECORD_PROCMASK; rt_sigaction strips Replace from the sa_mask.
signal_handler(s) ==
  /\ s \in Due
  /\ pc \in {"program", "open", "wait", "called"}
  /\ pending' = pending \ {s}
  /\ frames' = Append(frames, Frame(s))
  /\ kernel' = kernel \cup RECORD_PROCMASK \cup {s}
  /\ unblock' = (SaMask[s] \ {Replace}) \cup Corrected \cup {BlockedBit(s)}
  /\ native' = (IF pc = "wait" THEN call.set \cap Blockable ELSE native)
                 \cup (SaMask[s] \cap Blockable) \cup {s}
  /\ pc' = "program"
  /\ UNCHANGED <<call, sent>>

\* A signal in the recorder: the wrapper starts at the top of the stack the
\* recorder is using.
Overwrite(s) ==
  /\ s \in Due
  /\ pc \in {"pre", "post"}
  /\ pending' = pending \ {s}
  /\ pc' = "lost"
  /\ UNCHANGED <<kernel, unblock, call, frames, sent, native>>

\* common_wrapper_sigreturn and the kernel's sigreturn
sigreturn ==
  /\ pc = "program"
  /\ Due = {}
  /\ frames # <<>>
  /\ LET f == frames[Len(frames)] IN
       /\ kernel' = f.kernel
       /\ unblock' = f.unblock
       /\ call' = f.call
       /\ pc' = f.place
       /\ native' = f.native
  /\ frames' = SubSeq(frames, 1, Len(frames) - 1)
  /\ UNCHANGED <<pending, sent>>

-----------------------------------------------------------------------------
Thread ==
  \/ \E c \in Calls : EnterCall(c)
  \/ QuietCall
  \/ UNBLOCK_SIGPROCMASK
  \/ Int80
  \/ Suspend
  \/ BLOCK_SIGPROCMASK
  \/ LeaveCall
  \/ \E s \in Sigs : signal_handler(s)
  \/ \E s \in Sigs : Overwrite(s)
  \/ sigreturn

Next == Thread \/ \E s \in Sigs : Send(s)

Spec == Init /\ [][Next]_vars

\* The kernel runs the thread, and the program keeps making system calls that
\* pass through normal_processing.
FairSpec ==
  /\ Spec
  /\ WF_vars(Thread)
  /\ SF_vars(UNBLOCK_SIGPROCMASK)

-----------------------------------------------------------------------------
Masks == SUBSET All

CallType ==
  [op : ProcMask \cup {"suspend", "other", "none"}, set : Masks,
   oset : Masks, current : Masks]

Frames ==
  [sig : Sigs, place : {"program", "open", "called"}, kernel : Masks,
   call : CallType,
   unblock : Masks, native : Masks]

\* All variables keep their types.
TypeOK ==
  /\ {kernel, unblock, native} \subseteq Masks
  /\ pending \subseteq Sigs
  /\ pc \in Places
  /\ call \in CallType
  /\ frames \in Seq(Frames)
  /\ sent \in 0 .. MaxSignals

\* Outside of handlers the program has the mask it would have without the
\* recorder, whatever handlers have run and whatever mask changes they and the
\* calls they broke have made.  Only SIGKILL_REPLACE may differ.
RestMask ==
  (pc \in {"program", "pre"} /\ frames = <<>>) =>
     unblock \ {Replace} = native \ {Replace}

\* Inside a handler signal_handler's mask differs from the native one exactly
\* so far: what was blocked when the handler was entered is missing, and so is
\* the handler's own signal above 32; the set of a broken rt_sigsuspend and
\* the bit that stands in for a signal above 32 may be blocked beyond it.
HandlerMask ==
  (pc \in {"program", "pre"} /\ frames # <<>>) =>
     LET f == frames[Len(frames)] IN
       /\ native \subseteq unblock \cup f.native \cup {Replace}
                             \cup {s \in {f.sig} : s > 32}
       /\ unblock \cap Blockable \subseteq
            native \cup {Replace, BlockedBit(f.sig)}
              \cup (IF f.place = "called" THEN f.call.set ELSE {})

\* Compiled code and the recorder, whose stack a wrapper would overwrite, run
\* with every signal of RECORD_PROCMASK blocked, at any depth of handlers.
RecorderShielded ==
  pc \in {"program", "pre", "post"} => RECORD_PROCMASK \subseteq kernel

\* The old mask rt_sigprocmask returned is unblock_sigmask as far as the
\* kernel can block it.
OsetExact ==
  (pc \in {"called", "post"} /\ call.op \in ProcMask) =>
     call.oset = unblock \cap Blockable

\* A signal the program does not block is delivered, unless the program comes
\* to block it or waits with it blocked, or the recorder's stack is lost.
Delivered ==
  \A s \in Sigs :
    (s \in pending /\ s \notin unblock) ~>
       \/ s \notin pending
       \/ s \in unblock
       \/ pc = "wait" /\ s \in kernel
       \/ pc = "lost"
=============================================================================
