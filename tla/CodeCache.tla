----------------------------- MODULE CodeCache -----------------------------
(***************************************************************************)
(* A recorded thread: the code cache and the branch templates              *)
(* (arch/x86/interp/compiler.c, branch_template.S), system calls           *)
(* (logger.S, log_syscalls.c) and signals (arch_signal.c), with the log    *)
(* they write.  A code block is named by the address of its entry.         *)
(*                                                                         *)
(* Signals come where RECORD_PROCMASK lets them: a fault at an instruction *)
(* of compiled code, any other signal while the mask is opened around a    *)
(* system call.  Signals 32, 33 and 62, never blocked, are left out.       *)
(***************************************************************************)
EXTENDS Program, Sequences, FiniteSets

CONSTANTS
  MaxSteps,    \* bound: instructions and signals of a run
  MaxSignals,  \* bound: signals of a run
  UdFaults     \* whether blocks with a direct jmp or call fault

ASSUME CacheAssumption == MaxSteps \in Nat /\ MaxSignals \in Nat /\ UdFaults \in BOOLEAN

VARIABLES
  prog,
  cache,    \* cache_dict: the entries compiled so far
  last,     \* of each block: last_target_entry
  link,     \* of each block: where its exit jumps to once it is recompiled
  current,  \* current_block
  target,   \* tpd->target
  pc,       \* which code runs: a block's head, its code, the branch routine...
  at,       \* in compiled code: the block and the original address reached
  nr,       \* current_syscall_nr, the address of a call standing for its number
  frames,   \* signal frames on the stack
  log,
  path,     \* history: what the program did, instructions and signals
  covered   \* history: Len(path) when the log last grew

vars == <<prog, cache, last, link, current, target, pc, at, nr, frames, log, path, covered>>

cacheVars == <<prog, cache, last, link>>

None == -1
Fate == -2  \* first_fate_block
Addrs == UNION {DOMAIN p : p \in Programs}
Blocks == Addrs \cup {Fate}

Inst == prog[at.addr]

\* The exit type of a block; init_code_cache makes the first a system call.
exit_type(b) ==
  IF b = Fate THEN "EXIT_SYSCALL" ELSE ExitType(prog[scan_insts(prog, b)].op)

Did(kind, a, v) == [kind |-> kind, addr |-> a, value |-> v]
Entry(mark, v) == [mark |-> mark, value |-> v]

\* What a step adds to the log and to the history of the program
Logs(entries) == log' = log \o entries
Does(d) ==
  /\ Len(path) < MaxSteps
  /\ path' = Append(path, d)
  /\ covered' = IF log' = log THEN covered ELSE Len(path')

Init ==
  /\ prog \in Programs
  /\ cache = {}
  /\ last = [b \in Blocks |-> None]
  /\ link = [b \in Blocks |-> None]
  /\ current = Fate
  /\ target = Start
  /\ pc = "branch"
  /\ at = [block |-> Fate, addr |-> Start]
  /\ nr = None
  /\ frames = <<>>
  /\ log = <<>>
  /\ path = <<>>
  /\ covered = 0

-----------------------------------------------------------------------------
(* Compiled code                                                           *)

\* __set_current_block_template
SetCurrentBlock ==
  /\ pc = "head"
  /\ current' = at.block
  /\ pc' = "code"
  /\ UNCHANGED <<cacheVars, target, at, nr, frames, log, path, covered>>

\* An unmodified instruction
Plain ==
  /\ pc = "code"
  /\ Inst.op = "plain"
  /\ at' = [at EXCEPT !.addr = @ + 1]
  /\ UNCHANGED <<cacheVars, current, target, pc, nr, frames, log>>
  /\ Does(Did("inst", at.addr, 0))

\* The handler's return address is on the stack while a signal frame is.
Targets == Inst.to \ (IF frames = <<>> THEN {Sigreturn} ELSE {})

\* A block's exit instruction, still as compile_branch made it
Exit(ops) ==
  /\ pc = "code"
  /\ Inst.op \in ops
  /\ link[at.block] = None
  /\ target' \in Targets
  /\ UNCHANGED <<cacheVars, current, at, frames>>

\* jmp and call: not logged
DirectExit ==
  /\ Exit({"ud"})
  /\ pc' = "branch"
  /\ UNCHANGED <<nr, log>>
  /\ Does(Did("inst", at.addr, 0))

\* The exit is recompiled: a jmp into the other block
LinkedExit ==
  /\ pc = "code"
  /\ Inst.op # "plain"
  /\ link[at.block] # None
  /\ at' = [block |-> link[at.block], addr |-> link[at.block]]
  /\ pc' = "head"
  /\ UNCHANGED <<cacheVars, current, target, nr, frames, log>>
  /\ Does(Did("inst", at.addr, 0))

\* Jxx, ret and indirect jmp and call: the target goes to the log.
LoggedExit ==
  /\ Exit({"cond", "ind"})
  /\ pc' = "branch"
  /\ Logs(<<Entry("target", target')>>)
  /\ UNCHANGED nr
  /\ Does(Did("inst", at.addr, 0))

Rdtsc(v) ==
  /\ Exit({"rdtsc"})
  /\ pc' = "branch"
  /\ Logs(<<Entry("rdtsc", v)>>)
  /\ UNCHANGED nr
  /\ Does(Did("inst", at.addr, v))

-----------------------------------------------------------------------------
(* System calls                                                            *)

\* pre_log_syscall: the pre handler lets signals in around the call or not.
pre_log_syscall ==
  /\ Exit({"int80"})
  /\ nr' = at.addr
  /\ pc' \in {"int80", "post"}
  /\ Logs(<<Entry("syscall", nr')>>)
  /\ UNCHANGED path
  /\ covered' = Len(path)

\* The call returns; BLOCK_SIGPROCMASK.
SyscallReturns ==
  /\ pc = "int80"
  /\ pc' = "post"
  /\ UNCHANGED <<cacheVars, current, target, at, nr, frames, log, path, covered>>

post_log_syscall(v) ==
  /\ pc = "post"
  /\ nr' = None
  /\ pc' = "branch"
  /\ Logs(<<Entry("nosignal", v)>>)
  /\ UNCHANGED <<cacheVars, current, target, at, frames>>
  /\ Does(Did("inst", at.addr, v))

-----------------------------------------------------------------------------
(* real_branch                                                             *)

\* recompile_ud
recompile_ud(b, t) == link' = [link EXCEPT ![b] = t]

\* Mutant: links any exit
CompileLinksAll ==
  /\ cache' = cache \cup {target}
  /\ recompile_ud(current, target)

\* do_compile: a block that is not in the cache is compiled; the exit that led here
\* is linked to it.
do_compile ==
  /\ cache' = cache \cup {target}
  /\ IF exit_type(current) = "EXIT_UNCOND_DIRECT"
     THEN recompile_ud(current, target)
     ELSE UNCHANGED link

\* A new block's last target is its own entry.
Remembers(b, t) ==
  last' = [c \in Blocks |-> IF c = b THEN t
                            ELSE IF c \in cache' \ cache THEN c ELSE last[c]]

do_real_branch ==
  /\ pc = "branch"
  /\ target # Sigreturn
  /\ IF last[current] = target
     THEN UNCHANGED <<cache, last, link>>
     ELSE IF current = target
          THEN /\ UNCHANGED <<cache, link>>
               /\ Remembers(current, current)
          ELSE /\ do_compile
               /\ Remembers(current, target)
  /\ at' = [block |-> target, addr |-> target]
  /\ pc' = "head"
  /\ UNCHANGED <<prog, current, target, nr, frames, log, path, covered>>

\* The handler's return; asserts that an indirect branch led here.
BranchToSigreturn ==
  /\ pc = "branch"
  /\ target = Sigreturn
  /\ pc' = IF exit_type(current) = "EXIT_UNCOND_INDIRECT" THEN "sigreturn" ELSE "abort"
  /\ UNCHANGED <<cacheVars, current, target, at, nr, frames, log, path, covered>>

-----------------------------------------------------------------------------
(* Signals                                                                 *)

\* get_ori_address: an address in the code of a block, else its exit
get_ori_address(b) ==
  IF pc = "code" /\ at.block = b THEN at.addr ELSE scan_insts(prog, b)

\* A fault at an instruction that can access memory, or a signal in a system call
Struck ==
  \/ /\ pc = "code"
     /\ Inst.op \in {"plain", "ud", "ind"}
     /\ UdFaults \/ exit_type(at.block) # "EXIT_UNCOND_DIRECT"
  \/ pc = "int80"

SignalsSoFar == Cardinality({i \in DOMAIN path : path[i].kind = "signal"})

\* signal_handler: the frame saves what the handler's code will change.
signal_handler ==
  /\ Struck
  /\ SignalsSoFar < MaxSignals
  /\ LET addr == get_ori_address(current)
     IN  /\ frames' = Append(frames, [pc |-> pc, at |-> at, target |-> target,
                                      nr |-> nr, current |-> current])
         /\ Logs(<<Entry("signal", addr), Entry("signal2", addr)>>)
  /\ target' = Handler
  /\ pc' = "branch"
  /\ UNCHANGED <<cacheVars, current, at, nr>>
  /\ Does(Did("signal", at.addr, 0))

\* signal_terminate
signal_terminate ==
  /\ Struck
  /\ SignalsSoFar < MaxSignals
  /\ Logs(<<Entry("signal", get_ori_address(current))>>)
  /\ pc' = "end"
  /\ UNCHANGED <<cacheVars, current, target, at, nr, frames>>
  /\ Does(Did("signal", at.addr, 0))

\* A call broken by the signal is announced again.
ResumeMark(f) == IF f.nr = None THEN <<>> ELSE <<Entry("syscall", f.nr)>>

\* Mutant: tpd->target keeps the handler's last target.
KeptTarget(f) == target

RestoredTarget(f) == f.target

\* Mutant: current_block stays the handler's last block.
KeptBlock(f) == current

RestoredBlock(f) == f.current

common_wrapper_sigreturn ==
  /\ pc = "sigreturn"
  /\ LET f == frames[Len(frames)]
     IN  /\ Logs(<<Entry("sigreturn", 0)>> \o ResumeMark(f))
         /\ pc' = f.pc
         /\ at' = f.at
         /\ target' = RestoredTarget(f)
         /\ nr' = f.nr
         /\ current' = RestoredBlock(f)
  /\ frames' = SubSeq(frames, 1, Len(frames) - 1)
  /\ UNCHANGED cacheVars
  /\ Does(Did("sigreturn", Sigreturn, 0))

-----------------------------------------------------------------------------
Next ==
  \/ SetCurrentBlock
  \/ Plain
  \/ DirectExit
  \/ LinkedExit
  \/ LoggedExit
  \/ \E v \in Values : Rdtsc(v) \/ post_log_syscall(v)
  \/ pre_log_syscall
  \/ SyscallReturns
  \/ do_real_branch
  \/ BranchToSigreturn
  \/ signal_handler
  \/ signal_terminate
  \/ common_wrapper_sigreturn

Spec == Init /\ [][Next]_vars

-----------------------------------------------------------------------------
(* Properties                                                              *)

\* "if this is a ud block, we replace the code after recompile_start with a single
\* jmp": that jmp leads where the jmp or call of the program leads
\* (code_cache.h, recompile_ud), and no other exit is replaced.
LinksRight ==
  \A b \in cache : link[b] # None =>
    LET exit == prog[scan_insts(prog, b)]
    IN  exit.op = "ud" /\ link[b] \in exit.to

\* Where the program is, as it would see it
Eip == IF pc \in {"branch", "sigreturn"} THEN target ELSE at.addr

\* The recorder runs the program as it would run without it, through code that
\* is compiled, linked and left and entered again by signals (do_real_branch,
\* signal_handler, common_wrapper_sigreturn).
N == INSTANCE Native WITH
  eip <- Eip,
  stack <- [i \in DOMAIN frames |-> frames[i].at.addr],
  alive <- pc # "end"

RunsAsNative == N!Spec
=============================================================================
