----------------------------- MODULE ReplayWalk -----------------------------
(***************************************************************************)
(* Replay of what CodeCache recorded: gdbserver's patch                    *)
(* (host/gdbserver/snitchaser_patch.c) walks the program from its first    *)
(* checkpoint and takes from the log what the program cannot compute.  The *)
(* log may end anywhere: the recorded process may have been killed.  The   *)
(* debugger continues or single-steps, as it likes.                        *)
(***************************************************************************)
EXTENDS CodeCache

VARIABLES
  rpc,     \* control of the replayer; "off" while the program is recorded
  pos,     \* first entry of the log not yet consumed
  eip,     \* eip of the target
  rstack,  \* addresses in the signal frames written to its stack
  rpath    \* history: what the target did

rvars == <<rpc, pos, eip, rstack, rpath>>

ReplayInit ==
  /\ Init
  /\ rpc = "off"
  /\ pos = 1
  /\ eip = Start
  /\ rstack = <<>>
  /\ rpath = <<>>

\* Mutant: the last entry is taken for the end.
MarkEarly(i) == IF i >= Len(log) THEN "end" ELSE log[i].mark

\* The mark at a place of the log; readahead_log_ptr gives 0xffffffff at the end.
Mark(i) == IF i > Len(log) THEN "end" ELSE log[i].mark

\* Bound: a target that runs past the end of the recording stops soon.
Walks(steps) == Len(rpath) <= Len(path) /\ rpath' = rpath \o steps

\* An exception, an assertion or a fault ends the session.
Fails(why) == rpc' = why /\ UNCHANGED <<pos, eip, rstack, rpath>>

Steps(from, to) == [i \in 1 .. (to - from) |-> Did("inst", from + i - 1, 0)]

StartReplay ==
  /\ rpc = "off"
  /\ rpc' = "cont"
  /\ UNCHANGED <<pos, eip, rstack, rpath>>

-----------------------------------------------------------------------------
(* One instruction: ptrace_single_step, single_step_syscall                *)

\* The entry an instruction takes from the log
Wanted(op) ==
  CASE op \in {"cond", "ind"} -> "target"
    [] op = "rdtsc"           -> "rdtsc"
    [] op = "int80"           -> "syscall"

\* log_end when the log stops, corrupted when it holds something else
Unread(mark) == Fails(IF mark = "end" THEN "end" ELSE "corrupt")

\* Instructions the target executes by itself
StepsFreely ==
  /\ prog[eip].op \in {"plain", "ud"}
  /\ eip' \in prog[eip].to
  /\ Walks(<<Did("inst", eip, 0)>>)
  /\ UNCHANGED <<pos, rstack>>

\* read_ptr_from_log: the log has the last word on where a branch goes.
StepsByLog ==
  /\ prog[eip].op \in {"cond", "ind"}
  /\ Mark(pos) = "target"
  /\ eip' = log[pos].value
  /\ pos' = pos + 1
  /\ Walks(<<Did("inst", eip, 0)>>)
  /\ UNCHANGED rstack

StepsRdtsc ==
  /\ prog[eip].op = "rdtsc"
  /\ Mark(pos) = "rdtsc"
  /\ eip' \in prog[eip].to
  /\ pos' = pos + 1
  /\ Walks(<<Did("inst", eip, log[pos].value)>>)
  /\ UNCHANGED rstack

StepsSyscall ==
  /\ prog[eip].op = "int80"
  /\ Mark(pos) = "syscall"
  /\ Mark(pos + 1) = "nosignal"
  /\ eip' \in prog[eip].to
  /\ pos' = pos + 2
  /\ Walks(<<Did("inst", eip, log[pos + 1].value)>>)
  /\ UNCHANGED rstack

\* signal_inst inside a system call: both marks are consumed, eip stays.
SyscallBroken ==
  /\ prog[eip].op = "int80"
  /\ Mark(pos) = "syscall"
  /\ Mark(pos + 1) = "signal"
  /\ pos' = pos + 2
  /\ rpc' = "cont"
  /\ Walks(<<Did("signal", log[pos + 1].value, 0)>>)
  /\ UNCHANGED <<eip, rstack>>

StepsWithoutLog ==
  /\ prog[eip].op \notin {"plain", "ud"}
  /\ \/ Mark(pos) # Wanted(prog[eip].op) /\ Unread(Mark(pos))
     \/ /\ prog[eip].op = "int80"
        /\ Mark(pos) = "syscall"
        /\ Mark(pos + 1) \notin {"nosignal", "signal"}
        /\ Unread(Mark(pos + 1))

\* The end of SN_single_step, for a caller that goes on with "then"
SingleStep(then) ==
  \/ rpc' = then /\ (StepsFreely \/ StepsByLog \/ StepsRdtsc \/ StepsSyscall)
  \/ SyscallBroken
  \/ StepsWithoutLog

-----------------------------------------------------------------------------
(* Signals                                                                 *)

\* Mutant: assert(curr_eip < marks.addr)
ContToSignalStrict ==
  /\ rpc = "signal"
  /\ \/ eip >= log[pos].value /\ Fails("assert")
     \/ eip < log[pos].value /\ SingleStep("signal")

\* cont_to_signal: steps to the address in the mark and asserts that it has not
\* passed it; there SN_single_step(NULL) writes to *cont_stop.
cont_to_signal ==
  /\ rpc = "signal"
  /\ \/ eip > log[pos].value /\ Fails("assert")
     \/ eip < log[pos].value /\ SingleStep("signal")
     \/ eip = log[pos].value /\ Fails("crash")

\* The handler's frame is in the log; its ip is the address of the signal.
setup_sighandler ==
  /\ rpc = "cont"
  /\ Mark(pos) = "signal2"
  /\ rstack' = Append(rstack, log[pos].value)
  /\ eip' = Handler
  /\ pos' = pos + 1
  /\ UNCHANGED <<rpc, rpath>>

sighandler_return ==
  /\ rpc = "cont"
  /\ Mark(pos) = "sigreturn"
  /\ IF eip # Sigreturn
     THEN Fails("corrupt")
     ELSE /\ eip' = rstack[Len(rstack)]
          /\ rstack' = SubSeq(rstack, 1, Len(rstack) - 1)
          /\ pos' = pos + 1
          /\ Walks(<<Did("sigreturn", Sigreturn, 0)>>)
          /\ UNCHANGED rpc

-----------------------------------------------------------------------------
(* The debugger's commands                                                 *)

\* SN_cont: to the next branch, as long as no signal is next
SN_cont ==
  /\ rpc = "cont"
  /\ eip # Sigreturn
  /\ Mark(pos) \in {"target", "syscall", "rdtsc", "end"}
  /\ eip' = scan_insts(prog, eip)
  /\ Walks(Steps(eip, eip'))
  /\ rpc' = "branch"
  /\ UNCHANGED <<pos, rstack>>

SN_cont_branch ==
  /\ rpc = "branch"
  /\ SingleStep("cont")

SN_cont_signal ==
  /\ rpc = "cont"
  /\ Mark(pos) = "signal"
  /\ rpc' = "signal"
  /\ UNCHANGED <<pos, eip, rstack, rpath>>

\* SN_cont on another mark, or in the wrapper when its mark was never written
SN_cont_fails ==
  /\ rpc = "cont"
  /\ \/ Mark(pos) = "nosignal"
     \/ eip = Sigreturn /\ Mark(pos) \notin {"sigreturn", "nosignal"}
  /\ Unread(Mark(pos))

\* PTRACE_SINGLESTEP
SN_single_step ==
  /\ rpc = "cont"
  /\ eip # Sigreturn
  /\ Mark(pos) \notin {"signal2", "sigreturn"}
  /\ IF Mark(pos) = "signal" /\ log[pos].value = eip
     THEN Fails("crash")
     ELSE SingleStep("cont")

-----------------------------------------------------------------------------
Replay ==
  \/ cont_to_signal
  \/ setup_sighandler
  \/ sighandler_return
  \/ SN_cont
  \/ SN_cont_branch
  \/ SN_cont_signal
  \/ SN_cont_fails
  \/ SN_single_step

ReplayNext ==
  \/ rpc = "off" /\ Next /\ UNCHANGED rvars
  \/ StartReplay /\ UNCHANGED vars
  \/ Replay /\ UNCHANGED vars

ReplaySpec == ReplayInit /\ [][ReplayNext]_<<vars, rvars>>

-----------------------------------------------------------------------------
(* Properties                                                              *)

\* The replayed program does what the recorded one did, in the same order and
\* with the same values, as far as either goes, and the replayer
\* (snitchaser_patch.c) never finds an entry it cannot make sense of.
ReplayFollows ==
  /\ \A i \in DOMAIN rpath \cap DOMAIN path : rpath[i] = path[i]
  /\ rpc # "corrupt"

\* When the replayer reports the end of the log, it has replayed everything the
\* log tells of.
ReplayCovers == rpc = "end" => Len(rpath) >= covered

\* A signal outside system calls that comes behind a jmp or call the log does not
\* show: every step since the last entry is of the program, and one is such a branch.
Blind(i) ==
  /\ path[i].kind = "signal"
  /\ \E j \in 1 .. (i - 1) :
       /\ \A k \in j .. (i - 1) : path[k].kind = "inst" /\ prog[path[k].addr].op \in {"plain", "ud"}
       /\ prog[path[j].addr].op = "ud"

\* "assert(curr_eip <= marks.addr)" (cont_to_signal) holds unless such a signal came.
NotPassed == rpc = "assert" => \E i \in DOMAIN path : Blind(i)

=============================================================================
