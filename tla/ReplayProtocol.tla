--------------------------- MODULE ReplayProtocol ---------------------------
(***************************************************************************)
(* The two processes of a replay: the host (gdbserver with                 *)
(* host/gdbserver/snitchaser_patch.c) and the target, which has restored a *)
(* checkpoint and runs helpers of libinterp.so whenever the host redirects *)
(* its eip there.  They exchange datagrams over a socket pair              *)
(* (host/sockpair.c, arch/x86/interp/sockpair.c); a helper ends when it    *)
(* kills itself with GDBSERVER_NOTIFICATION, which stops it for its        *)
(* tracer.  What the log says and how it steers the walk is the subject of *)
(* ReplayWalk; here every choice the log makes is open.                    *)
(***************************************************************************)
EXTENDS Integers, Sequences, SequencesExt, FiniteSetsExt

CONSTANTS
  Insts,      \* kinds of instruction the target may stand at
  Syscalls,   \* system calls in the log
  ReadsOf,    \* sizes the replay handler of each asks for, in order
  Supported,  \* system calls with a replay handler
  ChunkSize,  \* SEND_BUF_SZ, in units of the log
  QueueSize,  \* datagrams a socket holds
  MaxRounds,  \* bound: exchanges and host-only commands
  MaxInts     \* bound: SIGINTs sent to the target

ASSUME ProtocolAssumption ==
  /\ Insts \subseteq {"plain", "int3", "jmp", "rdtsc", "int80", "vdso", "call", "calln", "ret"}
  /\ Supported \subseteq Syscalls
  /\ ReadsOf \in [Syscalls -> Seq(Nat)]
  /\ {ChunkSize, QueueSize} \subseteq Nat \ {0}
  /\ {MaxRounds, MaxInts} \subseteq Nat

VARIABLES
  host,     \* control of the host
  caller,   \* who called SN_single_step: "gdb", "cont", or "fault" in SN_cont
  exchange, \* the helper the host talks to
  inst,     \* the instruction at the target's eip
  nr,       \* the system call read from the log
  hout,     \* what the host still sends before it receives again
  heard,    \* what the host received in this exchange
  logPos,   \* units of the log sent in this exchange
  why,      \* the exception that ended the host
  toTarget, toHost,  \* the datagrams in the two sockets
  helper,   \* what the target runs
  tgot,     \* what the helper received
  script,   \* what the helper still does
  taken,    \* units of the log the helper received
  stop,     \* "run", or the signal the target is stopped by
  reaped,   \* whether that stop was waited for
  rounds, ints

hostVars == <<caller, exchange, inst, nr>>
talkVars == <<hout, heard, logPos>>
targetVars == <<helper, tgot, script, taken>>
stopVars == <<stop, reaped>>
bounds == <<rounds, ints>>
vars == <<host, hostVars, talkVars, why, toTarget, toHost, targetVars, stopVars, bounds>>

-----------------------------------------------------------------------------
(* Messages                                                                *)

\* One datagram: its type, which fixes its size, and its value
Msg(k, v) == [k |-> k, v |-> v, n |-> 0]
Size(n) == [k |-> "u32", v |-> "size", n |-> n]
Data(n) == [k |-> "data", v |-> "log", n |-> n]
Bool(b) == Msg("bool", IF b THEN "yes" ELSE "no")
Yes(m) == m.v = "yes"

\* Mutated form of Chunks: one chunk too many.
ChunksOneMore(n) ==
  [i \in 1 .. (n \div ChunkSize + 1) |-> Data(Min({ChunkSize, n - (i - 1) * ChunkSize}))]

\* The chunks in which n units of the log are sent
Chunks(n) ==
  [i \in 1 .. ((n + ChunkSize - 1) \div ChunkSize) |->
     Data(Min({ChunkSize, n - (i - 1) * ChunkSize}))]

Units(s) == FoldSeq(LAMBDA m, sum : m.n + sum, 0, s)

\* Steps of a helper
Send(m) == [op |-> "send", m |-> m]
Take(n) == [op |-> "take", m |-> Data(n)]

-----------------------------------------------------------------------------
(* The helpers of the target                                               *)

\* Mutated form of is_branch_inst: forgets call_sz.
NoCallSize(i) ==
  IF i = "plain" THEN <<Bool(FALSE), Msg("ptr", "next")>>
  ELSE <<Bool(TRUE), Msg("ptr", "null"), Bool(i = "int3"),
         Bool(i \in {"jmp", "call"}), Bool(i = "rdtsc"), Bool(i = "int80"),
         Bool(i = "vdso"), Bool(i \in {"call", "calln"}), Bool(i = "ret")>>

\* What do_replay_is_branch_inst answers about instruction i: "call" is call
\* rel32, "calln" an indirect one, whose size is not told apart.
is_branch_inst(i) ==
  IF i = "plain" THEN <<Bool(FALSE), Msg("ptr", "next")>>
  ELSE <<Bool(TRUE), Msg("ptr", "null"), Bool(i = "int3"),
         Bool(i \in {"jmp", "call"}), Bool(i = "rdtsc"), Bool(i = "int80"),
         Bool(i = "vdso"), Bool(i \in {"call", "calln"})>>
       \o (IF i \in {"call", "calln"} THEN <<Size(5)>> ELSE <<>>)
       \o <<Bool(i = "ret")>>

\* Mutated form of read_syscall_data: takes one chunk.
TakeOneChunk(n) ==
  <<Send(Msg("u32", "read")), Send(Size(n)), Take(Min({n, ChunkSize}))>>

read_syscall_data(n) ==
  <<Send(Msg("u32", "read")), Send(Size(n)), Take(n)>>

\* do_replay_syscall_helper between the reception of its arguments and
\* notify_gdbserver
syscall_helper(s) ==
  <<Send(Msg("u32", "start"))>>
  \o FlattenSeq([i \in 1 .. Len(ReadsOf[s]) |-> read_syscall_data(ReadsOf[s][i])])
  \o <<Send(Msg("u32", "end"))>>

Sends(ms) == [i \in 1 .. Len(ms) |-> Send(ms[i])]

\* wait_for_attach
StartMessages == <<Msg("start", "START"), Msg("pid", "pid"), Msg("info", "SN_info")>>

\* What each helper receives first
Arguments(h) ==
  CASE h \in {"next", "step"} -> <<"ptr">>
    [] h = "sys" -> <<"int", "regs", "ptr">>
    [] OTHER -> <<>>

Running == stop = "run"

Ready == Running /\ Len(tgot) = Len(Arguments(helper))

\* A helper receives an argument; the last one decides what it does.
TargetReceives ==
  /\ Running
  /\ Len(tgot) < Len(Arguments(helper))
  /\ toTarget # <<>>
  /\ tgot' = Append(tgot, Head(toTarget))
  /\ toTarget' = Tail(toTarget)
  /\ script' =
       IF Len(tgot') < Len(Arguments(helper)) THEN <<>>
       ELSE CASE helper = "next" -> Sends(<<Msg("ptr", "branch")>>)
              [] helper = "step" -> Sends(is_branch_inst(tgot'[1].v))
              [] OTHER -> IF tgot'[1].v \in Supported
                          THEN syscall_helper(tgot'[1].v) ELSE <<>>
  /\ UNCHANGED <<host, hostVars, talkVars, why, toHost, helper, taken, stopVars, bounds>>

\* sock_send of the target; it blocks while the socket is full.
TargetSends ==
  /\ Ready
  /\ script # <<>>
  /\ Head(script).op = "send"
  /\ Len(toHost) < QueueSize
  /\ toHost' = Append(toHost, Head(script).m)
  /\ script' = Tail(script)
  /\ UNCHANGED <<host, hostVars, talkVars, why, toTarget, helper, tgot, taken, stopVars, bounds>>

\* One recv of sock_recv in the target: a datagram, or nothing more to take
TargetTakes ==
  /\ Ready
  /\ script # <<>>
  /\ Head(script).op = "take"
  /\ LET left == Head(script).m.n
     IN  \/ /\ left = 0
            /\ script' = Tail(script)
            /\ UNCHANGED <<toTarget, taken>>
         \/ /\ left > 0
            /\ toTarget # <<>>
            /\ script' = <<Take(left - Head(toTarget).n)>> \o Tail(script)
            /\ toTarget' = Tail(toTarget)
            /\ taken' = taken + Head(toTarget).n
  /\ UNCHANGED <<host, hostVars, talkVars, why, toHost, helper, tgot, stopVars, bounds>>

\* The target stops, and its tracer can wait for it.
Stops(sig) ==
  /\ stop' = sig
  /\ reaped' = FALSE

\* notify_gdbserver; FATAL, that is int3, for a system call without a handler
TargetNotifies ==
  /\ Ready
  /\ script = <<>>
  /\ helper \in {"next", "step", "sys"}
  /\ Stops(IF helper = "sys" /\ tgot[1].v \notin Supported THEN "trap" ELSE "note")
  /\ UNCHANGED <<host, hostVars, talkVars, why, toTarget, toHost, targetVars, bounds>>

\* The program runs to the breakpoint, or faults on the way to it.
ProgramStops ==
  /\ Running
  /\ helper = "program"
  /\ Stops("trap") \/ (host = "breakpoint" /\ Stops("fault"))
  /\ UNCHANGED <<host, hostVars, talkVars, why, toTarget, toHost, targetVars, bounds>>

\* SIGINT, which arch_replay_mask_signals leaves unblocked
Interrupted ==
  /\ Running
  /\ helper # "boot"
  /\ ints < MaxInts
  /\ ints' = ints + 1
  /\ Stops("int")
  /\ UNCHANGED <<host, hostVars, talkVars, why, toTarget, toHost, targetVars, rounds>>

-----------------------------------------------------------------------------
(* The host                                                                *)

Fails(e) == host' = "failed" /\ why' = e

\* The types the host receives in SN_single_step, after msgs
StepTypes(msgs) ==
  <<"bool", "ptr">>
  \o (IF msgs = <<>> \/ ~Yes(msgs[1]) THEN <<>>
      ELSE <<"bool", "bool", "bool", "bool", "bool", "bool">>
           \o (IF Len(msgs) > 7 /\ Yes(msgs[8]) THEN <<"u32">> ELSE <<>>)
           \o <<"bool">>)

\* The type the host receives after msgs, "none" when the exchange is over
Expects(msgs) ==
  LET types == CASE exchange = "start" -> <<"start", "pid", "info">>
                 [] exchange = "next" -> <<"ptr">>
                 [] OTHER -> StepTypes(msgs)
  IN  CASE exchange = "sys" -> IF msgs # <<>> /\ Last(msgs).v = "end" THEN "none" ELSE "u32"
        [] Len(msgs) < Len(types) -> types[Len(msgs) + 1]
        [] OTHER -> "none"

\* The host redirects the target to a helper and continues it; that takes back
\* a stop nobody waited for.
Redirects(h, out) ==
  /\ exchange' = h
  /\ hout' = out
  /\ heard' = <<>>
  /\ logPos' = 0
  /\ helper' = h
  /\ tgot' = <<>>
  /\ script' = <<>>
  /\ taken' = 0
  /\ stop' = "run"
  /\ reaped' = FALSE
  /\ host' = "send"

\* start_gdbserver after SN_info: attach, and SN_reset_state
Attach ==
  /\ host = "sync"
  /\ exchange = "start"
  /\ stop' = "stop"
  /\ reaped' = TRUE
  /\ host' = "idle"
  /\ UNCHANGED <<hostVars, talkVars, why, toTarget, toHost, targetVars, bounds>>

\* Where SN_single_step returns to
Return == [gdb |-> "returned", cont |-> "loop", fault |-> "reap"][caller]

\* Mutated form of adjust_wait_result: its wait takes the stop.
AdjustReaps(next) ==
  /\ reaped' = TRUE
  /\ \/ stop' = "trap" /\ host' = next /\ UNCHANGED why
     \/ stop' = "int" /\ Fails("wait")

\* adjust_wait_result: the target steps over a nop or an int3, and its stop is
\* left to gdbserver.  A SIGINT that was pending stops it instead.
adjust_wait_result(next) ==
  \/ Stops("trap") /\ host' = next /\ UNCHANGED why
  \/ Stops("int") /\ Fails("wait")

\* SN_single_step up to sock_send, where no signal is marked in the log
StepBegins(c, is) ==
  /\ caller' = c
  /\ \E i \in is : inst' = i /\ Redirects("step", <<Msg("ptr", i)>>)
  /\ UNCHANGED <<nr, why>>

SN_single_step ==
  /\ host = "idle"
  /\ rounds < MaxRounds
  /\ rounds' = rounds + 1
  /\ StepBegins("gdb", Insts)
  /\ UNCHANGED <<toTarget, toHost, ints>>

SN_cont ==
  /\ host = "idle"
  /\ host' = "loop"
  /\ UNCHANGED <<hostVars, talkVars, why, toTarget, toHost, targetVars, stopVars, bounds>>

\* SN_single_step or SN_cont comes to SIGNAL_MARK_2 or SIGRETURN_MARK:
\* setup_sighandler or sighandler_return moves the target, and the command ends.
MovesTarget ==
  /\ host \in {"idle", "loop"}
  /\ rounds < MaxRounds
  /\ rounds' = rounds + 1
  /\ adjust_wait_result("returned")
  /\ UNCHANGED <<hostVars, talkVars, toTarget, toHost, targetVars, ints>>

\* SN_cont asks for the next branch.
ContAsks ==
  /\ host = "loop"
  /\ rounds < MaxRounds
  /\ rounds' = rounds + 1
  /\ Redirects("next", <<Msg("ptr", "eip")>>)
  /\ UNCHANGED <<caller, inst, nr, why, toTarget, toHost, ints>>

\* sock_send of the host; it blocks while the socket is full.
HostSends ==
  /\ host = "send"
  /\ Len(toTarget) < QueueSize
  /\ toTarget' = Append(toTarget, Head(hout))
  /\ hout' = Tail(hout)
  /\ host' = IF hout' = <<>> THEN "recv" ELSE "send"
  /\ UNCHANGED <<hostVars, heard, logPos, why, toHost, targetVars, stopVars, bounds>>

\* The marks syscall_read_cycle accepts
Accepted(m) ==
  exchange = "sys" =>
    CASE heard = <<>> -> m.v = "start"
      [] heard # <<>> /\ Last(heard).v = "read" -> TRUE
      [] OTHER -> m.v \in {"read", "end"}

\* Whether the next message tells the host how much of the log to send
AsksForLog == exchange = "sys" /\ heard # <<>> /\ Last(heard).v = "read"

\* sock_recv of the host with a datagram in its socket
HostReceives ==
  /\ host = "recv"
  /\ toHost # <<>>
  /\ LET m == Head(toHost)
     IN  /\ heard' = Append(heard, m)
         /\ hout' = IF AsksForLog THEN Chunks(m.n) ELSE <<>>
         /\ logPos' = logPos + Units(hout')
         /\ IF ~Accepted(m) THEN Fails("unsync")
            ELSE /\ host' = CASE hout' # <<>> -> "send"
                              [] Expects(heard') = "none" -> "sync"
                              [] OTHER -> "recv"
                 /\ UNCHANGED why
  /\ toHost' = Tail(toHost)
  /\ UNCHANGED <<hostVars, toTarget, targetVars, stopVars, bounds>>

\* select in sock_recv finds nothing for 100 ms.
HostTimesOut ==
  /\ host = "recv"
  /\ toHost = <<>>
  /\ host' = "timeout"
  /\ UNCHANGED <<hostVars, talkVars, why, toTarget, toHost, targetVars, stopVars, bounds>>

\* Mutated form of HostChecks: receives again, whatever the target does.
ChecksNothing ==
  /\ host = "timeout"
  /\ host' = "recv"
  /\ UNCHANGED <<hostVars, talkVars, why, toTarget, toHost, targetVars, stopVars, bounds>>

\* The waitid behind the timeout.  Until SN_info has come the pid is 0, and
\* waitid fails.
HostChecks ==
  /\ host = "timeout"
  /\ \/ exchange = "start" /\ Fails("ptrace")
     \/ exchange # "start" /\ ~Running /\ Fails("signaled")
     \/ exchange # "start" /\ Running /\ host' = "recv" /\ UNCHANGED why
  /\ UNCHANGED <<hostVars, talkVars, toTarget, toHost, targetVars, stopVars, bounds>>

\* wait_for_replayer_sync finds the notification; behind a get_next_branch the
\* host sets a breakpoint and continues the program.
HostSyncs ==
  /\ host = "sync"
  /\ stop = "note"
  /\ \/ /\ exchange = "next"
        /\ helper' = "program"
        /\ tgot' = <<>>
        /\ stop' = "run"
        /\ reaped' = FALSE
        /\ host' = "breakpoint"
     \/ /\ exchange \in {"step", "sys"}
        /\ reaped' = TRUE
        /\ host' = exchange
        /\ UNCHANGED <<helper, tgot, stop>>
  /\ UNCHANGED <<hostVars, talkVars, why, toTarget, toHost, script, taken, bounds>>

\* wait_for_replayer_sync finds another signal.
HostSyncFails ==
  /\ host = "sync"
  /\ exchange # "start"
  /\ stop \notin {"run", "note"}
  /\ reaped' = TRUE
  /\ Fails("wait")
  /\ UNCHANGED <<hostVars, talkVars, toTarget, toHost, targetVars, stop, bounds>>

\* The end of single_step_syscall
SyscallDone ==
  /\ host = "sys"
  /\ adjust_wait_result(Return)
  /\ UNCHANGED <<hostVars, talkVars, toTarget, toHost, targetVars, bounds>>

IsSyscall == Yes(heard[1]) /\ (Yes(heard[6]) \/ Yes(heard[7]))

\* single_step_syscall redirects the target to the helper,
StepsSyscall ==
  /\ host = "step"
  /\ IsSyscall
  /\ \E s \in Syscalls :
       /\ nr' = s
       /\ Redirects("sys", <<Msg("int", s), Msg("regs", "new_regs"), Msg("ptr", "new_eip")>>)
  /\ UNCHANGED <<caller, inst, why, toTarget, toHost, bounds>>

\* or finds that a signal broke the call (signal_inst).
StepsBrokenSyscall ==
  /\ host = "step"
  /\ IsSyscall
  /\ adjust_wait_result(IF caller = "cont" THEN "returned" ELSE Return)
  /\ UNCHANGED <<hostVars, talkVars, toTarget, toHost, targetVars, bounds>>

\* ptrace_single_step: the target executes its instruction, whose stop is left
\* to gdbserver, or faults, and adjust_wait_result makes that a SIGTRAP.
StepsInst ==
  /\ host = "step"
  /\ ~IsSyscall
  /\ \/ Stops("trap") /\ host' = Return /\ UNCHANGED why
     \/ Stops("int") /\ Fails(IF inst = "rdtsc" THEN "wait" ELSE "signaled")
     \/ inst # "rdtsc" /\ adjust_wait_result(Return)
  /\ UNCHANGED <<hostVars, talkVars, toTarget, toHost, targetVars, bounds>>

\* The log ends where the host reads it, also in the middle of an exchange.
LogEnds ==
  /\ \/ host = "step" /\ inst \in {"rdtsc", "int80", "vdso", "ret", "calln"}
     \/ host = "send" /\ Head(hout).k \in {"regs", "data"}
  /\ Fails("log")
  /\ UNCHANGED <<hostVars, talkVars, toTarget, toHost, targetVars, stopVars, bounds>>

\* SN_cont waits for the program, takes its stop and the breakpoint away, and
\* steps over the branch, or leaves an int3 of gdb's to the program.
AtBreakpoint ==
  /\ host = "breakpoint"
  /\ stop = "trap"
  /\ \/ StepBegins("cont", Insts \ {"plain", "int3"})
     \/ /\ stop' = "run"
        /\ reaped' = FALSE
        /\ host' = "returned"
        /\ UNCHANGED <<hostVars, talkVars, why, targetVars>>
  /\ UNCHANGED <<toTarget, toHost, bounds>>

\* The program stopped elsewhere.
NotAtBreakpoint ==
  /\ host = "breakpoint"
  /\ \/ /\ stop = "fault"
        /\ StepBegins("fault", Insts)
     \/ /\ stop = "int"
        /\ reaped' = TRUE
        /\ Fails("signaled")
        /\ UNCHANGED <<hostVars, talkVars, targetVars, stop>>
  /\ UNCHANGED <<toTarget, toHost, bounds>>

\* my_waitid of SN_cont behind the step over a fault
HostReaps ==
  /\ host = "reap"
  /\ ~Running
  /\ ~reaped
  /\ reaped' = TRUE
  /\ host' = "loop"
  /\ UNCHANGED <<hostVars, talkVars, why, toTarget, toHost, targetVars, stop, bounds>>

\* gdbserver waits for the target of the command it issued.
GdbserverWaits ==
  /\ host = "returned"
  /\ ~Running
  /\ ~reaped
  /\ reaped' = TRUE
  /\ host' = "idle"
  /\ UNCHANGED <<hostVars, talkVars, why, toTarget, toHost, targetVars, stop, bounds>>

-----------------------------------------------------------------------------
Init ==
  /\ host = "recv"
  /\ caller = "gdb"
  /\ exchange = "start"
  /\ inst = "none"
  /\ nr = "none"
  /\ hout = <<>>
  /\ heard = <<>>
  /\ logPos = 0
  /\ why = "none"
  /\ toTarget = <<>>
  /\ toHost = <<>>
  /\ helper = "boot"
  /\ tgot = <<>>
  /\ script = Sends(StartMessages)
  /\ taken = 0
  /\ stop = "run"
  /\ reaped = FALSE
  /\ rounds = 0
  /\ ints = 0

Commands == SN_single_step \/ SN_cont

HostStep ==
  \/ Attach \/ MovesTarget \/ ContAsks
  \/ HostSends \/ HostReceives \/ HostTimesOut \/ HostChecks
  \/ HostSyncs \/ HostSyncFails
  \/ SyscallDone \/ StepsSyscall \/ StepsBrokenSyscall \/ StepsInst \/ LogEnds
  \/ AtBreakpoint \/ NotAtBreakpoint \/ HostReaps \/ GdbserverWaits

TargetStep ==
  \/ TargetReceives \/ TargetSends \/ TargetTakes \/ TargetNotifies \/ ProgramStops

Next == Commands \/ HostStep \/ TargetStep \/ Interrupted

Spec == Init /\ [][Next]_vars

FairSpec == Spec /\ WF_vars(HostStep) /\ WF_vars(TargetStep)

-----------------------------------------------------------------------------
(* Properties                                                              *)

\* Both ends agree on the conversation: a datagram is always of the type its
\* receiver asks for next, and log data never exceeds what a handler still wants
\* (a longer datagram would be cut, a shorter one would leave sock_recv waiting);
\* when the host acts on an answer it is the answer to its own question.
Agree ==
  /\ host = "step" => heard = is_branch_inst(inst)
  /\ host = "recv" /\ toHost # <<>> => Head(toHost).k = Expects(heard)
  /\ why # "unsync"
  /\ Running /\ toTarget # <<>> =>
       \/ /\ Len(tgot) < Len(Arguments(helper))
          /\ Head(toTarget).k = Arguments(helper)[Len(tgot) + 1]
       \/ /\ script # <<>>
          /\ Head(script).op = "take"
          /\ Head(toTarget).k = "data"
          /\ Head(toTarget).n <= Head(script).m.n

\* Between exchanges nothing is left in the sockets that the next exchange would
\* take for its own answer.
Quiet ==
  host \notin {"send", "recv", "timeout", "sync", "failed"} =>
    toTarget = <<>> /\ toHost = <<>>

\* A handler has been given every unit the host took from the log for its system
\* call when the call counts as replayed, and it asked for each of them: log and
\* replay stay in step.
LogInStep ==
  host = "sys" => /\ taken = logPos
                  /\ taken = FoldSeq(LAMBDA n, sum : n + sum, 0, ReadsOf[nr])

\* When a command returns, gdbserver's own wait finds a stop to report, or the
\* target still runs to it (adjust_wait_result); and sock_recv reports a target
\* that did no wrong as signaled only if the answer came, whole, between its
\* timeout and its waitid.
StopsReported ==
  /\ host = "returned" => Running \/ ~reaped
  /\ why = "signaled" /\ stop = "note" =>
       CASE exchange = "step" -> heard \o toHost = is_branch_inst(inst)
         [] exchange = "next" -> Len(heard \o toHost) = 1
         [] OTHER -> Last(heard \o toHost).v = "end"

InExchange == host \in {"send", "recv", "timeout", "sync"}

\* The host waits in send for a target that a signal stopped: sock_send has no
\* timeout.
HungInSend ==
  host = "send" /\ Len(toTarget) = QueueSize /\ stop \in {"int", "trap"}

\* Every exchange comes to an end, by its answer or by an exception, unless the
\* host hangs in sock_send; in particular no exchange leaves both ends waiting.
ExchangeEnds == InExchange ~> (~InExchange \/ HungInSend)
=============================================================================
