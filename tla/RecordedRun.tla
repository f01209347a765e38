---------------------------- MODULE RecordedRun ----------------------------
(***************************************************************************)
(* What is true of a recorded thread at every step, for the proofs: of its *)
(* control, its frames and its links (CacheInv), and of its log and its    *)
(* history, which tell the run step by step (TraceInv).                    *)
(***************************************************************************)
EXTENDS CodeCache

\* The top of a stack, and what is below it
Last(s) == s[Len(s)]
Front(s) == SubSeq(s, 1, Len(s) - 1)

\* Only plain instructions lie between the entry of the block and the address
\* compiled code has reached.
InBlock(a) ==
  /\ a.block \in DOMAIN prog
  /\ a.addr \in DOMAIN prog
  /\ a.block <= a.addr
  /\ \A x \in DOMAIN prog : a.block <= x /\ x < a.addr => prog[x].op = "plain"

\* What is known where compiled code can be interrupted: in a block that is
\* current_block, and in a system call, whose template has set target
PlaceOK(p, a, tg, cur) ==
  /\ InBlock(a)
  /\ cur = a.block
  /\ p # "code" => prog[a.addr].op = "int80" /\ tg \in prog[a.addr].to

\* What do_real_branch finds: where it has to go, and if the exit of
\* current_block can be recompiled, that this exit led here
BranchOK ==
  /\ target \in DOMAIN prog \cup {Sigreturn}
  /\ current \in Blocks
  /\ exit_type(current) = "EXIT_UNCOND_DIRECT" =>
       /\ current \in DOMAIN prog
       /\ prog[scan_insts(prog, current)].op = "ud"
       /\ target \in prog[scan_insts(prog, current)].to
  /\ target = Sigreturn =>
       exit_type(current) = "EXIT_UNCOND_INDIRECT" /\ frames # <<>>

Control ==
  /\ pc \in {"head", "code", "int80", "post", "branch", "sigreturn", "end"}
  /\ pc = "head" => InBlock(at) /\ at.addr = at.block
  /\ pc \in {"code", "int80", "post"} => PlaceOK(pc, at, target, current)
  /\ pc = "branch" => BranchOK
  /\ pc = "sigreturn" => target = Sigreturn /\ frames # <<>>

\* A frame holds a place code can go on from.
Frames == [pc : {"code", "int80"}, at : [block : Nat, addr : Nat], target : Nat,
           nr : Int, current : Nat]

FramesOK ==
  /\ frames \in Seq(Frames)
  /\ \A i \in 1 .. Len(frames) :
       PlaceOK(frames[i].pc, frames[i].at, frames[i].target, frames[i].current)

\* LinksRight for blocks that are not in the cache, too
LinksOK ==
  /\ link \in [Blocks -> Int]
  /\ \A b \in Blocks : link[b] # None =>
       /\ b \in DOMAIN prog
       /\ prog[scan_insts(prog, b)].op = "ud"
       /\ link[b] \in prog[scan_insts(prog, b)].to

CacheTypes ==
  /\ prog \in Programs
  /\ cache \subseteq Blocks
  /\ at \in [block : Int, addr : Nat]
  /\ target \in Nat
  /\ nr \in Int
  /\ current \in Int

CacheInv == CacheTypes /\ Control /\ FramesOK /\ LinksOK

\* The addresses handlers return to, the mapping's stack
Returns(s) == [i \in DOMAIN s |-> s[i].at.addr]
Stack == Returns(frames)

-----------------------------------------------------------------------------
(* What the log and the history tell of the recorded run.  A place is the  *)
(* program between two steps: the address reached, the first log entry     *)
(* not written before, the return addresses on the stack.                  *)

At(t, p, ops) == t.ip \in DOMAIN p /\ p[t.ip].op \in ops
Holds(lg, i, mark) == i \in 1 .. Len(lg) /\ lg[i].mark = mark

\* A step from t to u, with d in the history and its entries in the log
Freely(p, t, u, d) ==
  /\ At(t, p, {"plain", "ud"})
  /\ d = Did("inst", t.ip, 0)
  /\ u.ip \in p[t.ip].to /\ u.pos = t.pos /\ u.stk = t.stk

Branches(p, lg, t, u, d) ==
  /\ At(t, p, {"cond", "ind"})
  /\ Holds(lg, t.pos, "target")
  /\ d = Did("inst", t.ip, 0)
  /\ u.ip = lg[t.pos].value /\ u.pos = t.pos + 1 /\ u.stk = t.stk

ReadsTsc(p, lg, t, u, d) ==
  /\ At(t, p, {"rdtsc"})
  /\ Holds(lg, t.pos, "rdtsc")
  /\ d = Did("inst", t.ip, lg[t.pos].value)
  /\ u.ip \in p[t.ip].to /\ u.pos = t.pos + 1 /\ u.stk = t.stk

Calls(p, lg, t, u, d) ==
  /\ At(t, p, {"int80"})
  /\ Holds(lg, t.pos, "syscall") /\ Holds(lg, t.pos + 1, "nosignal")
  /\ d = Did("inst", t.ip, lg[t.pos + 1].value)
  /\ u.ip \in p[t.ip].to /\ u.pos = t.pos + 2 /\ u.stk = t.stk

Breaks(p, lg, t, u, d) ==
  /\ At(t, p, {"int80"})
  /\ Holds(lg, t.pos, "syscall")
  /\ Holds(lg, t.pos + 1, "signal") /\ lg[t.pos + 1].value = t.ip
  /\ Holds(lg, t.pos + 2, "signal2") /\ lg[t.pos + 2].value = t.ip
  /\ d = Did("signal", t.ip, 0)
  /\ u.ip = Handler /\ u.pos = t.pos + 3 /\ u.stk = Append(t.stk, t.ip)

ComesBack(lg, t, u, d) ==
  /\ t.ip = Sigreturn /\ t.stk # <<>>
  /\ Holds(lg, t.pos, "sigreturn")
  /\ d = Did("sigreturn", Sigreturn, 0)
  /\ u.ip = Last(t.stk) /\ u.pos = t.pos + 1 /\ u.stk = Front(t.stk)

Follows(p, lg, t, u, d) ==
  \/ Freely(p, t, u, d)
  \/ Branches(p, lg, t, u, d)
  \/ ReadsTsc(p, lg, t, u, d)
  \/ Calls(p, lg, t, u, d)
  \/ Breaks(p, lg, t, u, d)
  \/ ComesBack(lg, t, u, d)

\* The places T[0] .. T[h] of a run with log lg and history pt
Trace(p, lg, pt, T, h) ==
  /\ h \in 0 .. Len(pt)
  /\ \A k \in 0 .. h : T[k].ip \in Nat /\ T[k].pos \in Nat
  /\ T[0].ip = Start /\ T[0].pos = 1 /\ T[0].stk = <<>>
  /\ \A k \in 1 .. h : Follows(p, lg, T[k - 1], T[k], pt[k])

\* Signals have come in system calls only.
InCalls == \A i \in 1 .. Len(frames) : frames[i].pc = "int80" /\ frames[i].nr = frames[i].at.addr

\* The last place is where the recorded program is; the entry of a system call
\* it is in is written already.
Goes(t, h) ==
  /\ h = Len(path) /\ pc # "end"
  /\ t.ip = Eip /\ t.stk = Stack
  /\ InCalls
  /\ pc \in {"int80", "post"} => t.pos = Len(log) /\ Holds(log, t.pos, "syscall") /\ nr = at.addr
  /\ pc \notin {"int80", "post"} => t.pos = Len(log) + 1

\* A signal has come outside system calls; the replay goes no further.
Stumbles(t, h) ==
  /\ h + 1 \in 1 .. Len(path) /\ path[h + 1].kind = "signal"
  /\ Holds(log, t.pos, "signal") /\ log[t.pos].value = t.ip /\ t.ip \in DOMAIN prog

\* A signal has ended the program in a system call.
Dies(t, h) ==
  /\ pc = "end" /\ h + 1 = Len(path) /\ path[h + 1] = Did("signal", t.ip, 0)
  /\ At(t, prog, {"int80"})
  /\ Len(log) = t.pos + 1
  /\ Holds(log, t.pos, "syscall")
  /\ Holds(log, t.pos + 1, "signal") /\ log[t.pos + 1].value = t.ip

Rest(t, h) == Goes(t, h) \/ Stumbles(t, h) \/ Dies(t, h)

TraceInv == \E T, h : Trace(prog, log, path, T, h) /\ Rest(T[h], h)

Entries == [mark : {"target", "rdtsc", "syscall", "nosignal", "signal", "signal2", "sigreturn"},
            value : Int]
Deeds == [kind : {"inst", "signal", "sigreturn"}, addr : Int, value : Int]

HistTypes ==
  /\ log \in Seq(Entries)
  /\ path \in Seq(Deeds)
  /\ covered \in 0 .. Len(path)

\* A run with such a trace
OnTrace(T, h) == Trace(prog, log, path, T, h) /\ Rest(T[h], h)

\* What holds of the recorder and of what it has written
RecInv == CacheInv /\ HistTypes /\ TraceInv
=============================================================================
