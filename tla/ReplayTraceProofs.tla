------------------------- MODULE ReplayTraceProofs -------------------------
(***************************************************************************)
(* How the replayer walks along the trace of a recorded run, one step of   *)
(* the replayer at a time, for every program and every recorded run.       *)
(***************************************************************************)
EXTENDS ReplayWalk, RecordedRun, WellFoundedInduction, TLAPS

-----------------------------------------------------------------------------
(* The program and the recorded run, which a replay leaves as they are     *)

\* Where the instructions of a program go
LEMMA ProgramSteps ==
  ASSUME prog \in Programs, NEW a \in DOMAIN prog
  PROVE  /\ a \in Nat /\ a # Sigreturn
         /\ prog[a].op \in Ops
         /\ prog[a].to \subseteq DOMAIN prog \cup {Sigreturn}
         /\ prog[a].op = "plain" => prog[a].to = {a + 1}
         /\ Sigreturn \in prog[a].to => prog[a].op = "ind"
BY ProgramAssumption

\* Its addresses
LEMMA ProgramPlaces ==
  ASSUME prog \in Programs
  PROVE  /\ DOMAIN prog \subseteq Blocks
         /\ DOMAIN prog \subseteq Nat
         /\ Fate \notin DOMAIN prog
         /\ Start \in DOMAIN prog /\ Handler \in DOMAIN prog
         /\ Sigreturn \in Nat /\ Sigreturn \notin DOMAIN prog
BY ProgramAssumption DEF Blocks, Addrs, Fate

\* The recorded run does not change while nothing is recorded.
LEMMA OnTraceStill ==
  ASSUME UNCHANGED vars, NEW T, NEW h, OnTrace(T, h)
  PROVE  OnTrace(T, h)'
<1>1. /\ prog' = prog /\ log' = log /\ path' = path /\ pc' = pc /\ at' = at /\ nr' = nr
      /\ frames' = frames /\ target' = target
  BY DEF vars
<1>2. Trace(prog, log, path, T, h)'
  BY <1>1 DEF OnTrace
<1>3. CASE Goes(T[h], h)
  BY <1>1, <1>2, <1>3 DEF OnTrace, Rest, Goes, InCalls, Stack, Eip
<1>4. CASE Stumbles(T[h], h)
  BY <1>1, <1>2, <1>4 DEF OnTrace, Rest, Stumbles
<1>5. CASE Dies(T[h], h)
  BY <1>1, <1>2, <1>5 DEF OnTrace, Rest, Dies
<1> QED
  BY <1>3, <1>4, <1>5 DEF OnTrace, Rest

-----------------------------------------------------------------------------
(* Induction over the steps of a run                                       *)

\* A set of natural numbers has a least one.
LEMMA LeastExists ==
  ASSUME NEW S, S \subseteq Nat, S # {}
  PROVE  \E x \in S : \A y \in S : x <= y
<1> DEFINE R == OpToRel(<, Nat)
<1>1. R = {ss \in Nat \X Nat : ss[1] < ss[2]}
  BY Zenon DEF OpToRel
<1>2. IsWellFoundedOn(R, Nat)
  BY NatLessThanWellFounded, Zenon
<1> HIDE DEF R
<1>3. PICK x \in S : \A y \in S : ~(<<y, x>> \in R)
  BY <1>2, WFMin, Zenon
<1>4. ASSUME NEW y \in S PROVE ~(y < x)
  <2>1. <<y, x>> \in Nat \X Nat /\ <<y, x>>[1] = y /\ <<y, x>>[2] = x
    OBVIOUS
  <2> QED
    BY <1>1, <1>3, <2>1, Zenon
<1> QED
  BY <1>4

\* What holds at a and is handed on by each step holds up to b.
LEMMA Onwards ==
  ASSUME NEW a \in Nat, NEW b \in Nat, NEW S,
         a <= b => a \in S, \A n \in a .. b - 1 : n \in S => n + 1 \in S
  PROVE  \A n \in a .. b : n \in S
<1> DEFINE X == {n \in a .. b : n \notin S}
<1>1. SUFFICES ASSUME X # {} PROVE FALSE
  OBVIOUS
<1>2. PICK x \in X : \A y \in X : x <= y
  <2>1. X \subseteq Nat
    OBVIOUS
  <2> HIDE DEF X
  <2> QED
    BY <1>1, <2>1, LeastExists, Zenon
<1>3. x \in a .. b /\ x \notin S /\ x # a
  OBVIOUS
<1>4. x - 1 \in a .. b - 1 /\ (x - 1) + 1 = x
  BY <1>3
<1>5. x - 1 \in S
  BY <1>2, <1>4
<1> QED
  BY <1>3, <1>4, <1>5

\* What holds at b and is handed back by each step holds down to 0.
LEMMA Backwards ==
  ASSUME NEW b \in Nat, NEW S, b \in S, \A n \in 0 .. b - 1 : n + 1 \in S => n \in S
  PROVE  \A n \in 0 .. b : n \in S
<1> DEFINE X == {n \in 0 .. b : b - n \notin S}
<1>1. ASSUME X = {} PROVE \A n \in 0 .. b : n \in S
  <2>1. \A n \in 0 .. b : b - n \in 0 .. b /\ b - (b - n) = n
    OBVIOUS
  <2>2. \A m \in 0 .. b : b - m \in S
    BY <1>1
  <2> QED
    BY <2>1, <2>2
<1>2. SUFFICES ASSUME X # {} PROVE FALSE
  BY <1>1
<1>3. PICK x \in X : \A y \in X : x <= y
  <2>1. X \subseteq Nat
    OBVIOUS
  <2> HIDE DEF X
  <2> QED
    BY <1>2, <2>1, LeastExists, Zenon
<1>4. x \in 0 .. b /\ b - x \notin S /\ x # 0
  OBVIOUS
<1>5. x - 1 \in 0 .. b /\ b - x \in 0 .. b - 1 /\ b - (x - 1) = (b - x) + 1
  BY <1>4
<1>6. b - (x - 1) \in S
  BY <1>3, <1>5
<1> QED
  BY <1>4, <1>5, <1>6

\* scan_insts finds an exit, and only plain instructions lie before it.
LEMMA Scan ==
  ASSUME prog \in Programs, NEW a \in DOMAIN prog, NEW b, b = scan_insts(prog, a)
  PROVE  /\ a \in Nat /\ b \in Nat /\ b \in DOMAIN prog /\ a <= b
         /\ \A c \in a .. b - 1 : c \in DOMAIN prog /\ prog[c].op = "plain"
<1> DEFINE X == {c \in DOMAIN prog : c >= a /\ prog[c].op # "plain"}
<1>1. DOMAIN prog \subseteq Nat
  BY ProgramAssumption
<1>2. \A c \in DOMAIN prog : prog[c].op = "plain" => c + 1 \in DOMAIN prog
  <2>1. SUFFICES ASSUME NEW c \in DOMAIN prog, prog[c].op = "plain" PROVE c + 1 \in DOMAIN prog
    OBVIOUS
  <2>2. /\ prog[c].to = {c + 1} /\ prog[c].to \subseteq DOMAIN prog \cup {Sigreturn}
        /\ (Sigreturn \in prog[c].to => prog[c].op = "ind")
    BY <2>1, ProgramSteps
  <2> QED
    BY <2>1, <2>2
<1>3. PICK top \in DOMAIN prog : \A c \in DOMAIN prog : c <= top
  BY ProgramAssumption
<1>4. top \in X
  <2>1. prog[top].op # "plain"
    BY <1>1, <1>2, <1>3
  <2> QED
    BY <1>1, <1>3, <2>1
<1>5. X \subseteq Nat /\ X # {}
  BY <1>1, <1>4
<1>6. b = CHOOSE x \in X : \A y \in X : x <= y
  BY DEF scan_insts
<1>7. b \in X /\ \A y \in X : b <= y
  <2> HIDE DEF X
  <2>1. \E x \in X : \A y \in X : x <= y
    BY <1>5, LeastExists, Zenon
  <2> QED
    BY <1>6, <2>1
<1>8. a \in Nat /\ b \in Nat /\ b \in DOMAIN prog /\ a <= b
  BY <1>1, <1>7
<1>9. \A c \in DOMAIN prog : c \in a .. b - 1 => prog[c].op = "plain"
  BY <1>1, <1>7, <1>8
<1>10. \A c \in a .. b : c \in DOMAIN prog
  <2>1. \A n \in a .. b - 1 : n \in DOMAIN prog => n + 1 \in DOMAIN prog
    BY <1>2, <1>9
  <2> HIDE DEF X
  <2> QED
    BY <1>8, <2>1, Onwards, Zenon
<1>11. \A c \in a .. b - 1 : c \in a .. b
  BY <1>8
<1> QED
  BY <1>8, <1>9, <1>10, <1>11

-----------------------------------------------------------------------------
(* Where the replayer is on the trace of the recorded run                  *)

\* Behind k steps of the recorded run
Along(T, k) ==
  /\ Len(rpath) = k /\ \A i \in 1 .. k : rpath[i] = path[i]
  /\ eip = T[k].ip /\ pos = T[k].pos /\ rstack = T[k].stk
  /\ rpc \in {"cont", "branch", "signal", "end", "crash", "assert"}
  /\ rpc = "signal" => Mark(pos) = "signal"
  /\ rpc = "branch" => eip # Sigreturn /\ Mark(pos) # "signal"
  /\ rpc = "end" => k = Len(path)
  /\ rpc = "assert" => \E i \in DOMAIN path : Blind(i)

\* In a system call broken by a signal: signal_inst is done, setup_sighandler is not.
Midway(T, k) ==
  /\ Breaks(prog, log, T[k], T[k + 1], path[k + 1])
  /\ Len(rpath) = k + 1 /\ \A i \in 1 .. k + 1 : rpath[i] = path[i]
  /\ eip = T[k].ip /\ pos = T[k].pos + 2 /\ rstack = T[k].stk
  /\ rpc = "cont"

\* Behind all of the recorded run
Past ==
  /\ Len(path) <= Len(rpath) /\ \A i \in 1 .. Len(path) : rpath[i] = path[i]
  /\ pos \in Nat /\ pos > Len(log)
  /\ rpc \in {"cont", "branch", "end"}
  /\ eip \in DOMAIN prog \cup {Sigreturn}
  /\ rpc = "branch" => eip # Sigreturn

Idle == rpc = "off" /\ pos = 1 /\ eip = Start /\ rstack = <<>> /\ rpath = <<>>

WalkInv ==
  /\ rpath \in Seq(Deeds)
  /\ \/ Idle
     \/ Past
     \/ \E T, h : /\ OnTrace(T, h)
                  /\ (\E k \in 0 .. h : Along(T, k)) \/ (\E k \in 0 .. h - 1 : Midway(T, k))

-----------------------------------------------------------------------------
(* Which mark the replayer finds                                           *)

\* Mark is the entry at a place of the log.
LEMMA MarkHeld ==
  ASSUME HistTypes, NEW i, NEW m, Holds(log, i, m)
  PROVE  Mark(i) = m
BY DEF Holds, Mark, HistTypes

\* Mark is "end" behind the log.
LEMMA MarkEnd ==
  ASSUME NEW i, i > Len(log)
  PROVE  Mark(i) = "end"
BY DEF Mark

\* An instruction that is neither a conditional nor an indirect branch goes one way.
LEMMA OneWay ==
  ASSUME prog \in Programs, NEW a \in DOMAIN prog, prog[a].op \notin {"cond", "ind"},
         NEW x \in prog[a].to, NEW y \in prog[a].to
  PROVE  x = y
<1>1. \E b \in prog[a].to : prog[a].to = {b}
  BY ProgramAssumption
<1> QED
  BY <1>1

\* The log stops behind the last place, or before the call there is over.
Stops(t, h) == h = Len(path) /\ t.pos = Len(log) + 1
InCall(t, h) ==
  h = Len(path) /\ t.pos = Len(log) /\ At(t, prog, {"int80"}) /\ Holds(log, t.pos, "syscall")

\* What there is at the last place of the trace
LEMMA LastPlace ==
  ASSUME CacheInv, NEW t, NEW h, Rest(t, h)
  PROVE  /\ t.ip \in DOMAIN prog \cup {Sigreturn}
         /\ \/ Stops(t, h)
            \/ /\ InCall(t, h) \/ Stumbles(t, h) \/ Dies(t, h)
               /\ t.ip \in DOMAIN prog
<1>1. CASE Goes(t, h)
  <2>1. h = Len(path) /\ pc # "end" /\ t.ip = Eip
    BY <1>1 DEF Goes
  <2>2. CASE pc \in {"int80", "post"}
    <3>1. At(t, prog, {"int80"})
      BY <2>1, <2>2 DEF CacheInv, Control, PlaceOK, InBlock, Eip, At
    <3>2. t.pos = Len(log) /\ Holds(log, t.pos, "syscall")
      BY <1>1, <2>2 DEF Goes
    <3> QED
      BY <2>1, <3>1, <3>2 DEF InCall, At
  <2>3. CASE pc \notin {"int80", "post"}
    <3>1. t.pos = Len(log) + 1
      BY <1>1, <2>3 DEF Goes
    <3>2. t.ip \in DOMAIN prog \cup {Sigreturn}
      <4>1. pc \in {"head", "code", "branch", "sigreturn"}
        BY <2>1, <2>3 DEF CacheInv, Control
      <4>2. CASE pc = "head"
        BY <2>1, <4>2 DEF CacheInv, Control, InBlock, Eip
      <4>3. CASE pc = "code"
        BY <2>1, <4>3 DEF CacheInv, Control, PlaceOK, InBlock, Eip
      <4>4. CASE pc = "branch"
        BY <2>1, <4>4 DEF CacheInv, Control, BranchOK, Eip
      <4>5. CASE pc = "sigreturn"
        BY <2>1, <4>5 DEF CacheInv, Control, Eip
      <4> QED
        BY <4>1, <4>2, <4>3, <4>4, <4>5
    <3> QED
      BY <2>1, <3>1, <3>2 DEF Stops
  <2> QED
    BY <2>2, <2>3
<1>2. CASE Stumbles(t, h)
  BY <1>2 DEF Stumbles
<1>3. CASE Dies(t, h)
  BY <1>3 DEF Dies, At
<1> QED
  BY <1>1, <1>2, <1>3 DEF Rest

\* What the mark at a place tells
Tells(T, h, k) ==
  /\ Mark(T[k].pos) \in {"target", "rdtsc", "syscall", "sigreturn", "signal", "end"}
  /\ Mark(T[k].pos) = "sigreturn" => T[k].ip = Sigreturn /\ k # h
  /\ Mark(T[k].pos) = "signal" =>
       /\ Stumbles(T[h], h) /\ T[k].pos = T[h].pos
       /\ \A j \in k .. h - 1 : Freely(prog, T[j], T[j + 1], path[j + 1])

\* No free step leads to the wrapper.
LEMMA FreeElsewhere ==
  ASSUME prog \in Programs, NEW t, NEW u, NEW d, Freely(prog, t, u, d)
  PROVE  u.ip # Sigreturn
BY ProgramSteps DEF Freely, At

\* Every mark tells what comes: the replayer meets no other (SN_cont, SN_single_step).
LEMMA MarksTell ==
  ASSUME CacheInv, HistTypes, NEW T, NEW h, OnTrace(T, h)
  PROVE  \A k \in 0 .. h : Tells(T, h, k)
<1> DEFINE S == {k \in 0 .. h : Tells(T, h, k)}
<1>0. h \in Nat /\ prog \in Programs /\ Len(log) \in Nat
  BY DEF OnTrace, Trace, CacheInv, CacheTypes, HistTypes
<1>1. Tells(T, h, h)
  <2>1. T[h].pos \in Nat
    BY <1>0 DEF OnTrace, Trace
  <2>2. Stops(T[h], h) \/ InCall(T[h], h) \/ Stumbles(T[h], h) \/ Dies(T[h], h)
    BY LastPlace DEF OnTrace
  <2>3. CASE Stops(T[h], h)
    BY <1>0, <2>1, <2>3, MarkEnd DEF Stops, Tells
  <2>4. CASE InCall(T[h], h)
    BY <2>4, MarkHeld DEF InCall, Tells
  <2>5. CASE Stumbles(T[h], h)
    <3>1. Mark(T[h].pos) = "signal"
      BY <2>5, MarkHeld DEF Stumbles
    <3>2. h .. h - 1 = {}
      BY <1>0
    <3> QED
      BY <2>5, <3>1, <3>2 DEF Tells
  <2>6. CASE Dies(T[h], h)
    BY <2>6, MarkHeld, Zenon DEF Dies, Tells
  <2> QED
    BY <2>2, <2>3, <2>4, <2>5, <2>6
<1>2. ASSUME NEW k \in 0 .. h - 1, Tells(T, h, k + 1) PROVE Tells(T, h, k)
  <2>1. k + 1 \in 1 .. h /\ (k + 1) - 1 = k /\ k # h
    BY <1>0
  <2>2. Follows(prog, log, T[k], T[k + 1], path[k + 1])
    BY <2>1, Zenon DEF OnTrace, Trace
  <2>3. CASE Freely(prog, T[k], T[k + 1], path[k + 1])
    <3>1. T[k].pos = T[k + 1].pos
      BY <2>3 DEF Freely
    <3>2. T[k + 1].ip # Sigreturn
      BY <1>0, <2>3, FreeElsewhere
    <3>3. \A j \in k .. h - 1 : j = k \/ j \in k + 1 .. h - 1
      BY <1>0
    <3> QED
      BY <1>2, <2>3, <3>1, <3>2, <3>3 DEF Tells
  <2>4. CASE Branches(prog, log, T[k], T[k + 1], path[k + 1])
    BY <2>4, MarkHeld, Zenon DEF Branches, Tells
  <2>5. CASE ReadsTsc(prog, log, T[k], T[k + 1], path[k + 1])
    BY <2>5, MarkHeld, Zenon DEF ReadsTsc, Tells
  <2>6. CASE Calls(prog, log, T[k], T[k + 1], path[k + 1])
    BY <2>6, MarkHeld, Zenon DEF Calls, Tells
  <2>7. CASE Breaks(prog, log, T[k], T[k + 1], path[k + 1])
    BY <2>7, MarkHeld DEF Breaks, Tells
  <2>8. CASE ComesBack(log, T[k], T[k + 1], path[k + 1])
    BY <2>1, <2>8, MarkHeld DEF ComesBack, Tells
  <2> QED
    BY <2>2, <2>3, <2>4, <2>5, <2>6, <2>7, <2>8 DEF Follows
<1>3. h \in S
  BY <1>0, <1>1
<1>4. \A n \in 0 .. h - 1 : n + 1 \in S => n \in S
  BY <1>0, <1>2
<1> HIDE DEF S
<1>5. \A n \in 0 .. h : n \in S
  BY <1>0, <1>3, <1>4, Backwards, Zenon
<1> QED
  BY <1>5 DEF S

-----------------------------------------------------------------------------
(* SingleStep on the trace and behind it                                   *)

\* SingleStep at a place that is not the last does what the recorded run did there.
LEMMA StepAlong ==
  ASSUME prog \in Programs, HistTypes, NEW t, NEW u, NEW d, Follows(prog, log, t, u, d),
         eip = t.ip, pos = t.pos, rstack = t.stk, eip # Sigreturn,
         NEW then, SingleStep(then)
  PROVE  /\ rpath' = rpath \o <<d>>
         /\ \/ rpc' = then /\ eip' = u.ip /\ pos' = u.pos /\ rstack' = u.stk
            \/ /\ Breaks(prog, log, t, u, d)
               /\ rpc' = "cont" /\ eip' = eip /\ pos' = pos + 2 /\ rstack' = rstack
<1>1. CASE Freely(prog, t, u, d)
  <2>1. prog[eip].op \in {"plain", "ud"} /\ eip \in DOMAIN prog /\ u.ip \in prog[eip].to
    BY <1>1, Zenon DEF Freely, At
  <2>2. StepsFreely /\ rpc' = then
    BY <2>1, Zenon DEF SingleStep, StepsByLog, StepsRdtsc, StepsSyscall, SyscallBroken, StepsWithoutLog
  <2>3. eip' = u.ip
    BY <2>1, <2>2, OneWay, SMTT(30) DEF StepsFreely
  <2> QED
    BY <1>1, <2>2, <2>3 DEF StepsFreely, Walks, Freely
<1>2. CASE Branches(prog, log, t, u, d)
  <2>1. prog[eip].op \in {"cond", "ind"} /\ Mark(pos) = "target"
    BY <1>2, MarkHeld DEF Branches, At
  <2>2. Wanted(prog[eip].op) = "target"
    BY <2>1, Zenon DEF Wanted
  <2>3. StepsByLog /\ rpc' = then
    BY <2>1, <2>2, Zenon DEF SingleStep, StepsFreely, StepsRdtsc, StepsSyscall, SyscallBroken, StepsWithoutLog
  <2> QED
    BY <1>2, <2>3, SMTT(30) DEF StepsByLog, Walks, Branches
<1>3. CASE ReadsTsc(prog, log, t, u, d)
  <2>1. /\ prog[eip].op = "rdtsc" /\ Mark(pos) = "rdtsc"
        /\ eip \in DOMAIN prog /\ u.ip \in prog[eip].to
    BY <1>3, MarkHeld DEF ReadsTsc, At
  <2>2. Wanted(prog[eip].op) = "rdtsc"
    BY <2>1, Zenon DEF Wanted
  <2>3. StepsRdtsc /\ rpc' = then
    BY <2>1, <2>2, Zenon DEF SingleStep, StepsFreely, StepsByLog, StepsSyscall, SyscallBroken, StepsWithoutLog
  <2>4. eip' = u.ip
    BY <2>1, <2>3, OneWay, Zenon DEF StepsRdtsc
  <2> QED
    BY <1>3, <2>3, <2>4 DEF StepsRdtsc, Walks, ReadsTsc
<1>4. CASE Calls(prog, log, t, u, d)
  <2>1. /\ prog[eip].op = "int80" /\ Mark(pos) = "syscall" /\ Mark(pos + 1) = "nosignal"
        /\ eip \in DOMAIN prog /\ u.ip \in prog[eip].to
    BY <1>4, MarkHeld DEF Calls, At
  <2>2. Wanted(prog[eip].op) = "syscall"
    BY <2>1, Zenon DEF Wanted
  <2>3. StepsSyscall /\ rpc' = then
    BY <2>1, <2>2, Zenon DEF SingleStep, StepsFreely, StepsByLog, StepsRdtsc, SyscallBroken, StepsWithoutLog
  <2>4. eip' = u.ip
    BY <2>1, <2>3, OneWay, Zenon DEF StepsSyscall
  <2> QED
    BY <1>4, <2>3, <2>4 DEF StepsSyscall, Walks, Calls
<1>5. CASE Breaks(prog, log, t, u, d)
  <2>1. prog[eip].op = "int80" /\ Mark(pos) = "syscall" /\ Mark(pos + 1) = "signal"
    BY <1>5, MarkHeld DEF Breaks, At
  <2>2. Wanted(prog[eip].op) = "syscall"
    BY <2>1, Zenon DEF Wanted
  <2>3. SyscallBroken
    BY <2>1, <2>2, Zenon DEF SingleStep, StepsFreely, StepsByLog, StepsRdtsc, StepsSyscall, StepsWithoutLog
  <2>4. d = Did("signal", log[pos + 1].value, 0)
    BY <1>5 DEF Breaks
  <2> QED
    BY <1>5, <2>3, <2>4 DEF SyscallBroken, Walks
<1>6. CASE ComesBack(log, t, u, d)
  BY <1>6 DEF ComesBack
<1> QED
  BY <1>1, <1>2, <1>3, <1>4, <1>5, <1>6, Zenon DEF Follows

\* SingleStep where the log stops goes on by itself or reports the end.
LEMMA StepBehind ==
  ASSUME prog \in Programs, eip \in DOMAIN prog, Mark(pos) = "end", NEW then, SingleStep(then)
  PROVE  \/ /\ rpc' = then /\ pos' = pos /\ rpath' = rpath \o <<Did("inst", eip, 0)>>
            /\ eip' \in DOMAIN prog \cup {Sigreturn}
         \/ rpc' = "end" /\ UNCHANGED <<pos, eip, rstack, rpath>>
<1>1. CASE prog[eip].op \in {"plain", "ud"}
  <2>1. StepsFreely /\ rpc' = then
    BY <1>1 DEF SingleStep, StepsByLog, StepsRdtsc, StepsSyscall, SyscallBroken, StepsWithoutLog
  <2> QED
    BY <2>1, ProgramSteps DEF StepsFreely, Walks
<1>2. CASE prog[eip].op \notin {"plain", "ud"}
  <2>1. StepsWithoutLog
    BY <1>2, Zenon DEF SingleStep, StepsFreely, StepsByLog, StepsRdtsc, StepsSyscall, SyscallBroken
  <2> QED
    BY <2>1, Zenon DEF StepsWithoutLog, Unread, Fails
<1> QED
  BY <1>1, <1>2, Zenon

\* SingleStep in a system call whose result is not in the log reports the end.
LEMMA StepInCall ==
  ASSUME prog[eip].op = "int80", Mark(pos) = "syscall", Mark(pos + 1) = "end",
         NEW then, SingleStep(then)
  PROVE  rpc' = "end" /\ UNCHANGED <<pos, eip, rstack, rpath>>
<1>1. Wanted(prog[eip].op) = "syscall"
  BY DEF Wanted
<1>2. StepsWithoutLog
  BY DEF SingleStep, StepsFreely, StepsByLog, StepsRdtsc, StepsSyscall, SyscallBroken
<1> QED
  BY <1>1, <1>2 DEF StepsWithoutLog, Unread, Fails

\* SingleStep in a system call a signal ended takes both marks.
LEMMA StepDies ==
  ASSUME prog[eip].op = "int80", Mark(pos) = "syscall", Mark(pos + 1) = "signal",
         NEW then, SingleStep(then)
  PROVE  /\ rpc' = "cont" /\ pos' = pos + 2 /\ eip' = eip
         /\ rpath' = rpath \o <<Did("signal", log[pos + 1].value, 0)>>
<1>1. Wanted(prog[eip].op) = "syscall"
  BY Zenon DEF Wanted
<1>2. SyscallBroken
  BY <1>1 DEF SingleStep, StepsFreely, StepsByLog, StepsRdtsc, StepsSyscall, StepsWithoutLog
<1> QED
  BY <1>2 DEF SyscallBroken, Walks

-----------------------------------------------------------------------------
(* Runs of plain instructions                                              *)

\* m plain instructions from a on
PlainFrom(a, m) == \A c \in a .. a + m - 1 : c \in DOMAIN prog /\ prog[c].op = "plain"

\* The trace takes them one by one from its place k on, as far as it goes.
RunsFrom(T, h, k, a, m) ==
  \A n \in 0 .. m : k + n <= h =>
    /\ T[k + n].ip = a + n /\ T[k + n].pos = T[k].pos /\ T[k + n].stk = T[k].stk
    /\ n # 0 => path[k + n] = Did("inst", a + n - 1, 0)

\* A run of plain instructions is in the history one by one (SN_cont).
LEMMA PlainRun ==
  ASSUME prog \in Programs, NEW T, NEW h, Trace(prog, log, path, T, h), h \in Nat,
         NEW k \in 0 .. h, NEW a \in Nat, NEW m \in Nat, T[k].ip = a, PlainFrom(a, m)
  PROVE  RunsFrom(T, h, k, a, m)
<1> DEFINE P(n) == k + n <= h =>
             /\ T[k + n].ip = a + n /\ T[k + n].pos = T[k].pos /\ T[k + n].stk = T[k].stk
             /\ n # 0 => path[k + n] = Did("inst", a + n - 1, 0)
           S == {n \in 0 .. m : P(n)}
<1>1. P(0)
  OBVIOUS
<1>2. ASSUME NEW n \in 0 .. m - 1, P(n), k + (n + 1) <= h
      PROVE  /\ T[k + (n + 1)].ip = a + (n + 1) /\ T[k + (n + 1)].pos = T[k].pos
             /\ T[k + (n + 1)].stk = T[k].stk
             /\ path[k + (n + 1)] = Did("inst", a + (n + 1) - 1, 0)
  <2>1. /\ k + (n + 1) \in 1 .. h /\ (k + (n + 1)) - 1 = k + n /\ k + n <= h
        /\ a + n \in a .. a + m - 1 /\ a + (n + 1) - 1 = a + n /\ a + (n + 1) = (a + n) + 1
    BY <1>2
  <2>2. T[k + n].ip = a + n /\ T[k + n].pos = T[k].pos /\ T[k + n].stk = T[k].stk
    BY <1>2, <2>1
  <2>3. Follows(prog, log, T[k + n], T[k + (n + 1)], path[k + (n + 1)])
    <3> HIDE DEF P
    <3> QED
      BY <2>1, Zenon DEF Trace
  <2>4. a + n \in DOMAIN prog /\ prog[a + n].op = "plain" /\ a + n # Sigreturn
        /\ prog[a + n].to = {(a + n) + 1}
    BY <2>1, ProgramSteps, Zenon DEF PlainFrom
  <2>5. Freely(prog, T[k + n], T[k + (n + 1)], path[k + (n + 1)])
    BY <2>2, <2>3, <2>4, Zenon DEF Follows, Branches, ReadsTsc, Calls, Breaks, ComesBack, At
  <2> QED
    BY <2>1, <2>2, <2>4, <2>5, Zenon DEF Freely
<1>3. \A n \in 0 .. m - 1 : n \in S => n + 1 \in S
  <2>1. ASSUME NEW n \in 0 .. m - 1, P(n) PROVE P(n + 1)
    BY <1>2, <2>1
  <2> HIDE DEF P
  <2> QED
    BY <2>1
<1>4. 0 \in S
  BY <1>1
<1> HIDE DEF S
<1>5. \A n \in 0 .. m : n \in S
  BY <1>3, <1>4, Onwards
<1> QED
  BY <1>5 DEF S, RunsFrom

\* The end of a run from a to b
LEMMA RunEnd ==
  ASSUME NEW a \in Nat, NEW b \in Nat, NEW m \in Nat, m = b - a
  PROVE  a + m = b
OBVIOUS

\* Its last address
LEMMA RunLast ==
  ASSUME NEW a \in Nat, NEW b \in Nat, NEW m \in Nat, m = b - a
  PROVE  a + m - 1 = b - 1
OBVIOUS

\* An address of the run is before its end.
LEMMA InRun ==
  ASSUME NEW a \in Nat, NEW b \in Nat, NEW m \in Nat, m = b - a, NEW n \in 0 .. m - 1
  PROVE  a + n \in a .. b - 1
OBVIOUS

\* What the history of the target holds behind one step
LEMMA TakesStep ==
  ASSUME rpath \in Seq(Deeds), NEW d \in Deeds, rpath' = rpath \o <<d>>
  PROVE  /\ rpath' \in Seq(Deeds) /\ Len(rpath') = Len(rpath) + 1 /\ Len(rpath) \in Nat
         /\ \A i \in 1 .. Len(rpath) : rpath'[i] = rpath[i]
         /\ rpath'[Len(rpath) + 1] = d
OBVIOUS

\* What is appended follows what was there.
LEMMA Joined ==
  ASSUME NEW S, NEW s \in Seq(S), NEW t \in Seq(S)
  PROVE  /\ s \o t \in Seq(S)
         /\ Len(s \o t) = Len(s) + Len(t)
         /\ \A i \in 1 .. Len(s) + Len(t) :
              (s \o t)[i] = IF i <= Len(s) THEN s[i] ELSE t[i - Len(s)]
OBVIOUS

\* What it holds behind a run of plain instructions
LEMMA TakesRun ==
  ASSUME rpath \in Seq(Deeds), NEW a \in Nat, NEW b \in Nat, a <= b,
         rpath' = rpath \o Steps(a, b)
  PROVE  /\ rpath' \in Seq(Deeds) /\ Len(rpath') = Len(rpath) + (b - a) /\ Len(rpath) \in Nat
         /\ \A i \in 1 .. Len(rpath) : rpath'[i] = rpath[i]
         /\ \A i \in 1 .. b - a : rpath'[Len(rpath) + i] = Did("inst", a + i - 1, 0)
<1> DEFINE r == Steps(a, b)
<1>1. \A i \in 1 .. b - a : Did("inst", a + i - 1, 0) \in Deeds
  BY DEF Did, Deeds
<1>2. b - a \in Nat /\ r = [i \in 1 .. b - a |-> Did("inst", a + i - 1, 0)]
  BY DEF Steps
<1>3. r \in Seq(Deeds) /\ Len(r) = b - a
  BY <1>1, <1>2
<1>4. \A i \in 1 .. b - a : r[i] = Did("inst", a + i - 1, 0)
  BY <1>2
<1> HIDE DEF r
<1>5. rpath' = rpath \o r
  BY DEF r
<1>6. /\ rpath' \in Seq(Deeds) /\ Len(rpath') = Len(rpath) + Len(r) /\ Len(rpath) \in Nat
      /\ \A i \in 1 .. Len(rpath) : rpath'[i] = rpath[i]
      /\ \A i \in 1 .. Len(r) : rpath'[Len(rpath) + i] = r[i]
  <2>1. Len(rpath) \in Nat /\ Len(r) \in Nat
    BY <1>3
  <2>2. /\ rpath \o r \in Seq(Deeds) /\ Len(rpath \o r) = Len(rpath) + Len(r)
        /\ \A i \in 1 .. Len(rpath) + Len(r) :
             (rpath \o r)[i] = IF i <= Len(rpath) THEN rpath[i] ELSE r[i - Len(rpath)]
    BY <1>3, Joined, Zenon
  <2>3. PICK q : q = rpath \o r
    BY Zenon
  <2>4. /\ q \in Seq(Deeds) /\ Len(q) = Len(rpath) + Len(r)
        /\ \A i \in 1 .. Len(rpath) + Len(r) :
             q[i] = IF i <= Len(rpath) THEN rpath[i] ELSE r[i - Len(rpath)]
    BY <2>2, <2>3, Zenon
  <2>5. rpath' = q
    BY <1>5, <2>3
  <2>6. ASSUME NEW n \in Nat, NEW l \in Nat, \A i \in 1 .. n + l :
                 q[i] = IF i <= n THEN rpath[i] ELSE r[i - n]
        PROVE  (\A i \in 1 .. n : q[i] = rpath[i]) /\ (\A i \in 1 .. l : q[n + i] = r[i])
    <3>1. /\ \A i \in 1 .. n : i \in 1 .. n + l /\ i <= n
          /\ \A i \in 1 .. l : n + i \in 1 .. n + l /\ ~(n + i <= n) /\ (n + i) - n = i
      OBVIOUS
    <3> QED
      BY <2>6, <3>1
  <2>7. /\ \A i \in 1 .. Len(rpath) : q[i] = rpath[i]
        /\ \A i \in 1 .. Len(r) : q[Len(rpath) + i] = r[i]
    BY <2>1, <2>4, <2>6, Zenon
  <2> QED
    BY <2>1, <2>4, <2>5, <2>7, Zenon
<1> QED
  BY <1>3, <1>4, <1>6

\* A signal ahead that the target has passed comes behind a jmp or call.
LEMMA PassedBlind ==
  ASSUME CacheInv, HistTypes, NEW T, NEW h, OnTrace(T, h), NEW k \in 0 .. h,
         Mark(T[k].pos) = "signal", T[k].ip > T[h].ip
  PROVE  \E i \in DOMAIN path : Blind(i)
<1>0. /\ h \in Nat /\ prog \in Programs /\ \A j \in 0 .. h : T[j].ip \in Nat
      /\ path \in Seq(Deeds)
  BY SMTT(30) DEF OnTrace, Trace, CacheInv, CacheTypes, HistTypes
<1>1. /\ Stumbles(T[h], h)
      /\ \A j \in k .. h - 1 : Freely(prog, T[j], T[j + 1], path[j + 1])
  BY MarksTell DEF Tells
<1>2. PICK j \in k .. h - 1 : prog[T[j].ip].op = "ud"
  <2>1. SUFFICES ASSUME \A j \in k .. h - 1 : prog[T[j].ip].op # "ud" PROVE FALSE
    BY Zenon
  <2> DEFINE S == {j \in k .. h : T[j].ip = T[k].ip + (j - k)}
  <2>2. ASSUME NEW j \in k .. h - 1 PROVE T[j + 1].ip = T[j].ip + 1
    <3>1. Freely(prog, T[j], T[j + 1], path[j + 1])
      BY <1>1, Zenon
    <3>2. T[j].ip \in DOMAIN prog /\ prog[T[j].ip].op = "plain" /\ T[j + 1].ip \in prog[T[j].ip].to
      BY <2>1, <3>1, Zenon DEF Freely, At
    <3> QED
      BY <1>0, <3>2, ProgramSteps
  <2>3. k \in S
    BY <1>0
  <2>4. ASSUME NEW j \in k .. h - 1, j \in S PROVE j + 1 \in S
    <3>1. j + 1 \in k .. h /\ (j + 1) - k = (j - k) + 1 /\ j - k \in Nat /\ T[k].ip \in Nat
      BY <1>0
    <3>2. T[j].ip = T[k].ip + (j - k) /\ T[j + 1].ip = T[j].ip + 1
      BY <2>2, <2>4
    <3> QED
      BY <3>1, <3>2
  <2> HIDE DEF S
  <2>5. \A j \in k .. h : j \in S
    <3>1. k \in Nat
      BY <1>0
    <3> QED
      BY <1>0, <2>3, <2>4, <3>1, Onwards, Zenon
  <2>6. T[h].ip = T[k].ip + (h - k)
    BY <1>0, <2>5 DEF S
  <2> QED
    BY <1>0, <2>6
<1>3. h + 1 \in DOMAIN path /\ path[h + 1].kind = "signal"
  BY <1>0, <1>1, SMTT(30) DEF Stumbles
<1>4. ASSUME NEW m \in j + 1 .. h
      PROVE  path[m].kind = "inst" /\ path[m].addr = T[m - 1].ip /\ prog[T[m - 1].ip].op \in {"plain", "ud"}
  <2>1. m - 1 \in k .. h - 1 /\ (m - 1) + 1 = m
    BY <1>0, SMTT(30)
  <2>2. Freely(prog, T[m - 1], T[m], path[m])
    BY <1>1, <2>1
  <2> QED
    BY <2>2 DEF Freely, At, Did
<1>5. j + 1 \in 1 .. h /\ j + 1 \in j + 1 .. h /\ (j + 1) - 1 = j /\ (h + 1) - 1 = h
  BY <1>0
<1>6. prog[path[j + 1].addr].op = "ud"
  BY <1>2, <1>4, <1>5
<1>7. \A m \in j + 1 .. h : path[m].kind = "inst" /\ prog[path[m].addr].op \in {"plain", "ud"}
  BY <1>4, Zenon
<1>8. Blind(h + 1)
  BY <1>3, <1>5, <1>6, <1>7 DEF Blind
<1> QED
  BY <1>3, <1>8, Zenon

-----------------------------------------------------------------------------
(* The replayer stays on the trace                                         *)

\* A place on the trace stays one when only rpc changes (Fails, SN_cont_signal).
LEMMA StaysAlong ==
  ASSUME HistTypes, rpath \in Seq(Deeds), UNCHANGED vars, NEW T, NEW h, OnTrace(T, h),
         NEW k \in 0 .. h, Along(T, k), UNCHANGED <<pos, eip, rstack, rpath>>,
         rpc' \in {"signal", "end", "crash", "assert"},
         rpc' = "signal" => Mark(pos) = "signal",
         rpc' = "end" => k = Len(path),
         rpc' = "assert" => \E i \in DOMAIN path : Blind(i)
  PROVE  WalkInv'
<1>1. OnTrace(T, h)'
  BY OnTraceStill
<1>2. path' = path /\ log' = log /\ prog' = prog
  BY DEF vars
<1>3. Mark(pos)' = Mark(pos)
  BY <1>2, Zenon DEF Mark
<1>4. (\E i \in DOMAIN path : Blind(i)) => (\E i \in DOMAIN path : Blind(i))'
  BY <1>2, Zenon DEF Blind
<1>5. Along(T, k)'
  BY <1>2, <1>3, <1>4, Zenon DEF Along
<1> QED
  BY <1>1, <1>5 DEF WalkInv

\* SingleStep before the last place
LEMMA WalksOn ==
  ASSUME RecInv, rpath \in Seq(Deeds), UNCHANGED vars, NEW T, NEW h, OnTrace(T, h),
         NEW k \in 0 .. h - 1, Along(T, k), eip # Sigreturn,
         NEW then \in {"cont", "signal"}, then = "signal" => Mark(pos) = "signal",
         SingleStep(then)
  PROVE  WalkInv'
<1>0. /\ h \in Nat /\ prog \in Programs /\ path \in Seq(Deeds) /\ Len(path) \in Nat /\ h <= Len(path)
      /\ HistTypes /\ CacheInv
  BY SMTT(30) DEF RecInv, OnTrace, Trace, CacheInv, CacheTypes, HistTypes
<1>1. OnTrace(T, h)' /\ path' = path /\ log' = log /\ prog' = prog
  BY OnTraceStill DEF vars
<1>2. k + 1 \in 1 .. h /\ k + 1 \in 0 .. h /\ (k + 1) - 1 = k /\ k \in 0 .. h /\ k + 1 \in 1 .. Len(path)
  BY <1>0, SMTT(30)
<1>3. Follows(prog, log, T[k], T[k + 1], path[k + 1]) /\ path[k + 1] \in Deeds
  BY <1>0, <1>2 DEF OnTrace, Trace
<1>4. /\ Len(rpath) = k /\ (\A i \in 1 .. k : rpath[i] = path[i])
      /\ eip = T[k].ip /\ pos = T[k].pos /\ rstack = T[k].stk
  BY ZenonT(40) DEF Along
<1>5. /\ rpath' = rpath \o <<path[k + 1]>>
      /\ \/ rpc' = then /\ eip' = T[k + 1].ip /\ pos' = T[k + 1].pos /\ rstack' = T[k + 1].stk
         \/ /\ Breaks(prog, log, T[k], T[k + 1], path[k + 1])
            /\ rpc' = "cont" /\ eip' = eip /\ pos' = pos + 2 /\ rstack' = rstack
  BY <1>0, <1>3, <1>4, StepAlong, SMTT(30)
<1>6. /\ rpath' \in Seq(Deeds) /\ Len(rpath') = k + 1
      /\ (\A i \in 1 .. k : rpath'[i] = rpath[i]) /\ rpath'[k + 1] = path[k + 1]
  BY <1>3, <1>4, <1>5, TakesStep
<1>7. \A i \in 1 .. k + 1 : rpath'[i] = path[i]
  <2>1. \A i \in 1 .. k + 1 : i \in 1 .. k \/ i = k + 1
    BY <1>0
  <2> QED
    BY <1>4, <1>6, <2>1
<1>8. CASE rpc' = then /\ eip' = T[k + 1].ip /\ pos' = T[k + 1].pos /\ rstack' = T[k + 1].stk
  <2>1. then = "signal" => Mark(pos)' = "signal"
    <3>1. SUFFICES ASSUME then = "signal" PROVE Mark(pos)' = "signal"
      BY Zenon
    <3>2. Mark(T[k].pos) = "signal"
      BY <1>4, <3>1
    <3>3. k \in k .. h - 1
      OBVIOUS
    <3>4. Freely(prog, T[k], T[k + 1], path[k + 1])
      BY <1>0, <1>2, <3>2, <3>3, MarksTell DEF Tells
    <3>5. pos' = pos
      BY <1>4, <1>8, <3>4, Zenon DEF Freely
    <3> QED
      BY <1>1, <3>1, <3>5 DEF Mark
  <2>2. Along(T, k + 1)'
    BY <1>1, <1>6, <1>7, <1>8, <2>1, SMTT(30) DEF Along
  <2> QED
    BY <1>1, <1>2, <1>6, <2>2, Zenon DEF WalkInv
<1>9. CASE /\ Breaks(prog, log, T[k], T[k + 1], path[k + 1])
           /\ rpc' = "cont" /\ eip' = eip /\ pos' = pos + 2 /\ rstack' = rstack
  <2>1. Breaks(prog, log, T[k], T[k + 1], path[k + 1])'
    BY <1>1, <1>9, Zenon
  <2>2. Midway(T, k)'
    BY <1>1, <1>4, <1>6, <1>7, <1>9, <2>1, SMTT(30) DEF Midway
  <2> QED
    BY <1>1, <1>6, <2>2 DEF WalkInv
<1> QED
  BY <1>5, <1>8, <1>9, SMTT(30)

\* SingleStep at the last place, where no signal is to be delivered
LEMMA WalksOut ==
  ASSUME RecInv, rpath \in Seq(Deeds), UNCHANGED vars, NEW T, NEW h, OnTrace(T, h),
         Along(T, h), eip # Sigreturn, Mark(pos) # "signal", SingleStep("cont")
  PROVE  WalkInv'
<1>0. /\ h \in Nat /\ prog \in Programs /\ path \in Seq(Deeds) /\ Len(path) \in Nat
      /\ HistTypes /\ CacheInv /\ Rest(T[h], h) /\ h \in 0 .. h /\ Len(log) \in Nat
      /\ T[h].pos \in Nat
  BY DEF RecInv, OnTrace, Trace, CacheInv, CacheTypes, HistTypes
<1>1. path' = path /\ log' = log /\ prog' = prog
  BY Zenon DEF vars
<1>2. /\ Len(rpath) = h /\ (\A i \in 1 .. h : rpath[i] = path[i])
      /\ eip = T[h].ip /\ pos = T[h].pos
  BY Zenon DEF Along
<1>3. eip \in DOMAIN prog
  BY <1>0, <1>2, LastPlace, Zenon
<1>4. ASSUME rpc' = "end", UNCHANGED <<pos, eip, rstack, rpath>>, h = Len(path) PROVE WalkInv'
  BY <1>0, <1>4, StaysAlong, Zenon
<1>5. ASSUME NEW d \in Deeds, rpath' = rpath \o <<d>>,
             h = Len(path) \/ (h + 1 = Len(path) /\ d = path[h + 1]),
             rpc' = "cont", pos' \in Nat, pos' > Len(log), eip' \in DOMAIN prog \cup {Sigreturn}
      PROVE  WalkInv'
  <2>1. /\ rpath' \in Seq(Deeds) /\ Len(rpath') = h + 1
        /\ (\A i \in 1 .. h : rpath'[i] = rpath[i]) /\ rpath'[h + 1] = d
    BY <1>2, <1>5, TakesStep, Zenon
  <2>2. Len(path) <= Len(rpath')
    BY <1>0, <1>5, <2>1
  <2>3. ASSUME NEW i \in 1 .. Len(path) PROVE rpath'[i] = path[i]
    <3>1. i \in 1 .. h \/ (i = h + 1 /\ d = path[h + 1])
      BY <1>0, <1>5
    <3> QED
      BY <1>2, <2>1, <3>1, Zenon
  <2>4. Past'
    BY <1>1, <1>5, <2>2, <2>3 DEF Past
  <2> QED
    BY <2>1, <2>4, Zenon DEF WalkInv
<1>6. CASE Stops(T[h], h)
  <2>1. Mark(pos) = "end" /\ pos > Len(log) /\ pos \in Nat /\ h = Len(path)
    BY <1>0, <1>2, <1>6, MarkEnd, SMTT(30) DEF Stops
  <2>2. Did("inst", eip, 0) \in Deeds
    BY <1>0, <1>3, ProgramSteps DEF Did, Deeds
  <2>3. \/ /\ rpc' = "cont" /\ pos' = pos /\ rpath' = rpath \o <<Did("inst", eip, 0)>>
           /\ eip' \in DOMAIN prog \cup {Sigreturn}
        \/ rpc' = "end" /\ UNCHANGED <<pos, eip, rstack, rpath>>
    BY <1>0, <1>3, <2>1, StepBehind, Zenon
  <2>4. PICK d : d = Did("inst", eip, 0)
    OBVIOUS
  <2>5. CASE rpc' = "end" /\ UNCHANGED <<pos, eip, rstack, rpath>>
    BY <1>4, <2>1, <2>5
  <2>6. CASE /\ rpc' = "cont" /\ pos' = pos /\ rpath' = rpath \o <<d>>
             /\ eip' \in DOMAIN prog \cup {Sigreturn}
    <3>1. d \in Deeds /\ pos' \in Nat /\ pos' > Len(log) /\ rpc' = "cont"
      BY <2>1, <2>2, <2>4, <2>6
    <3> QED
      BY <1>5, <2>1, <2>6, <3>1, Zenon
  <2> QED
    BY <2>3, <2>4, <2>5, <2>6, Zenon
<1>7. CASE InCall(T[h], h)
  <2>1. Mark(pos) = "syscall" /\ prog[eip].op = "int80" /\ h = Len(path)
    BY <1>0, <1>2, <1>7, MarkHeld, ZenonT(40) DEF InCall, At
  <2>2. Mark(pos + 1) = "end"
    BY <1>0, <1>2, <1>7, MarkEnd DEF InCall
  <2> QED
    BY <1>4, <2>1, <2>2, StepInCall, Zenon
<1>8. CASE Stumbles(T[h], h)
  BY <1>0, <1>2, <1>8, MarkHeld, Zenon DEF Stumbles
<1>9. CASE Dies(T[h], h)
  <2>1. Mark(pos) = "syscall" /\ Mark(pos + 1) = "signal" /\ prog[eip].op = "int80"
    BY <1>0, <1>2, <1>9, MarkHeld, ZenonT(40) DEF Dies, At
  <2>2. log[pos + 1].value = eip /\ h + 1 = Len(path) /\ path[h + 1] = Did("signal", eip, 0)
        /\ pos + 2 > Len(log) /\ pos + 2 \in Nat
    BY <1>0, <1>2, <1>9, SMTT(30) DEF Dies
  <2>3. Did("signal", eip, 0) \in Deeds
    BY <1>0, <1>3, ProgramSteps DEF Did, Deeds
  <2>4. /\ rpc' = "cont" /\ pos' = pos + 2 /\ eip' = eip
        /\ rpath' = rpath \o <<Did("signal", log[pos + 1].value, 0)>>
    BY <2>1, StepDies, ZenonT(40)
  <2> QED
    BY <1>3, <1>5, <2>2, <2>3, <2>4, SMTT(30)
<1> QED
  BY <1>0, <1>6, <1>7, <1>8, <1>9, LastPlace, SMTT(30)

\* SN_cont runs to the next branch of the recorded run, or out of it.
LEMMA RunsOn ==
  ASSUME RecInv, rpath \in Seq(Deeds), UNCHANGED vars, NEW T, NEW h, OnTrace(T, h),
         NEW k \in 0 .. h, Along(T, k), SN_cont
  PROVE  WalkInv'
<1>0. /\ h \in Nat /\ prog \in Programs /\ path \in Seq(Deeds) /\ Len(path) \in Nat /\ h <= Len(path)
      /\ HistTypes /\ CacheInv /\ Rest(T[h], h) /\ Len(log) \in Nat
      /\ Trace(prog, log, path, T, h) /\ T[k].pos \in Nat /\ h \in 0 .. h
  BY SMTT(30) DEF RecInv, OnTrace, Trace, CacheInv, CacheTypes, HistTypes
<1>1. OnTrace(T, h)' /\ path' = path /\ log' = log /\ prog' = prog
  BY OnTraceStill DEF vars
<1>2. /\ Len(rpath) = k /\ (\A i \in 1 .. k : rpath[i] = path[i])
      /\ eip = T[k].ip /\ pos = T[k].pos /\ rstack = T[k].stk
  BY DEF Along
<1>3. /\ eip # Sigreturn /\ Mark(pos) # "signal"
      /\ eip' = scan_insts(prog, eip) /\ rpath' = rpath \o Steps(eip, eip')
      /\ rpc' = "branch" /\ pos' = pos /\ rstack' = rstack
  BY DEF SN_cont, Walks
<1>4. eip \in DOMAIN prog
  <2>1. CASE k = h
    BY <1>0, <1>2, <1>3, <2>1, LastPlace
  <2>2. CASE k # h
    <3>1. k + 1 \in 1 .. h /\ (k + 1) - 1 = k
      BY <1>0, <2>2
    <3>2. Follows(prog, log, T[k], T[k + 1], path[k + 1])
      BY <1>0, <3>1, ZenonT(40) DEF Trace
    <3> QED
      BY <1>2, <1>3, <3>2, ZenonT(40) DEF Follows, Freely, Branches, ReadsTsc, Calls, Breaks, ComesBack, At
  <2> QED
    BY <2>1, <2>2, ZenonT(40)
<1>5. /\ eip \in Nat /\ eip' \in Nat /\ eip' \in DOMAIN prog /\ eip <= eip'
      /\ \A c \in eip .. eip' - 1 : c \in DOMAIN prog /\ prog[c].op = "plain"
  BY <1>0, <1>3, <1>4, Scan, Zenon
<1>6. PICK m \in Nat : m = eip' - eip
  <2>1. ASSUME NEW a \in Nat, NEW b \in Nat, a <= b PROVE b - a \in Nat
    BY <2>1, SMTT(30)
  <2> QED
    BY <1>5, <2>1, Zenon
<1>7. /\ rpath' \in Seq(Deeds) /\ Len(rpath') = k + m
      /\ (\A i \in 1 .. k : rpath'[i] = path[i])
      /\ \A i \in 1 .. m : rpath'[k + i] = Did("inst", eip + i - 1, 0)
  <2>1. /\ rpath' \in Seq(Deeds) /\ Len(rpath') = Len(rpath) + (eip' - eip)
        /\ \A i \in 1 .. Len(rpath) : rpath'[i] = rpath[i]
        /\ \A i \in 1 .. eip' - eip : rpath'[Len(rpath) + i] = Did("inst", eip + i - 1, 0)
    <3>1. PICK b : b = eip'
      OBVIOUS
    <3>2. b \in Nat /\ eip <= b /\ rpath' = rpath \o Steps(eip, b)
      BY <1>3, <1>5, <3>1
    <3>3. /\ rpath' \in Seq(Deeds) /\ Len(rpath') = Len(rpath) + (b - eip)
          /\ \A i \in 1 .. Len(rpath) : rpath'[i] = rpath[i]
          /\ \A i \in 1 .. b - eip : rpath'[Len(rpath) + i] = Did("inst", eip + i - 1, 0)
      BY <1>5, <3>2, TakesRun, Zenon
    <3> QED
      BY <3>1, <3>3
  <2> QED
    BY <1>2, <1>6, <2>1, SMTT(30)
<1>8. RunsFrom(T, h, k, eip, m)
  <2>1. eip + m - 1 = eip' - 1
    BY <1>5, <1>6, RunLast
  <2>2. PlainFrom(eip, m)
    BY <1>5, <2>1, ZenonT(40) DEF PlainFrom
  <2>3. h \in Nat /\ eip \in Nat /\ T[k].ip = eip
    BY <1>0, <1>2, <1>5, SMTT(30)
  <2> QED
    BY <1>0, <2>2, <2>3, PlainRun, Zenon
<1>9. eip' # Sigreturn
  BY <1>0, <1>5, ProgramPlaces
<1>10. ASSUME NEW i \in 1 .. k + m, i <= h PROVE rpath'[i] = path[i]
  <2>1. CASE i \in 1 .. k
    BY <1>7, <2>1, Zenon
  <2>2. CASE i \notin 1 .. k
    <3>1. PICK n \in 1 .. m : n = i - k
      BY <1>0, <2>2, SMTT(30)
    <3>2. n \in 0 .. m /\ n # 0 /\ k + n = i
      BY <1>0, <3>1
    <3> QED
      BY <1>7, <1>8, <1>10, <3>1, <3>2, ZenonT(40) DEF RunsFrom
  <2> QED
    BY <2>1, <2>2, Zenon
<1>11. CASE k + m <= h
  <2>1. T[k + m].ip = eip' /\ T[k + m].pos = pos /\ T[k + m].stk = rstack
    <3>1. m \in 0 .. m
      OBVIOUS
    <3>2. T[k + m].ip = eip + m /\ T[k + m].pos = T[k].pos /\ T[k + m].stk = T[k].stk
      BY <1>8, <1>11, <3>1, Zenon DEF RunsFrom
    <3>3. eip + m = eip'
      BY <1>5, <1>6, RunEnd, ZenonT(40)
    <3> QED
      BY <1>2, <3>2, <3>3
  <2>2. Mark(pos)' # "signal"
    BY <1>1, <1>3, SMTT(30) DEF Mark
  <2>3. \A i \in 1 .. k + m : rpath'[i] = path[i]
    BY <1>0, <1>10, <1>11, SMTT(30)
  <2>4. k + m \in 0 .. h
    BY <1>0, <1>11
  <2>5. Along(T, k + m)'
    <3>1. PICK n : n = k + m
      BY ZenonT(40)
    <3>2. Along(T, n)'
      BY <1>1, <1>3, <1>7, <1>9, <2>1, <2>2, <2>3, <3>1, SMTT(30) DEF Along
    <3> QED
      BY <3>1, <3>2
  <2> QED
    BY <1>1, <1>7, <2>4, <2>5, ZenonT(40) DEF WalkInv
<1>12. CASE k + m > h
  <2>1. PICK n \in 0 .. m - 1 : n = h - k
    BY <1>0, <1>12
  <2>2. k + n = h /\ n \in 0 .. m /\ eip + n \in eip .. eip' - 1
    <3>1. k \in Int /\ h \in Int /\ n \in Int /\ eip \in Int /\ eip' \in Int
      BY <1>0, <1>5
    <3>2. k + n = h
      BY <2>1, <3>1
    <3>3. n \in 0 .. m
      OBVIOUS
    <3>4. eip + n \in eip .. eip' - 1
      BY <1>5, <1>6, InRun, Zenon
    <3> QED
      BY <3>2, <3>3, <3>4, ZenonT(40)
  <2>3. T[h].ip = eip + n /\ T[h].pos = pos /\ prog[T[h].ip].op = "plain"
    <3>1. k + n <= h
      BY <1>0, <2>2
    <3>2. T[h].ip = eip + n /\ T[h].pos = T[k].pos
      BY <1>8, <2>2, <3>1, Zenon DEF RunsFrom
    <3> QED
      BY <1>2, <1>5, <2>2, <3>2, Zenon
  <2>4. Stops(T[h], h)
    <3>1. ~InCall(T[h], h) /\ ~Dies(T[h], h)
      BY <2>3, ZenonT(40) DEF InCall, Dies, At
    <3>2. ~Stumbles(T[h], h)
      BY <1>0, <1>3, <2>3, MarkHeld, SMTT(30) DEF Stumbles
    <3> QED
      BY <1>0, <3>1, <3>2, LastPlace, ZenonT(40)
  <2>5. h = Len(path) /\ pos > Len(log) /\ pos \in Nat
    BY <1>0, <1>2, <2>3, <2>4, SMTT(30) DEF Stops
  <2>6. Len(path) <= Len(rpath')
    BY <1>0, <1>7, <1>12, <2>5, SMTT(30)
  <2>7. \A i \in 1 .. Len(path) : rpath'[i] = path[i]
    BY <1>0, <1>10, <1>12, <2>5, SMTT(30)
  <2>8. Past'
    BY <1>1, <1>3, <1>5, <1>9, <2>5, <2>6, <2>7, SMTT(30) DEF Past
  <2> QED
    BY <1>7, <2>8, Zenon DEF WalkInv
<1> QED
  BY <1>0, <1>11, <1>12, SMTT(30)

\* Replay starts at the first place.
LEMMA WalkStarts ==
  ASSUME RecInv, WalkInv, StartReplay, UNCHANGED vars
  PROVE  WalkInv'
<1>1. Idle /\ rpc' = "cont" /\ UNCHANGED <<pos, eip, rstack, rpath>>
  <2>1. rpc = "off" /\ rpc' = "cont" /\ UNCHANGED <<pos, eip, rstack, rpath>>
    BY Zenon DEF StartReplay
  <2>2. ~Past /\ \A T, k : ~Along(T, k) /\ ~Midway(T, k)
    BY <2>1 DEF Past, Along, Midway
  <2> QED
    BY <2>1, <2>2 DEF WalkInv
<1>2. PICK T, h : OnTrace(T, h)
  BY Zenon DEF RecInv, TraceInv, OnTrace
<1>3. /\ T[0].ip = Start /\ T[0].pos = 1 /\ T[0].stk = <<>> /\ 0 \in 0 .. h
  BY <1>2 DEF OnTrace, Trace
<1>4. OnTrace(T, h)'
  BY <1>2, OnTraceStill
<1>5. rpath' = <<>> /\ rpath' \in Seq(Deeds) /\ Len(rpath') = 0 /\ \A i \in 1 .. 0 : rpath'[i] = path'[i]
  BY <1>1 DEF Idle
<1>6. Along(T, 0)'
  BY <1>1, <1>3, <1>5 DEF Along, Idle
<1> QED
  BY <1>3, <1>4, <1>5, <1>6 DEF WalkInv

\* A replayer behind the recorded run stays there.
LEMMA PastStep ==
  ASSUME RecInv, rpath \in Seq(Deeds), Past, Replay, UNCHANGED vars
  PROVE  WalkInv'
<1>0. prog \in Programs /\ path' = path /\ log' = log /\ prog' = prog /\ Len(path) \in Nat /\ Len(rpath) \in Nat
  BY DEF RecInv, CacheInv, CacheTypes, HistTypes, vars
<1>1. Mark(pos) = "end" /\ rpc \in {"cont", "branch", "end"} /\ pos \in Nat /\ pos > Len(log)
  BY MarkEnd DEF Past
<1>2. eip # Sigreturn => eip \in DOMAIN prog
  BY DEF Past
<1>3. ASSUME rpc' = "end", UNCHANGED <<pos, eip, rstack, rpath>> PROVE WalkInv'
  <2>1. Past'
    BY <1>0, <1>3, Zenon DEF Past
  <2> QED
    BY <1>3, <2>1, Zenon DEF WalkInv
<1>4. ASSUME eip \in DOMAIN prog, SingleStep("cont") PROVE WalkInv'
  <2>1. PICK d : d = Did("inst", eip, 0)
    BY Zenon
  <2>2. d \in Deeds
    BY <1>0, <1>4, <2>1, ProgramSteps DEF Did, Deeds
  <2>3. \/ /\ rpc' = "cont" /\ pos' = pos /\ rpath' = rpath \o <<d>>
           /\ eip' \in DOMAIN prog \cup {Sigreturn}
        \/ rpc' = "end" /\ UNCHANGED <<pos, eip, rstack, rpath>>
    BY <1>0, <1>1, <1>4, <2>1, StepBehind, Zenon
  <2>4. CASE /\ rpc' = "cont" /\ pos' = pos /\ rpath' = rpath \o <<d>>
             /\ eip' \in DOMAIN prog \cup {Sigreturn}
    <3>1. /\ rpath' \in Seq(Deeds) /\ Len(rpath') = Len(rpath) + 1
          /\ \A i \in 1 .. Len(rpath) : rpath'[i] = rpath[i]
      BY <2>2, <2>4, TakesStep
    <3>2. Len(path) <= Len(rpath') /\ \A i \in 1 .. Len(path) : rpath'[i] = path[i]
      BY <1>0, <3>1 DEF Past
    <3>3. Past'
      BY <1>0, <1>1, <2>4, <3>2, Zenon DEF Past
    <3> QED
      BY <3>1, <3>3, Zenon DEF WalkInv
  <2> QED
    BY <1>3, <2>3, <2>4
<1>5. CASE cont_to_signal
  BY <1>1, <1>5, Zenon DEF cont_to_signal
<1>6. CASE setup_sighandler
  BY <1>1, <1>6 DEF setup_sighandler
<1>7. CASE sighandler_return
  BY <1>1, <1>7, Zenon DEF sighandler_return
<1>8. CASE SN_cont
  <2>1. /\ eip # Sigreturn
        /\ eip' = scan_insts(prog, eip) /\ rpath' = rpath \o Steps(eip, eip')
        /\ rpc' = "branch" /\ pos' = pos
    BY <1>8 DEF SN_cont, Walks
  <2>2. PICK b : b = eip'
    BY Zenon
  <2>3. eip \in Nat /\ b \in Nat /\ eip <= b /\ b \in DOMAIN prog
    BY <1>0, <1>2, <2>1, <2>2, Scan
  <2>4. /\ rpath' \in Seq(Deeds) /\ Len(rpath') = Len(rpath) + (b - eip)
        /\ \A i \in 1 .. Len(rpath) : rpath'[i] = rpath[i]
    BY <2>1, <2>2, <2>3, TakesRun, Zenon
  <2>5. b - eip >= 0 /\ b - eip \in Int
    BY <2>3, SMTT(30)
  <2>6. Len(path) <= Len(rpath') /\ \A i \in 1 .. Len(path) : rpath'[i] = path[i]
    BY <1>0, <2>4, <2>5 DEF Past
  <2>7. eip' \in DOMAIN prog /\ eip' # Sigreturn
    BY <1>0, <2>2, <2>3, ProgramPlaces
  <2>8. Past'
    BY <1>0, <1>1, <2>1, <2>6, <2>7, ZenonT(40) DEF Past
  <2> QED
    BY <2>4, <2>8 DEF WalkInv
<1>9. CASE SN_cont_branch
  BY <1>2, <1>4, <1>9 DEF SN_cont_branch, Past
<1>10. CASE SN_cont_signal
  BY <1>1, <1>10 DEF SN_cont_signal
<1>11. CASE SN_cont_fails
  BY <1>1, <1>3, <1>11, Zenon DEF SN_cont_fails, Unread, Fails
<1>12. CASE SN_single_step
  BY <1>1, <1>2, <1>4, <1>12, Zenon DEF SN_single_step
<1> QED
  BY <1>5, <1>6, <1>7, <1>8, <1>9, <1>10, <1>11, <1>12, SMTT(30) DEF Replay

\* In a broken system call only the handler can be set up.
LEMMA MidwayStep ==
  ASSUME RecInv, rpath \in Seq(Deeds), UNCHANGED vars, NEW T, NEW h, OnTrace(T, h),
         NEW k \in 0 .. h - 1, Midway(T, k), Replay
  PROVE  WalkInv'
<1>0. /\ h \in Nat /\ prog \in Programs /\ HistTypes /\ path' = path /\ log' = log /\ prog' = prog
      /\ k + 1 \in 0 .. h /\ T[k].pos \in Nat
  BY DEF RecInv, CacheInv, CacheTypes, OnTrace, Trace, vars
<1>1. OnTrace(T, h)'
  BY OnTraceStill, Zenon
<1>2. /\ Len(rpath) = k + 1 /\ \A i \in 1 .. k + 1 : rpath[i] = path[i]
      /\ eip = T[k].ip /\ pos = T[k].pos + 2 /\ rstack = T[k].stk /\ rpc = "cont"
      /\ Breaks(prog, log, T[k], T[k + 1], path[k + 1])
  BY Zenon DEF Midway
<1>3. Mark(pos) = "signal2" /\ log[pos].value = T[k].ip /\ eip \in DOMAIN prog /\ eip # Sigreturn
  <2>1. Holds(log, pos, "signal2") /\ log[pos].value = T[k].ip /\ eip \in DOMAIN prog
    BY <1>2, ZenonT(40) DEF Breaks, At
  <2> QED
    BY <1>0, <2>1, MarkHeld, ProgramPlaces, Zenon
<1>4. setup_sighandler
  BY <1>2, <1>3, ZenonT(40) DEF Replay, cont_to_signal, sighandler_return, SN_cont, SN_cont_branch,
                    SN_cont_signal, SN_cont_fails, SN_single_step
<1>5. /\ rstack' = Append(T[k].stk, T[k].ip) /\ eip' = Handler /\ pos' = (T[k].pos + 2) + 1
      /\ rpc' = "cont" /\ rpath' = rpath
  BY <1>2, <1>3, <1>4, ZenonT(40) DEF setup_sighandler
<1>6. T[k + 1].ip = Handler /\ T[k + 1].pos = T[k].pos + 3 /\ T[k + 1].stk = Append(T[k].stk, T[k].ip)
  BY <1>2, ZenonT(40) DEF Breaks
<1>7. pos' = T[k + 1].pos
  BY <1>0, <1>5, <1>6, SMTT(30)
<1>8. Along(T, k + 1)'
  BY <1>0, <1>2, <1>5, <1>6, <1>7, SMTT(30) DEF Along
<1> QED
  BY <1>0, <1>1, <1>5, <1>8, ZenonT(40) DEF WalkInv

\* A step of the replayer from a place of the trace
LEMMA AlongStep ==
  ASSUME RecInv, rpath \in Seq(Deeds), UNCHANGED vars, NEW T, NEW h, OnTrace(T, h),
         NEW k \in 0 .. h, Along(T, k), Replay
  PROVE  WalkInv'
<1>0. /\ h \in Nat /\ prog \in Programs /\ HistTypes /\ CacheInv /\ path \in Seq(Deeds)
      /\ path' = path /\ log' = log /\ prog' = prog
      /\ \A j \in 0 .. h : T[j].ip \in Nat /\ T[j].pos \in Nat
  <2>1. prog \in Programs /\ HistTypes /\ CacheInv /\ path \in Seq(Deeds)
    BY Zenon DEF RecInv, CacheInv, CacheTypes, HistTypes
  <2>2. h \in 0 .. Len(path) /\ \A j \in 0 .. h : T[j].ip \in Nat /\ T[j].pos \in Nat
    BY Zenon DEF OnTrace, Trace
  <2>3. h \in Nat
    BY <2>2
  <2>4. path' = path /\ log' = log /\ prog' = prog
    BY DEF vars
  <2> QED
    BY <2>1, <2>2, <2>3, <2>4, Zenon
<1>1. /\ Len(rpath) = k /\ (\A i \in 1 .. k : rpath[i] = path[i])
      /\ eip = T[k].ip /\ pos = T[k].pos /\ rstack = T[k].stk
      /\ rpc = "signal" => Mark(pos) = "signal"
      /\ rpc = "branch" => eip # Sigreturn /\ Mark(pos) # "signal"
  BY ZenonT(40) DEF Along
<1>2. Tells(T, h, k)
  BY <1>0, MarksTell
<1>3. /\ Mark(pos) \in {"target", "rdtsc", "syscall", "sigreturn", "signal", "end"}
      /\ Mark(pos) = "sigreturn" => eip = Sigreturn /\ k # h
  BY <1>1, <1>2, ZenonT(40) DEF Tells
<1>4. Mark(pos) = "signal" =>
        /\ Stumbles(T[h], h) /\ T[k].pos = T[h].pos /\ log[pos].value = T[h].ip
        /\ k = h => log[pos].value = eip
  BY <1>1, <1>2, ZenonT(40) DEF Tells, Stumbles
<1>5. k # h => /\ k \in 0 .. h - 1 /\ k + 1 \in 1 .. h /\ (k + 1) - 1 = k /\ k + 1 \in 0 .. h
               /\ k + 1 \in 1 .. Len(path)
  BY <1>0, SMTT(30) DEF OnTrace, Trace
<1>6. k # h => Follows(prog, log, T[k], T[k + 1], path[k + 1])
  BY <1>5 DEF OnTrace, Trace
<1>7. ASSUME SingleStep("cont"), eip # Sigreturn,
             ~(Mark(pos) = "signal" /\ log[pos].value = eip)
      PROVE  WalkInv'
  <2>1. CASE k = h
    BY <1>4, <1>7, <2>1, WalksOut, Zenon
  <2>2. CASE k # h
    <3>1. "cont" \in {"cont", "signal"} /\ "cont" # "signal"
      BY Zenon
    <3> QED
      BY <1>5, <1>7, <2>2, <3>1, WalksOn
  <2> QED
    BY <2>1, <2>2, Zenon
<1>8. CASE cont_to_signal
  <2>1. Mark(pos) = "signal" /\ rpc = "signal"
    BY <1>1, <1>8, Zenon DEF cont_to_signal
  <2>2. log[pos].value = T[h].ip /\ (k = h => log[pos].value = eip)
    BY <1>4, <2>1, Zenon
  <2>3. eip \in Nat /\ T[h].ip \in Nat
    BY <1>0, <1>1
  <2>4. CASE eip > log[pos].value /\ Fails("assert")
    <3>1. \E i \in DOMAIN path : Blind(i)
      BY <1>0, <1>1, <2>1, <2>2, <2>4, PassedBlind, ZenonT(40)
    <3> QED
      BY <1>0, <2>4, <3>1, StaysAlong, Zenon DEF Fails
  <2>5. CASE eip < log[pos].value /\ SingleStep("signal")
    <3>1. k # h
      BY <2>2, <2>3, <2>5
    <3>2. eip # Sigreturn
      <4>1. k \in k .. h - 1
        BY <1>5, <3>1, SMTT(30)
      <4>2. Freely(prog, T[k], T[k + 1], path[k + 1])
        BY <1>1, <1>2, <2>1, <4>1 DEF Tells
      <4> QED
        BY <1>0, <1>1, <4>2, ProgramPlaces, Zenon DEF Freely, At
    <3>3. "signal" \in {"cont", "signal"}
      BY Zenon
    <3> QED
      BY <1>5, <2>1, <2>5, <3>1, <3>2, <3>3, WalksOn, ZenonT(40)
  <2>6. CASE eip = log[pos].value /\ Fails("crash")
    BY <1>0, <2>6, StaysAlong, Zenon DEF Fails
  <2> QED
    BY <1>8, <2>4, <2>5, <2>6, Zenon DEF cont_to_signal
<1>9. CASE setup_sighandler
  BY <1>3, <1>9, Zenon DEF setup_sighandler
<1>10. CASE sighandler_return
  <2>1. Mark(pos) = "sigreturn" /\ eip = Sigreturn /\ k # h /\ rpc = "cont"
    BY <1>3, <1>10, Zenon DEF sighandler_return
  <2>2. /\ eip' = Last(rstack) /\ rstack' = Front(rstack) /\ pos' = pos + 1 /\ rpc' = "cont"
        /\ rpath' = rpath \o <<Did("sigreturn", Sigreturn, 0)>>
    BY <1>10, <2>1, Zenon DEF sighandler_return, Walks, Last, Front
  <2>3. ComesBack(log, T[k], T[k + 1], path[k + 1])
    <3>1. T[k].ip \notin DOMAIN prog
      BY <1>0, <1>1, <2>1, ProgramPlaces, ZenonT(40)
    <3> QED
      BY <1>6, <2>1, <3>1, ZenonT(40) DEF Follows, Freely, Branches, ReadsTsc, Calls, Breaks, At
  <2>4. /\ path[k + 1] = Did("sigreturn", Sigreturn, 0)
        /\ eip' = T[k + 1].ip /\ pos' = T[k + 1].pos /\ rstack' = T[k + 1].stk
    BY <1>1, <2>2, <2>3, Zenon DEF ComesBack
  <2>5. path[k + 1] \in Deeds
    BY <1>0, <1>5, <2>1
  <2>6. rpath' = rpath \o <<path[k + 1]>>
    BY <2>2, <2>4, ZenonT(40)
  <2>7. /\ rpath' \in Seq(Deeds) /\ Len(rpath') = k + 1
        /\ (\A i \in 1 .. k : rpath'[i] = rpath[i]) /\ rpath'[k + 1] = path[k + 1]
    BY <1>1, <2>5, <2>6, TakesStep, Zenon
  <2>8. \A i \in 1 .. k + 1 : rpath'[i] = path[i]
    <3>1. \A i \in 1 .. k + 1 : i \in 1 .. k \/ i = k + 1
      BY <1>0
    <3> QED
      BY <1>1, <2>7, <3>1, Zenon
  <2>9. Along(T, k + 1)'
    BY <1>0, <2>2, <2>4, <2>7, <2>8, Zenon DEF Along
  <2> QED
    BY <1>5, <2>1, <2>7, <2>9, OnTraceStill DEF WalkInv
<1>11. CASE SN_cont
  BY <1>11, RunsOn, Zenon
<1>12. CASE SN_cont_branch
  BY <1>1, <1>7, <1>12, Zenon DEF SN_cont_branch
<1>13. CASE SN_cont_signal
  <2>1. /\ Mark(pos) = "signal" /\ rpc' = "signal" /\ UNCHANGED <<pos, eip, rstack, rpath>>
    BY <1>13, ZenonT(40) DEF SN_cont_signal
  <2> QED
    BY <1>0, <2>1, StaysAlong, Zenon
<1>14. CASE SN_cont_fails
  <2>1. eip = Sigreturn /\ Mark(pos) # "sigreturn" /\ Unread(Mark(pos))
    BY <1>3, <1>14, Zenon DEF SN_cont_fails
  <2>2. T[k].ip \notin DOMAIN prog
    BY <1>0, <1>1, <2>1, ProgramPlaces, ZenonT(40)
  <2>3. k = h
    <3>1. SUFFICES ASSUME k # h PROVE FALSE
      BY Zenon
    <3>2. ComesBack(log, T[k], T[k + 1], path[k + 1])
      BY <1>6, <2>2, <3>1, ZenonT(40) DEF Follows, Freely, Branches, ReadsTsc, Calls, Breaks, At
    <3> QED
      BY <1>0, <1>1, <2>1, <3>2, MarkHeld, SMTT(30) DEF ComesBack
  <2>4. Stops(T[h], h)
    BY <1>0, <2>2, <2>3, LastPlace, Zenon DEF OnTrace
  <2>5. Mark(pos) = "end" /\ k = Len(path)
    <3>1. pos > Len(log) /\ h = Len(path)
      BY <1>0, <1>1, <2>3, <2>4, SMTT(30) DEF Stops, HistTypes
    <3> QED
      BY <2>3, <3>1, MarkEnd, ZenonT(40)
  <2>6. rpc' = "end" /\ UNCHANGED <<pos, eip, rstack, rpath>>
    BY <2>1, <2>5, Zenon DEF Unread, Fails
  <2> QED
    BY <1>0, <2>5, <2>6, StaysAlong
<1>15. CASE SN_single_step
  <2>1. CASE Mark(pos) = "signal" /\ log[pos].value = eip
    <3>1. rpc' = "crash" /\ UNCHANGED <<pos, eip, rstack, rpath>>
      BY <1>15, <2>1, SMTT(30) DEF SN_single_step, Fails
    <3> QED
      BY <1>0, <3>1, StaysAlong, Zenon
  <2>2. CASE ~(Mark(pos) = "signal" /\ log[pos].value = eip)
    BY <1>7, <1>15, <2>2 DEF SN_single_step
  <2> QED
    BY <2>1, <2>2, Zenon
<1> QED
  BY <1>8, <1>9, <1>10, <1>11, <1>12, <1>13, <1>14, <1>15, SMTT(30) DEF Replay

-----------------------------------------------------------------------------
(* The theorems                                                            *)
=============================================================================
