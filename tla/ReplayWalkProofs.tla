-------------------------- MODULE ReplayWalkProofs --------------------------
(***************************************************************************)
(* Proofs that the replay of a recorded program follows it, for every      *)
(* program, every run and every sequence of the debugger's commands.       *)
(***************************************************************************)
EXTENDS CodeCacheProofs, ReplayTraceProofs

\* What holds while a program is recorded and while it is replayed
ReplayInv == RecInv /\ WalkInv

\* Every step keeps it.
LEMMA ReplayStep ==
  ASSUME ~UdFaults, ReplayInv, [ReplayNext]_<<vars, rvars>>
  PROVE  ReplayInv'
<1>0. RecInv /\ WalkInv /\ rpath \in Seq(Deeds)
  BY DEF ReplayInv, WalkInv
<1>1. ASSUME UNCHANGED vars PROVE RecInv'
  BY <1>0, <1>1, RecStill
<1>2. ASSUME UNCHANGED vars, UNCHANGED rvars PROVE WalkInv'
  <2>1. CASE Idle
    BY <1>0, <1>2, <2>1, SMTT(30) DEF WalkInv, Idle, rvars
  <2>2. CASE Past
    BY <1>0, <1>2, <2>2, SMTT(30) DEF WalkInv, Past, rvars, vars
  <2>3. ASSUME NEW T, NEW h, OnTrace(T, h), NEW k \in 0 .. h, Along(T, k) PROVE WalkInv'
    <3>1. /\ prog' = prog /\ log' = log /\ path' = path
          /\ rpc' = rpc /\ pos' = pos /\ eip' = eip /\ rstack' = rstack /\ rpath' = rpath
      BY <1>2, SMTT(30) DEF vars, rvars
    <3>2. Along(T, k)'
      BY <2>3, <3>1 DEF Along, Mark, Blind
    <3> QED
      BY <1>0, <1>2, <2>3, <3>1, <3>2, OnTraceStill, SMTT(30) DEF WalkInv
  <2>4. ASSUME NEW T, NEW h, OnTrace(T, h), NEW k \in 0 .. h - 1, Midway(T, k) PROVE WalkInv'
    <3>1. /\ prog' = prog /\ log' = log /\ path' = path
          /\ rpc' = rpc /\ pos' = pos /\ eip' = eip /\ rstack' = rstack /\ rpath' = rpath
      BY <1>2 DEF vars, rvars
    <3>2. Midway(T, k)'
      BY <2>4, <3>1 DEF Midway
    <3> QED
      BY <1>0, <1>2, <2>4, <3>1, <3>2, OnTraceStill, SMTT(30) DEF WalkInv
  <2> QED
    BY <1>0, <2>1, <2>2, <2>3, <2>4, SMTT(30) DEF WalkInv
<1>3. CASE rpc = "off" /\ Next /\ UNCHANGED rvars
  <2>1. RecInv'
    BY <1>0, <1>3, RecStep, SMTT(30)
  <2>2. Idle
    <3>1. ~Past /\ \A T, k : ~Along(T, k) /\ ~Midway(T, k)
      BY <1>3 DEF Past, Along, Midway
    <3> QED
      BY <1>0, <3>1 DEF WalkInv
  <2>3. WalkInv'
    BY <1>0, <1>3, <2>2, SMTT(30) DEF WalkInv, Idle, rvars
  <2> QED
    BY <2>1, <2>3 DEF ReplayInv
<1>4. CASE StartReplay /\ UNCHANGED vars
  BY <1>0, <1>1, <1>4, WalkStarts, SMTT(30) DEF ReplayInv
<1>5. CASE Replay /\ UNCHANGED vars
  <2>1. CASE Idle
    BY <1>5, <2>1 DEF Idle, Replay, cont_to_signal, setup_sighandler, sighandler_return, SN_cont,
                      SN_cont_branch, SN_cont_signal, SN_cont_fails, SN_single_step
  <2>2. CASE Past
    BY <1>0, <1>1, <1>5, <2>2, PastStep, SMTT(30) DEF ReplayInv
  <2>3. ASSUME NEW T, NEW h, OnTrace(T, h), NEW k \in 0 .. h, Along(T, k) PROVE ReplayInv'
    BY <1>0, <1>1, <1>5, <2>3, AlongStep, SMTT(30) DEF ReplayInv
  <2>4. ASSUME NEW T, NEW h, OnTrace(T, h), NEW k \in 0 .. h - 1, Midway(T, k) PROVE ReplayInv'
    BY <1>0, <1>1, <1>5, <2>4, MidwayStep, SMTT(30) DEF ReplayInv
  <2> QED
    BY <1>0, <2>1, <2>2, <2>3, <2>4, SMTT(30) DEF WalkInv
<1>6. CASE UNCHANGED <<vars, rvars>>
  BY <1>1, <1>2, <1>6, SMTT(30) DEF ReplayInv
<1> QED
  BY <1>3, <1>4, <1>5, <1>6 DEF ReplayNext

\* The invariant says what the runs check.
LEMMA ReplayInvShows ==
  ASSUME ReplayInv
  PROVE  ReplayFollows /\ ReplayCovers /\ NotPassed
<1>0. /\ covered \in 0 .. Len(path) /\ Len(path) \in Nat /\ Len(rpath) \in Nat
      /\ DOMAIN path = 1 .. Len(path) /\ DOMAIN rpath = 1 .. Len(rpath)
  BY DEF ReplayInv, RecInv, WalkInv, HistTypes
<1>1. CASE Idle
  <2>1. DOMAIN rpath = {}
    BY <1>1 DEF Idle
  <2> QED
    BY <1>1, <2>1 DEF Idle, ReplayFollows, ReplayCovers, NotPassed
<1>2. CASE Past
  <2>1. Len(rpath) >= covered
    BY <1>0, <1>2, SMTT(30) DEF Past
  <2> QED
    BY <1>0, <1>2, <2>1, SMTT(30) DEF Past, ReplayFollows, ReplayCovers, NotPassed
<1>3. ASSUME NEW T, NEW h, NEW k \in 0 .. h, Along(T, k)
      PROVE  ReplayFollows /\ ReplayCovers /\ NotPassed
  <2>1. rpc = "end" => Len(rpath) >= covered
    BY <1>0, <1>3, SMTT(30) DEF Along
  <2> QED
    BY <1>0, <1>3, <2>1, SMTT(30) DEF Along, ReplayFollows, ReplayCovers, NotPassed
<1>4. ASSUME NEW T, NEW h, NEW k \in 0 .. h - 1, Midway(T, k)
      PROVE  ReplayFollows /\ ReplayCovers /\ NotPassed
  BY <1>0, <1>4 DEF Midway, ReplayFollows, ReplayCovers, NotPassed
<1> QED
  BY <1>1, <1>2, <1>3, <1>4, SMTT(30) DEF ReplayInv, WalkInv

\* Recorded in a code cache and replayed by gdbserver's patch, a program is always
\* at one place of the trace of the recorded run, or behind all of it: for every
\* program, log and sequence of the debugger's commands.
THEOREM ReplayInvHolds ==
  ASSUME ~UdFaults
  PROVE  ReplaySpec => []ReplayInv
<1>1. ReplayInit => ReplayInv
  <2>1. SUFFICES ASSUME ReplayInit PROVE ReplayInv
    OBVIOUS
  <2>2. RecInv
    BY <2>1, RecInit DEF ReplayInit
  <2>3. Idle /\ rpath \in Seq(Deeds)
    BY <2>1 DEF ReplayInit, Idle
  <2> QED
    BY <2>2, <2>3 DEF ReplayInv, WalkInv
<1>2. ReplayInv /\ [ReplayNext]_<<vars, rvars>> => ReplayInv'
  BY ReplayStep
<1> QED
  BY <1>1, <1>2, PTL DEF ReplaySpec

\* The replayed program does what the recorded one did, in the same order and with
\* the same values, as far as either goes, and the replayer (snitchaser_patch.c)
\* never finds an entry it cannot make sense of.
THEOREM FollowsRecorded ==
  ASSUME ~UdFaults
  PROVE  ReplaySpec => []ReplayFollows
<1>1. ReplayInv => ReplayFollows
  BY ReplayInvShows, SMTT(30)
<1> QED
  BY <1>1, ReplayInvHolds, PTL

\* When the replayer (SN_cont, SN_single_step) reports the end of the log, it has
\* replayed everything the log tells of.
THEOREM CoversLog ==
  ASSUME ~UdFaults
  PROVE  ReplaySpec => []ReplayCovers
<1>1. ReplayInv => ReplayCovers
  BY ReplayInvShows, SMTT(30)
<1> QED
  BY <1>1, ReplayInvHolds, PTL

\* The assertion of cont_to_signal fails only when a signal came behind a jmp or
\* call that is not in the log.
THEOREM PassesOnlyBlind ==
  ASSUME ~UdFaults
  PROVE  ReplaySpec => []NotPassed
<1>1. ReplayInv => NotPassed
  BY ReplayInvShows
<1> QED
  BY <1>1, ReplayInvHolds, PTL

\* While it is replayed and before, the recorder runs as CodeCache says.
LEMMA RecorderRuns == ReplaySpec => Spec
<1>1. ReplayInit => Init
  BY DEF ReplayInit
<1>2. [ReplayNext]_<<vars, rvars>> => [Next]_vars
  BY DEF ReplayNext
<1> QED
  BY <1>1, <1>2, PTL DEF ReplaySpec, Spec

\* The links of recompiled exits and the run of the recorded program, for the
\* specification with the replayer (recompile_ud, do_real_branch)
THEOREM RecorderRight ==
  ASSUME ~UdFaults
  PROVE  ReplaySpec => []LinksRight /\ RunsAsNative
BY RecorderRuns, LinksHold, RunsNative, PTL
=============================================================================
