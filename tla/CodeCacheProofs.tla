-------------------------- MODULE CodeCacheProofs --------------------------
(***************************************************************************)
(* Proofs about a recorded thread, for every program: recompiled exits     *)
(* lead where the program's own jmp or call leads, and the recorder runs   *)
(* the program as it would run without it.                                 *)
(***************************************************************************)
EXTENDS RecordedRun, TLAPS

-----------------------------------------------------------------------------
(* The scan of a block, and the stack of signal frames                     *)

\* Two sequences with the same elements are the same.
LEMMA SeqEqual ==
  ASSUME NEW S, NEW s \in Seq(S), NEW t \in Seq(S),
         Len(s) = Len(t), \A i \in 1 .. Len(s) : s[i] = t[i]
  PROVE  s = t
OBVIOUS

\* The beginning of a sequence
LEMMA PrefixFacts ==
  ASSUME NEW S, NEW s \in Seq(S), NEW n \in 0 .. Len(s)
  PROVE  /\ SubSeq(s, 1, n) \in Seq(S)
         /\ Len(SubSeq(s, 1, n)) = n
         /\ \A i \in 1 .. n : SubSeq(s, 1, n)[i] = s[i]
OBVIOUS

\* The frames left when the last one is taken off the stack
LEMMA FrontFacts ==
  ASSUME NEW S, NEW s \in Seq(S), s # <<>>
  PROVE  /\ Front(s) \in Seq(S)
         /\ Len(Front(s)) = Len(s) - 1
         /\ \A i \in 1 .. Len(Front(s)) : Front(s)[i] = s[i]
<1>0. Len(s) # 0
  <2>1. <<>> \in Seq(S) /\ Len(<<>>) = 0 /\ (Len(s) = 0 => \A i \in 1 .. Len(s) : s[i] = <<>>[i])
    OBVIOUS
  <2> QED
    BY <2>1, SeqEqual
<1>1. PICK n \in 0 .. Len(s) : n = Len(s) - 1
  <2>1. ASSUME NEW l \in Nat, l # 0 PROVE l - 1 \in 0 .. l
    BY <2>1
  <2>2. Len(s) \in Nat
    OBVIOUS
  <2> QED
    BY <1>0, <2>1, <2>2, Zenon
<1>2. Front(s) = SubSeq(s, 1, n)
  BY <1>1, Zenon DEF Front
<1>3. /\ SubSeq(s, 1, n) \in Seq(S) /\ Len(SubSeq(s, 1, n)) = n
      /\ \A i \in 1 .. n : SubSeq(s, 1, n)[i] = s[i]
  BY <1>1, PrefixFacts, Zenon
<1> QED
  BY <1>1, <1>2, <1>3, Zenon

\* Frames stay places code can go on from as long as the program is the same.
LEMMA FramesKept ==
  ASSUME prog' = prog, frames' \in Seq(Frames),
         \A i \in 1 .. Len(frames') :
           PlaceOK(frames'[i].pc, frames'[i].at, frames'[i].target, frames'[i].current)
  PROVE  FramesOK'
<1>2. ASSUME NEW i \in 1 .. Len(frames')
      PROVE  PlaceOK(frames[i].pc, frames[i].at, frames[i].target, frames[i].current)'
  <2> DEFINE f == frames'[i]
  <2>1. PlaceOK(f.pc, f.at, f.target, f.current)
    OBVIOUS
  <2> SUFFICES /\ InBlock(frames[i].at)'
               /\ f.current = f.at.block
               /\ f.pc # "code" => prog'[f.at.addr].op = "int80" /\ f.target \in prog'[f.at.addr].to
    BY DEF PlaceOK
  <2>2. InBlock(frames[i].at)'
    BY <2>1 DEF PlaceOK, InBlock
  <2> QED
    BY <2>1, <2>2 DEF PlaceOK
<1> QED
  BY <1>2 DEF FramesOK

\* What scan_insts finds from the entry of a block is the instruction that
\* compiled code has reached, if that is a branch.
LEMMA ExitHere ==
  ASSUME prog \in Programs, NEW a, InBlock(a), prog[a.addr].op # "plain"
  PROVE  scan_insts(prog, a.block) = a.addr
<1> DEFINE S == {b \in DOMAIN prog : b >= a.block /\ prog[b].op # "plain"}
<1>1. DOMAIN prog \subseteq Nat
  BY ProgramAssumption
<1>2. a.addr \in S
  BY <1>1 DEF InBlock
<1>3. \A y \in S : a.addr <= y
  BY <1>1 DEF InBlock
<1>4. \A x \in S : (\A y \in S : x <= y) => x = a.addr
  BY <1>1, <1>2, <1>3
<1>5. (CHOOSE x \in S : \A y \in S : x <= y) = a.addr
  BY <1>2, <1>3, <1>4
<1> QED
  BY <1>5 DEF scan_insts

\* The instructions of a program and where they go
LEMMA Instructions ==
  ASSUME prog \in Programs, NEW a \in DOMAIN prog
  PROVE  /\ a \in Nat /\ a # Sigreturn
         /\ prog[a].op \in Ops
         /\ prog[a].to \subseteq DOMAIN prog \cup {Sigreturn}
         /\ prog[a].op = "plain" => prog[a].to = {a + 1}
         /\ Sigreturn \in prog[a].to => prog[a].op = "ind"
BY ProgramAssumption

\* Addresses of the program name blocks, and first_fate_block is none of them.
LEMMA BlockNames ==
  ASSUME prog \in Programs
  PROVE  /\ DOMAIN prog \subseteq Blocks
         /\ DOMAIN prog \subseteq Nat
         /\ Fate \notin DOMAIN prog
         /\ Start \in DOMAIN prog /\ Handler \in DOMAIN prog
         /\ Sigreturn \in Nat /\ Sigreturn \notin DOMAIN prog
BY ProgramAssumption DEF Blocks, Addrs, Fate

\* The exit type of a block whose branch compiled code has reached
LEMMA ExitTypeHere ==
  ASSUME prog \in Programs, NEW a, InBlock(a), prog[a.addr].op # "plain"
  PROVE  exit_type(a.block) = ExitType(prog[a.addr].op)
BY ExitHere, BlockNames DEF exit_type, InBlock

-----------------------------------------------------------------------------
(* The invariant                                                           *)

\* It holds when the thread starts in real_branch.
LEMMA CacheInit == Init => CacheInv
<1> SUFFICES ASSUME Init PROVE CacheInv
  OBVIOUS
<1> USE DEF Init, None, Fate
<1>1. CacheTypes
  BY BlockNames DEF CacheTypes
<1>2. Control
  BY BlockNames DEF Control, BranchOK, exit_type, Blocks
<1>3. FramesOK /\ LinksOK
  BY DEF FramesOK, LinksOK
<1> QED
  BY <1>1, <1>2, <1>3 DEF CacheInv

\* Every step of compiled code, of the branch routine and of the signal code keeps
\* it, if no block with a direct jmp or call faults.
LEMMA CacheStep ==
  ASSUME ~UdFaults, CacheInv, Next
  PROVE  CacheInv'
<1> USE DEF CacheInv, cacheVars
<1>a. prog \in Programs
  BY DEF CacheTypes
<1>b. DOMAIN prog \subseteq Blocks /\ DOMAIN prog \subseteq Nat /\ Fate \notin DOMAIN prog
  BY <1>a, BlockNames
<1>1. CASE SetCurrentBlock
  <2>1. CacheTypes'
    BY <1>1 DEF SetCurrentBlock, CacheTypes
  <2>2. Control'
    BY <1>1 DEF SetCurrentBlock, Control, PlaceOK, InBlock
  <2>3. FramesOK' /\ LinksOK'
    BY <1>1 DEF SetCurrentBlock, FramesOK, LinksOK, PlaceOK, InBlock
  <2> QED
    BY <2>1, <2>2, <2>3
<1>2. CASE Plain
  <2>0. InBlock(at) /\ current = at.block /\ at \in [block : Int, addr : Nat]
    BY <1>2 DEF Plain, Control, PlaceOK, CacheTypes
  <2>1. at.addr \in DOMAIN prog /\ prog[at.addr].op = "plain"
    BY <1>2, <2>0 DEF Plain, InBlock, Inst
  <2>2. at.addr + 1 \in DOMAIN prog
    BY <2>1, <1>a, Instructions
  <2>3. at' \in [block : Int, addr : Nat] /\ at'.block = at.block /\ at'.addr = at.addr + 1
    BY <1>2, <2>0 DEF Plain
  <2>4. prog' = prog /\ pc' = pc /\ pc = "code" /\ current' = current
    BY <1>2 DEF Plain
  <2>5. InBlock(at)'
    <3>1. \A x \in DOMAIN prog : at.block <= x /\ x < at.addr + 1 => prog[x].op = "plain"
      BY <2>0, <2>1, <1>b DEF InBlock
    <3> QED
      BY <2>0, <2>2, <2>3, <2>4, <3>1, <1>b DEF InBlock
  <2>6. Control'
    BY <2>0, <2>3, <2>4, <2>5 DEF Control, PlaceOK
  <2>7. CacheTypes'
    BY <1>2, <2>3 DEF Plain, CacheTypes
  <2>8. FramesOK' /\ LinksOK'
    BY <1>2 DEF Plain, FramesOK, LinksOK, PlaceOK, InBlock
  <2> QED
    BY <2>6, <2>7, <2>8
<1>3. ASSUME NEW ops, Exit(ops), ops \subseteq {"ud", "cond", "ind", "rdtsc", "int80"}
      PROVE  /\ at.addr \in DOMAIN prog /\ prog[at.addr].op \in ops
             /\ InBlock(at) /\ current = at.block
             /\ scan_insts(prog, current) = at.addr
             /\ exit_type(current) = ExitType(prog[at.addr].op)
             /\ target' \in prog[at.addr].to
             /\ target' \in DOMAIN prog \cup {Sigreturn}
             /\ target' = Sigreturn => frames # <<>> /\ prog[at.addr].op = "ind"
             /\ target' \in Nat
             /\ FramesOK' /\ LinksOK'
             /\ cache' = cache /\ prog' = prog /\ at' = at /\ current' = current
             /\ frames' = frames
  <2>1. InBlock(at) /\ current = at.block /\ prog[at.addr].op \in ops
    BY <1>3 DEF Exit, Control, PlaceOK, Inst
  <2>2. at.addr \in DOMAIN prog /\ prog[at.addr].op # "plain"
    BY <2>1, <1>3 DEF InBlock
  <2>3. scan_insts(prog, current) = at.addr /\ exit_type(current) = ExitType(prog[at.addr].op)
    BY <2>1, <2>2, <1>a, ExitHere, ExitTypeHere
  <2>4. target' \in prog[at.addr].to /\ (target' = Sigreturn => frames # <<>>)
    BY <1>3 DEF Exit, Targets, Inst
  <2>5. /\ target' \in DOMAIN prog \cup {Sigreturn}
        /\ target' = Sigreturn => prog[at.addr].op = "ind"
    BY <2>2, <2>4, <1>a, Instructions
  <2>6. target' \in Nat
    BY <2>5, <1>a, <1>b, BlockNames
  <2>7. FramesOK' /\ LinksOK'
    <3>1. prog' = prog /\ frames' = frames /\ link' = link
      BY <1>3 DEF Exit
    <3>2. FramesOK'
      BY <3>1, FramesKept DEF FramesOK
    <3> QED
      BY <3>1, <3>2 DEF LinksOK
  <2> QED
    BY <2>1, <2>2, <2>3, <2>4, <2>5, <2>6, <2>7, <1>3 DEF Exit
<1>4. ASSUME NEW op \in {"ud", "cond", "ind", "rdtsc"}, NEW ops, Exit(ops), op \in ops,
             ops \subseteq {"ud", "cond", "ind", "rdtsc"}, pc' = "branch", nr' = nr
      PROVE  CacheInv'
  <2>0. ops \subseteq {"ud", "cond", "ind", "rdtsc", "int80"}
    BY <1>4
  <2>1. CacheTypes'
    BY <1>3, <1>4, <2>0, Zenon DEF CacheTypes
  <2>2. BranchOK'
    <3>1. /\ prog[at.addr].op \in {"ud", "cond", "ind", "rdtsc"}
          /\ current \in DOMAIN prog
      BY <1>3, <1>4, <2>0, Zenon DEF InBlock
    <3>2. /\ exit_type(current) = "EXIT_UNCOND_DIRECT" => prog[at.addr].op = "ud"
          /\ prog[at.addr].op = "ind" => exit_type(current) = "EXIT_UNCOND_INDIRECT"
      BY <1>3, <1>4, <2>0, <3>1 DEF ExitType
    <3>3. exit_type(current)' = exit_type(current)
      BY <1>3, <1>4, <2>0, Zenon DEF exit_type
    <3> QED
      BY <1>3, <1>4, <2>0, <3>1, <3>2, <3>3, <1>b, Zenon DEF BranchOK
  <2>3. Control'
    BY <1>4, <2>2 DEF Control
  <2> QED
    BY <1>3, <1>4, <2>0, <2>1, <2>3, Zenon
<1>5. CASE DirectExit
  BY <1>5, <1>4 DEF DirectExit
<1>6. CASE LoggedExit
  BY <1>6, <1>4 DEF LoggedExit
<1>7. ASSUME NEW v \in Values, Rdtsc(v)
      PROVE  CacheInv'
  BY <1>7, <1>4 DEF Rdtsc
<1>8. CASE LinkedExit
  <2>0. InBlock(at) /\ current = at.block /\ prog[at.addr].op # "plain"
    BY <1>8 DEF LinkedExit, Control, PlaceOK, Inst
  <2>1. at.block \in Blocks /\ scan_insts(prog, at.block) = at.addr /\ at.addr \in DOMAIN prog
    BY <2>0, <1>a, <1>b, ExitHere DEF InBlock
  <2>2. link[at.block] \in prog[at.addr].to /\ prog[at.addr].op = "ud"
    BY <1>8, <2>1 DEF LinkedExit, LinksOK
  <2>3. link[at.block] \in DOMAIN prog /\ link[at.block] \in Nat
    BY <2>1, <2>2, <1>a, <1>b, Instructions
  <2>4. /\ at' = [block |-> link[at.block], addr |-> link[at.block]]
        /\ pc' = "head" /\ prog' = prog
    BY <1>8 DEF LinkedExit
  <2>5. InBlock(at)' /\ at'.addr = at'.block
    BY <2>3, <2>4, <1>b DEF InBlock
  <2>6. Control'
    BY <2>4, <2>5 DEF Control
  <2>7. CacheTypes'
    BY <1>8, <2>3, <2>4 DEF LinkedExit, CacheTypes
  <2>8. FramesOK' /\ LinksOK'
    BY <1>8 DEF LinkedExit, FramesOK, LinksOK, PlaceOK, InBlock
  <2> QED
    BY <2>6, <2>7, <2>8
<1>9. CASE pre_log_syscall
  <2>0. Exit({"int80"}) /\ nr' = at.addr /\ pc' \in {"int80", "post"}
    BY <1>9 DEF pre_log_syscall
  <2>1. /\ at.addr \in DOMAIN prog /\ prog[at.addr].op = "int80"
        /\ InBlock(at) /\ current = at.block /\ target' \in prog[at.addr].to /\ target' \in Nat
        /\ FramesOK' /\ LinksOK'
        /\ cache' = cache /\ prog' = prog /\ at' = at /\ current' = current
    BY <2>0, <1>3
  <2>2. CacheTypes'
    BY <2>0, <2>1, <1>b DEF CacheTypes
  <2>3. Control'
    BY <2>0, <2>1 DEF Control, PlaceOK, InBlock
  <2> QED
    BY <2>1, <2>2, <2>3
<1>10. CASE SyscallReturns
  <2>1. CacheTypes'
    BY <1>10 DEF SyscallReturns, CacheTypes
  <2>2. Control'
    BY <1>10 DEF SyscallReturns, Control, PlaceOK, InBlock
  <2>3. FramesOK' /\ LinksOK'
    BY <1>10 DEF SyscallReturns, FramesOK, LinksOK, PlaceOK, InBlock
  <2> QED
    BY <2>1, <2>2, <2>3
<1>11. ASSUME NEW v \in Values, post_log_syscall(v)
       PROVE  CacheInv'
  <2>0. InBlock(at) /\ current = at.block /\ prog[at.addr].op = "int80" /\ target \in prog[at.addr].to
    BY <1>11 DEF post_log_syscall, Control, PlaceOK
  <2>1. at.addr \in DOMAIN prog /\ current \in DOMAIN prog
    BY <2>0 DEF InBlock
  <2>2. exit_type(current) = "EXIT_SYSCALL"
    BY <2>0, <1>a, ExitTypeHere DEF ExitType
  <2>3. target \in DOMAIN prog /\ target # Sigreturn
    BY <2>0, <2>1, <1>a, Instructions
  <2>4. BranchOK'
    BY <1>11, <2>1, <2>2, <2>3, <1>b, Zenon DEF post_log_syscall, BranchOK, exit_type
  <2>5. Control'
    BY <1>11, <2>4 DEF post_log_syscall, Control
  <2>6. CacheTypes'
    BY <1>11, SMTT(30) DEF post_log_syscall, CacheTypes, None
  <2>7. FramesOK' /\ LinksOK'
    BY <1>11 DEF post_log_syscall, FramesOK, LinksOK, PlaceOK, InBlock
  <2> QED
    BY <2>5, <2>6, <2>7
<1>12. CASE do_real_branch
  <2>0. BranchOK /\ target \in DOMAIN prog /\ target \in Nat
    BY <1>12, <1>b DEF do_real_branch, Control, BranchOK
  <2>1. /\ at' = [block |-> target, addr |-> target]
        /\ pc' = "head" /\ prog' = prog /\ frames' = frames /\ current' = current
        /\ target' = target /\ nr' = nr
    BY <1>12 DEF do_real_branch
  <2>2. InBlock(at)' /\ at'.addr = at'.block
    BY <2>0, <2>1, <1>b DEF InBlock
  <2>3. Control'
    BY <2>1, <2>2 DEF Control
  <2>4. FramesOK'
    BY <2>1 DEF FramesOK, PlaceOK, InBlock
  <2>5. \/ cache' = cache /\ link' = link
        \/ /\ cache' = cache \cup {target}
           /\ \/ link' = link
              \/ /\ exit_type(current) = "EXIT_UNCOND_DIRECT"
                 /\ link' = [link EXCEPT ![current] = target]
    BY <1>12 DEF do_real_branch, do_compile, recompile_ud
  <2>6. CacheTypes'
    <3>1. cache' \subseteq Blocks
      BY <2>0, <2>5, <1>b DEF CacheTypes
    <3>2. at' \in [block : Int, addr : Nat]
      BY <2>0, <2>1
    <3> QED
      BY <2>0, <2>1, <3>1, <3>2 DEF CacheTypes
  <2>7. LinksOK'
    <3>1. CASE link' = link
      BY <3>1, <2>1 DEF LinksOK
    <3>2. CASE /\ exit_type(current) = "EXIT_UNCOND_DIRECT"
               /\ link' = [link EXCEPT ![current] = target]
      <4>1. /\ current \in DOMAIN prog
            /\ prog[scan_insts(prog, current)].op = "ud"
            /\ target \in prog[scan_insts(prog, current)].to
        BY <3>2, <2>0 DEF BranchOK
      <4>2. link' \in [Blocks -> Int]
        <5>1. link \in [Blocks -> Int] /\ target \in Int
          BY <2>0 DEF LinksOK
        <5> QED
          BY <3>2, <5>1, Zenon
      <4>3. \A b \in Blocks : link'[b] = IF b = current THEN target ELSE link[b]
        BY <3>2 DEF LinksOK
      <4> QED
        BY <4>1, <4>2, <4>3, <2>1 DEF LinksOK
    <3> QED
      BY <2>5, <3>1, <3>2
  <2> QED
    BY <2>3, <2>4, <2>6, <2>7
<1>13. CASE BranchToSigreturn
  <2>1. target = Sigreturn /\ exit_type(current) = "EXIT_UNCOND_INDIRECT" /\ frames # <<>>
    BY <1>13 DEF BranchToSigreturn, Control, BranchOK
  <2>2. Control'
    BY <1>13, <2>1 DEF BranchToSigreturn, Control
  <2>3. CacheTypes'
    BY <1>13, SMTT(30) DEF BranchToSigreturn, CacheTypes
  <2>4. FramesOK' /\ LinksOK'
    BY <1>13 DEF BranchToSigreturn, FramesOK, LinksOK, PlaceOK, InBlock
  <2> QED
    BY <2>2, <2>3, <2>4
<1>14. CASE signal_handler
  <2>1. pc \in {"code", "int80"} /\ PlaceOK(pc, at, target, current)
    BY <1>14 DEF signal_handler, Struck, Control
  <2>2. current \in DOMAIN prog /\ current = at.block /\ at.addr \in DOMAIN prog
    BY <2>1 DEF PlaceOK, InBlock
  <2>3. exit_type(current) # "EXIT_UNCOND_DIRECT"
    <3>1. CASE pc = "code"
      BY <3>1, <1>14, <2>2 DEF signal_handler, Struck
    <3>2. CASE pc = "int80"
      BY <3>2, <2>1, <2>2, <1>a, ExitTypeHere DEF PlaceOK, ExitType
    <3> QED
      BY <3>1, <3>2, <2>1
  <2>4. Handler \in DOMAIN prog /\ Handler # Sigreturn
    BY <1>a, BlockNames
  <2>5. /\ prog' = prog /\ pc' = "branch" /\ target' = Handler /\ current' = current /\ at' = at
        /\ link' = link /\ cache' = cache /\ nr' = nr
        /\ frames' = Append(frames, [pc |-> pc, at |-> at, target |-> target,
                                     nr |-> nr, current |-> current])
    BY <1>14, Zenon DEF signal_handler
  <2>6. BranchOK'
    BY <2>2, <2>3, <2>4, <2>5, <1>b, Zenon DEF BranchOK, exit_type
  <2>7. Control'
    BY <2>5, <2>6 DEF Control
  <2>8. CacheTypes'
    BY <2>4, <2>5, <1>b DEF CacheTypes
  <2>9. FramesOK'
    <3> DEFINE f == [pc |-> pc, at |-> at, target |-> target, nr |-> nr, current |-> current]
    <3>1. at \in [block : Nat, addr : Nat]
      BY <2>2, <1>b DEF CacheTypes
    <3>2. f \in Frames
      BY <3>1, <2>1, <2>2, <1>b DEF CacheTypes, Frames
    <3>3. frames' \in Seq(Frames) /\ Len(frames') = Len(frames) + 1
      BY <3>2, <2>5 DEF FramesOK
    <3>4. \A i \in 1 .. Len(frames) : frames'[i] = frames[i]
      BY <3>2, <2>5 DEF FramesOK
    <3>5. frames'[Len(frames) + 1] = f
      BY <3>2, <2>5 DEF FramesOK
    <3>6. PlaceOK(f.pc, f.at, f.target, f.current)
      BY <2>1
    <3>7. \A i \in 1 .. Len(frames') :
            PlaceOK(frames'[i].pc, frames'[i].at, frames'[i].target, frames'[i].current)
      <4> HIDE DEF f
      <4> SUFFICES ASSUME NEW i \in 1 .. Len(frames')
                   PROVE  PlaceOK(frames'[i].pc, frames'[i].at, frames'[i].target, frames'[i].current)
        OBVIOUS
      <4>1. Len(frames) \in Nat
        BY DEF FramesOK
      <4>2. i \in 1 .. Len(frames) \/ i = Len(frames) + 1
        BY <4>1, <3>3
      <4>3. CASE i \in 1 .. Len(frames)
        BY <4>3, <3>4 DEF FramesOK
      <4>4. CASE i = Len(frames) + 1
        BY <4>4, <3>5, <3>6
      <4> QED
        BY <4>2, <4>3, <4>4
    <3> QED
      BY <3>3, <3>7, <2>5, FramesKept
  <2>10. LinksOK'
    BY <2>5 DEF LinksOK
  <2> QED
    BY <2>7, <2>8, <2>9, <2>10, SMTT(30)
<1>15. CASE signal_terminate
  <2>1. CacheTypes'
    BY <1>15, Zenon DEF signal_terminate, CacheTypes
  <2>2. Control'
    BY <1>15, SMTT(30) DEF signal_terminate, Control
  <2>3. FramesOK' /\ LinksOK'
    BY <1>15 DEF signal_terminate, FramesOK, LinksOK, PlaceOK, InBlock
  <2> QED
    BY <2>1, <2>2, <2>3
<1>16. CASE common_wrapper_sigreturn
  <2> DEFINE f == frames[Len(frames)]
  <2>1. frames # <<>> /\ frames \in Seq(Frames)
    BY <1>16 DEF common_wrapper_sigreturn, Control, FramesOK
  <2>2. Len(frames) \in 1 .. Len(frames) /\ Len(frames) \in Nat
    BY <2>1
  <2>3. f \in Frames /\ PlaceOK(f.pc, f.at, f.target, f.current)
    BY <2>1, <2>2 DEF FramesOK
  <2>4. /\ pc' = f.pc /\ at' = f.at /\ target' = f.target /\ nr' = f.nr /\ current' = f.current
        /\ prog' = prog /\ cache' = cache /\ link' = link
        /\ frames' = Front(frames)
    BY <1>16 DEF common_wrapper_sigreturn, RestoredTarget, RestoredBlock, Last, Front
  <2>5. CacheTypes'
    BY <2>3, <2>4, SMTT(30) DEF CacheTypes, Frames
  <2>6. Control'
    BY <2>3, <2>4 DEF Control, Frames, PlaceOK, InBlock
  <2>7. FramesOK'
    <3>1. frames' \in Seq(Frames) /\ Len(frames') = Len(frames) - 1
      BY <2>1, <2>2, <2>4, FrontFacts
    <3>2. \A i \in 1 .. Len(frames') : frames'[i] = frames[i] /\ i \in 1 .. Len(frames)
      BY <2>1, <2>2, <2>4, <3>1, FrontFacts
    <3>3. \A i \in 1 .. Len(frames') :
            PlaceOK(frames'[i].pc, frames'[i].at, frames'[i].target, frames'[i].current)
      BY <3>2, Zenon DEF FramesOK
    <3> QED
      BY <3>1, <3>3, <2>4, FramesKept
  <2>8. LinksOK'
    BY <2>4 DEF LinksOK
  <2> QED
    BY <2>5, <2>6, <2>7, <2>8
<1> QED
  BY <1>1, <1>2, <1>5, <1>6, <1>7, <1>8, <1>9, <1>10, <1>11, <1>12, <1>13, <1>14, <1>15, <1>16
     DEF Next

-----------------------------------------------------------------------------
(* LinksRight                                                              *)

\* With no faults in blocks that end in a direct jmp or call, the invariant holds
\* for every program, start and handler, and any number of steps and signals.
THEOREM CacheInvHolds ==
  ASSUME ~UdFaults
  PROVE  Spec => []CacheInv
<1>1. CacheInv /\ [Next]_vars => CacheInv'
  <2>1. CASE Next
    BY <2>1, CacheStep, SMTT(30)
  <2>2. CASE UNCHANGED vars
    BY <2>2 DEF vars, CacheInv, CacheTypes, Control, PlaceOK, InBlock, BranchOK, exit_type,
      FramesOK, LinksOK
  <2> QED
    BY <2>1, <2>2
<1> QED
  BY <1>1, CacheInit, PTL DEF Spec

\* recompile_ud replaces no exit but a direct jmp or call, by a jmp to where the
\* program goes, whatever the program and wherever signals strike it.
THEOREM LinksHold ==
  ASSUME ~UdFaults
  PROVE  Spec => []LinksRight
<1>1. CacheInv => LinksRight
  BY DEF CacheInv, CacheTypes, LinksOK, LinksRight
<1> QED
  BY <1>1, CacheInvHolds, PTL

-----------------------------------------------------------------------------
(* The refinement                                                          *)

\* There is one of them for each frame.
LEMMA ReturnsFacts ==
  ASSUME NEW s \in Seq(Frames)
  PROVE  /\ Returns(s) \in Seq(Nat) /\ Len(Returns(s)) = Len(s)
         /\ \A i \in 1 .. Len(s) : Returns(s)[i] = s[i].at.addr
<1>1. Len(s) \in Nat /\ DOMAIN s = 1 .. Len(s)
  OBVIOUS
<1>2. \A i \in 1 .. Len(s) : s[i].at.addr \in Nat
  <2>1. \A i \in 1 .. Len(s) : s[i] \in Frames
    OBVIOUS
  <2> QED
    BY <2>1, Zenon DEF Frames
<1>3. Returns(s) \in [1 .. Len(s) -> Nat]
  BY <1>1, <1>2 DEF Returns
<1>4. Returns(s) \in Seq(Nat) /\ Len(Returns(s)) = Len(s)
  BY <1>1, <1>3
<1> QED
  BY <1>1, <1>4 DEF Returns

\* A frame pushed is an address pushed.
LEMMA ReturnsPushed ==
  ASSUME NEW s \in Seq(Frames), NEW f \in Frames
  PROVE  Returns(Append(s, f)) = Append(Returns(s), f.at.addr)
<1> DEFINE n == Len(s)
           t == Append(s, f)
           r == Returns(s)
           q == Append(r, f.at.addr)
           b == Returns(t)
<1>1. /\ n \in Nat /\ t \in Seq(Frames) /\ Len(t) = n + 1
      /\ (\A i \in 1 .. n : t[i] = s[i]) /\ t[n + 1] = f
  OBVIOUS
<1>2. f.at.addr \in Nat
  BY DEF Frames
<1>3. r \in Seq(Nat) /\ Len(r) = n /\ \A i \in 1 .. n : r[i] = s[i].at.addr
  BY ReturnsFacts
<1> HIDE DEF r
<1>4. /\ q \in Seq(Nat) /\ Len(q) = n + 1
      /\ (\A i \in 1 .. n : q[i] = r[i]) /\ q[n + 1] = f.at.addr
  BY <1>2, <1>3
<1> HIDE DEF t
<1>5. b \in Seq(Nat) /\ Len(b) = n + 1 /\ \A i \in 1 .. n + 1 : b[i] = t[i].at.addr
  BY <1>1, ReturnsFacts
<1> HIDE DEF n, q, b
<1>6. \A i \in 1 .. n + 1 : i \in 1 .. n \/ i = n + 1
  BY <1>1
<1>7. n + 1 \in 1 .. n + 1 /\ \A i \in 1 .. n : i \in 1 .. n + 1
  BY <1>1
<1>8. ASSUME NEW i \in 1 .. n PROVE b[i] = q[i]
  <2>1. b[i] = t[i].at.addr /\ t[i] = s[i]
    BY <1>1, <1>5, <1>7, Zenon
  <2>2. q[i] = r[i] /\ r[i] = s[i].at.addr
    BY <1>3, <1>4, Zenon
  <2> QED
    BY <2>1, <2>2, Zenon
<1>9. b[n + 1] = q[n + 1]
  BY <1>1, <1>4, <1>5, <1>7, Zenon
<1>10. \A i \in 1 .. n + 1 : b[i] = q[i]
  BY <1>6, <1>8, <1>9, Zenon
<1>11. b = q
  BY <1>4, <1>5, <1>10, SeqEqual
<1> QED
  BY <1>11 DEF b, q, r, t

\* A frame popped is an address popped.
LEMMA ReturnsPopped ==
  ASSUME NEW s \in Seq(Frames), s # <<>>
  PROVE  /\ Returns(s) # <<>> /\ Last(Returns(s)) = Last(s).at.addr
         /\ Returns(Front(s)) = Front(Returns(s))
<1> DEFINE n == Len(s)
           t == Front(s)
           r == Returns(s)
           q == Front(r)
           b == Returns(t)
<1>1. n \in Nat /\ n >= 1
  OBVIOUS
<1>2. t \in Seq(Frames) /\ Len(t) = n - 1 /\ \A i \in 1 .. Len(t) : t[i] = s[i]
  BY FrontFacts
<1>3. r \in Seq(Nat) /\ Len(r) = n /\ \A i \in 1 .. n : r[i] = s[i].at.addr
  BY ReturnsFacts
<1> HIDE DEF r
<1>4. r # <<>>
  BY <1>1, <1>3
<1>5. q \in Seq(Nat) /\ Len(q) = n - 1 /\ \A i \in 1 .. Len(q) : q[i] = r[i]
  BY <1>3, <1>4, FrontFacts
<1> HIDE DEF t
<1>6. b \in Seq(Nat) /\ Len(b) = n - 1 /\ \A i \in 1 .. n - 1 : b[i] = t[i].at.addr
  BY <1>2, ReturnsFacts
<1> HIDE DEF n, q, b
<1>7. \A i \in 1 .. n - 1 : i \in 1 .. n
  BY <1>1
<1>8. \A i \in 1 .. n - 1 : b[i] = q[i]
  BY <1>2, <1>3, <1>5, <1>6, <1>7, Zenon
<1>9. b = q
  BY <1>5, <1>6, <1>8, SeqEqual
<1>10. Last(r) = Last(s).at.addr
  <2>1. n \in 1 .. n
    BY <1>1
  <2> QED
    BY <1>3, <2>1, Zenon DEF Last, n
<1> QED
  BY <1>4, <1>9, <1>10 DEF b, q, r, t

\* A recorded thread starts where the program starts.
LEMMA NativeInit == Init => N!Init
<1> SUFFICES ASSUME Init PROVE N!Init
  OBVIOUS
<1>1. Eip = Start /\ (pc # "end") = TRUE /\ prog \in Programs
  BY DEF Init, Eip
<1>2. [i \in DOMAIN frames |-> frames[i].at.addr] = <<>>
  BY DEF Init
<1> QED
  BY <1>1, <1>2 DEF N!Init

\* Every step of a recorded thread is an instruction, a signal, a return of a
\* handler or the end of the program, or is nothing the program could see.
LEMMA NativeStep ==
  ASSUME ~UdFaults, CacheInv, Next
  PROVE  N!Next \/ UNCHANGED N!vars
<1> USE DEF CacheInv, cacheVars
<1>a. prog \in Programs
  BY DEF CacheTypes
<1>b. /\ DOMAIN prog \subseteq Nat /\ Sigreturn \notin DOMAIN prog
      /\ Handler \in DOMAIN prog
  BY <1>a, BlockNames
<1>c. frames = <<>> \/ Stack # <<>>
  <2>1. frames \in Seq(Frames)
    BY DEF FramesOK
  <2>2. Stack \in Seq(Nat) /\ Len(Stack) = Len(frames)
    BY <2>1, ReturnsFacts DEF Stack
  <2> QED
    BY <2>1, <2>2
<1>1. ASSUME prog' = prog, frames' = frames, Eip' = Eip, pc # "end", pc' # "end"
      PROVE  UNCHANGED N!vars
  BY <1>1 DEF N!vars
<1>2. ASSUME prog' = prog, frames' = frames, pc # "end", pc' # "end",
             Eip = at.addr, at.addr \in DOMAIN prog,
             Eip' \in prog[at.addr].to, Eip' = Sigreturn => frames # <<>>
      PROVE  N!Next
  <2>1. Eip # Sigreturn
    BY <1>2, <1>b
  <2>2. Eip' = Sigreturn => Stack # <<>>
    BY <1>2, <1>c
  <2>3. N!Instruction
    BY <1>2, <2>1, <2>2 DEF N!Instruction, Stack, Returns
  <2> QED
    BY <1>2, <2>3 DEF N!Next
<1>3. CASE SetCurrentBlock
  BY <1>3, <1>1 DEF SetCurrentBlock, Eip
<1>4. CASE Plain
  <2>1. InBlock(at) /\ at \in [block : Int, addr : Nat] /\ prog[at.addr].op = "plain"
    BY <1>4 DEF Plain, Control, PlaceOK, CacheTypes, Inst
  <2>2. at.addr \in DOMAIN prog
    BY <2>1 DEF InBlock
  <2>3. at'.addr = at.addr + 1
    BY <1>4, <2>1 DEF Plain
  <2>4. at.addr + 1 \in prog[at.addr].to /\ at.addr + 1 # Sigreturn
    BY <2>1, <2>2, <1>a, Instructions
  <2>5. Eip = at.addr /\ Eip' = at.addr + 1
    BY <1>4, <2>3 DEF Plain, Eip
  <2> QED
    BY <1>4, <1>2, <2>2, <2>4, <2>5 DEF Plain
<1>5. ASSUME NEW ops, Exit(ops), pc' = "branch"
      PROVE  N!Next
  <2>1. at.addr \in DOMAIN prog /\ Eip = at.addr /\ Eip' = target'
    BY <1>5, Zenon DEF Exit, Control, PlaceOK, InBlock, Eip
  <2>2. target' \in prog[at.addr].to /\ (target' = Sigreturn => frames # <<>>)
    BY <1>5 DEF Exit, Targets, Inst
  <2> QED
    BY <1>5, <1>2, <2>1, <2>2, Zenon DEF Exit
<1>6. CASE DirectExit
  BY <1>6, <1>5 DEF DirectExit
<1>7. CASE LoggedExit
  BY <1>7, <1>5 DEF LoggedExit
<1>8. ASSUME NEW v \in Values, Rdtsc(v)
      PROVE  N!Next
  BY <1>8, <1>5, Zenon DEF Rdtsc
<1>9. CASE LinkedExit
  <2>0. InBlock(at) /\ prog[at.addr].op # "plain"
    BY <1>9 DEF LinkedExit, Control, PlaceOK, Inst
  <2>1. /\ at.block \in Blocks /\ scan_insts(prog, at.block) = at.addr
        /\ at.addr \in DOMAIN prog
    BY <2>0, <1>a, ExitHere, BlockNames, SMTT(30) DEF InBlock
  <2>2. link[at.block] \in prog[at.addr].to /\ prog[at.addr].op = "ud"
    BY <1>9, <2>1 DEF LinkedExit, LinksOK
  <2>3. link[at.block] # Sigreturn
    BY <2>1, <2>2, <1>a, Instructions
  <2>4. Eip = at.addr /\ Eip' = link[at.block]
    BY <1>9, Zenon DEF LinkedExit, Eip
  <2> QED
    BY <1>9, <1>2, <2>1, <2>2, <2>3, <2>4, Zenon DEF LinkedExit
<1>10. CASE pre_log_syscall
  <2>1. Eip' = Eip
    BY <1>10 DEF pre_log_syscall, Exit, Eip
  <2> QED
    BY <1>10, <1>1, <2>1, Zenon DEF pre_log_syscall, Exit
<1>11. CASE SyscallReturns
  BY <1>11, <1>1, Zenon DEF SyscallReturns, Eip
<1>12. ASSUME NEW v \in Values, post_log_syscall(v)
       PROVE  N!Next
  <2>1. /\ at.addr \in DOMAIN prog /\ prog[at.addr].op = "int80"
        /\ target \in prog[at.addr].to
    BY <1>12 DEF post_log_syscall, Control, PlaceOK, InBlock
  <2>2. target # Sigreturn
    BY <2>1, <1>a, Instructions
  <2>3. Eip = at.addr /\ Eip' = target
    BY <1>12, ZenonT(40) DEF post_log_syscall, Eip
  <2> QED
    BY <1>12, <1>2, <2>1, <2>2, <2>3, SMTT(30) DEF post_log_syscall
<1>13. CASE do_real_branch
  <2>1. Eip' = Eip
    BY <1>13 DEF do_real_branch, Eip
  <2> QED
    BY <1>13, <1>1, <2>1 DEF do_real_branch
<1>14. CASE BranchToSigreturn
  <2>1. exit_type(current) = "EXIT_UNCOND_INDIRECT"
    BY <1>14 DEF BranchToSigreturn, Control, BranchOK
  <2>2. pc' = "sigreturn" /\ Eip' = Eip
    BY <1>14, <2>1 DEF BranchToSigreturn, Eip
  <2> QED
    BY <1>14, <1>1, <2>2 DEF BranchToSigreturn
<1>15. CASE signal_handler
  <2> DEFINE f == [pc |-> pc, at |-> at, target |-> target, nr |-> nr, current |-> current]
  <2>1. pc \in {"code", "int80"} /\ PlaceOK(pc, at, target, current)
    BY <1>15 DEF signal_handler, Struck, Control
  <2>2. at.addr \in DOMAIN prog /\ current \in Nat /\ at \in [block : Nat, addr : Nat]
    BY <2>1, <1>b, Zenon DEF PlaceOK, InBlock, CacheTypes
  <2>3. prog' = prog /\ pc' = "branch" /\ target' = Handler /\ frames' = Append(frames, f)
    BY <1>15 DEF signal_handler
  <2>4. Eip = at.addr /\ Eip' = Handler
    BY <2>1, <2>3 DEF Eip
  <2>5. f \in Frames /\ f.at = at
    BY <2>1, <2>2 DEF CacheTypes, Frames
  <2>6. Stack' = Append(Stack, at.addr)
    <3> HIDE DEF f
    <3>1. frames \in Seq(Frames)
      BY DEF FramesOK
    <3> QED
      BY <3>1, <2>3, <2>5, ReturnsPushed, SMTT(30) DEF Stack
  <2>7. N!Signal
    BY <2>1, <2>2, <2>3, <2>4, <2>6, <1>b DEF N!Signal, Stack, Returns
  <2> QED
    BY <2>1, <2>7 DEF N!Next
<1>16. CASE signal_terminate
  <2>1. pc \in {"code", "int80"} /\ pc' = "end" /\ Eip' = Eip
    BY <1>16 DEF signal_terminate, Struck, Eip
  <2>2. N!Terminate
    BY <1>16, <2>1 DEF signal_terminate, N!Terminate
  <2> QED
    BY <2>1, <2>2 DEF N!Next
<1>17. CASE common_wrapper_sigreturn
  <2> DEFINE f == frames[Len(frames)]
  <2>1. frames # <<>> /\ frames \in Seq(Frames) /\ pc = "sigreturn" /\ target = Sigreturn
    BY <1>17 DEF common_wrapper_sigreturn, Control, FramesOK
  <2>2. Len(frames) \in 1 .. Len(frames) /\ f \in Frames
    BY <2>1
  <2>3. pc' = f.pc /\ at' = f.at /\ prog' = prog /\ frames' = Front(frames)
    BY <1>17 DEF common_wrapper_sigreturn, Last, Front
  <2>4. f.pc \in {"code", "int80"}
    BY <2>2 DEF Frames
  <2>5. Eip = Sigreturn /\ Eip' = f.at.addr /\ pc' # "end"
    BY <2>1, <2>3, <2>4 DEF Eip
  <2>6. Stack # <<>> /\ Last(Stack) = f.at.addr
    BY <2>1, ReturnsPopped DEF Stack, Last
  <2>7. Stack' = Front(Stack)
    BY <2>1, <2>3, ReturnsPopped DEF Stack
  <2>8. Stack[Len(Stack)] = f.at.addr /\ Stack' = SubSeq(Stack, 1, Len(Stack) - 1)
    BY <2>6, <2>7, Zenon DEF Front, Last
  <2>9. N!Return
    BY <2>1, <2>3, <2>5, <2>6, <2>8, Zenon DEF N!Return, Stack, Returns
  <2> QED
    BY <2>1, <2>9 DEF N!Next
<1> QED
  BY <1>3, <1>4, <1>6, <1>7, <1>8, <1>9, <1>10, <1>11, <1>12, <1>13, <1>14, <1>15, <1>16, <1>17
     DEF Next

\* The recorder implements the program's native execution: compiling blocks,
\* linking them and leaving and entering them by signals (do_real_branch,
\* signal_handler, common_wrapper_sigreturn) never shows.
THEOREM RunsNative ==
  ASSUME ~UdFaults
  PROVE  Spec => RunsAsNative
<1>1. CacheInv /\ [Next]_vars => [N!Next]_(N!vars)
  <2>1. CASE Next
    BY <2>1, NativeStep
  <2>2. CASE UNCHANGED vars
    BY <2>2 DEF vars, N!vars, Eip
  <2> QED
    BY <2>1, <2>2
<1> QED
  BY <1>1, NativeInit, CacheInvHolds, PTL DEF Spec, RunsAsNative, N!Spec

-----------------------------------------------------------------------------
(* A trace grows with the log and the history                              *)

Extends(s2, s) ==
  /\ Len(s) \in Nat /\ Len(s2) \in Nat /\ Len(s) <= Len(s2)
  /\ \A i \in 1 .. Len(s) : s2[i] = s[i]

\* An entry stays where it is.
LEMMA HoldsStill ==
  ASSUME NEW lg, NEW lg2, Extends(lg2, lg), NEW i, NEW m, Holds(lg, i, m)
  PROVE  Holds(lg2, i, m) /\ lg2[i] = lg[i]
BY DEF Extends, Holds

\* A step of the run stays one when the log grows.
LEMMA FollowsStill ==
  ASSUME NEW p, NEW lg, NEW lg2, Extends(lg2, lg), NEW t, NEW u, NEW d,
         Follows(p, lg, t, u, d)
  PROVE  Follows(p, lg2, t, u, d)
<1>1. CASE Freely(p, t, u, d)
  BY <1>1, Zenon DEF Follows
<1>2. CASE Branches(p, lg, t, u, d)
  <2>1. Holds(lg, t.pos, "target")
    BY <1>2, Zenon DEF Branches
  <2>2. /\ Holds(lg2, t.pos, "target") /\ lg2[t.pos] = lg[t.pos]
    BY <2>1, HoldsStill
  <2> QED
    BY <1>2, <2>2, Zenon DEF Follows, Branches
<1>3. CASE ReadsTsc(p, lg, t, u, d)
  <2>1. Holds(lg, t.pos, "rdtsc")
    BY <1>3, Zenon DEF ReadsTsc
  <2>2. /\ Holds(lg2, t.pos, "rdtsc") /\ lg2[t.pos] = lg[t.pos]
    BY <2>1, HoldsStill
  <2> QED
    BY <1>3, <2>2, Zenon DEF Follows, ReadsTsc
<1>4. CASE Calls(p, lg, t, u, d)
  <2>1. Holds(lg, t.pos, "syscall") /\ Holds(lg, t.pos + 1, "nosignal")
    BY <1>4, Zenon DEF Calls
  <2>2. /\ Holds(lg2, t.pos, "syscall") /\ lg2[t.pos] = lg[t.pos]
        /\ Holds(lg2, t.pos + 1, "nosignal") /\ lg2[t.pos + 1] = lg[t.pos + 1]
    BY <2>1, HoldsStill
  <2> QED
    BY <1>4, <2>2, Zenon DEF Follows, Calls
<1>5. CASE Breaks(p, lg, t, u, d)
  <2>1. Holds(lg, t.pos, "syscall") /\ Holds(lg, t.pos + 1, "signal") /\ Holds(lg, t.pos + 2, "signal2")
    BY <1>5, Zenon DEF Breaks
  <2>2. /\ Holds(lg2, t.pos, "syscall") /\ lg2[t.pos] = lg[t.pos]
        /\ Holds(lg2, t.pos + 1, "signal") /\ lg2[t.pos + 1] = lg[t.pos + 1]
        /\ Holds(lg2, t.pos + 2, "signal2") /\ lg2[t.pos + 2] = lg[t.pos + 2]
    BY <2>1, HoldsStill
  <2> QED
    BY <1>5, <2>2, Zenon DEF Follows, Breaks
<1>6. CASE ComesBack(lg, t, u, d)
  BY <1>6, HoldsStill, Zenon DEF Follows, ComesBack
<1> QED
  BY <1>1, <1>2, <1>3, <1>4, <1>5, <1>6, Zenon DEF Follows

\* So does a trace.
LEMMA TraceStill ==
  ASSUME NEW p, NEW lg, NEW lg2, NEW pt, NEW pt2, NEW T, NEW h,
         Extends(lg2, lg), Extends(pt2, pt), Trace(p, lg, pt, T, h)
  PROVE  Trace(p, lg2, pt2, T, h)
<1>1. h \in 0 .. Len(pt2) /\ \A k \in 1 .. h : pt2[k] = pt[k]
  BY DEF Trace, Extends
<1>2. \A k \in 1 .. h : Follows(p, lg2, T[k - 1], T[k], pt2[k])
  BY <1>1, FollowsStill, Zenon DEF Trace
<1> QED
  BY <1>1, <1>2, ZenonT(40) DEF Trace

\* A trace of the whole run goes on with the next step.
LEMMA TraceGrows ==
  ASSUME NEW p, NEW lg, NEW lg2, NEW pt, NEW pt2, NEW T, NEW h,
         Extends(lg2, lg), Extends(pt2, pt), Trace(p, lg, pt, T, h),
         h = Len(pt), Len(pt2) = h + 1,
         NEW u, u.ip \in Nat, u.pos \in Nat, Follows(p, lg2, T[h], u, pt2[h + 1])
  PROVE  \E T2 : Trace(p, lg2, pt2, T2, h + 1) /\ T2[h + 1] = u
<1> DEFINE T2 == [k \in 0 .. h + 1 |-> IF k = h + 1 THEN u ELSE T[k]]
<1>1. h \in Nat
  BY DEF Trace, Extends
<1>2. T2[h + 1] = u /\ \A k \in 0 .. h : T2[k] = T[k]
  BY <1>1
<1> HIDE DEF T2
<1>3. Trace(p, lg2, pt2, T, h)
  BY TraceStill
<1>4. \A k \in 0 .. h + 1 : k \in 0 .. h \/ k = h + 1
  BY <1>1
<1>5. \A k \in 0 .. h + 1 : T2[k].ip \in Nat /\ T2[k].pos \in Nat
  BY <1>2, <1>3, <1>4, Zenon DEF Trace
<1>6. T2[0].ip = Start /\ T2[0].pos = 1 /\ T2[0].stk = <<>>
  BY <1>1, <1>2, <1>3, SMTT(30) DEF Trace
<1>7. ASSUME NEW k \in 1 .. h + 1 PROVE Follows(p, lg2, T2[k - 1], T2[k], pt2[k])
  <2>1. CASE k = h + 1
    <3>1. k - 1 = h /\ T2[h] = T[h]
      BY <1>1, <1>2, <2>1
    <3> QED
      BY <1>2, <2>1, <3>1, Zenon
  <2>2. CASE k \in 1 .. h
    <3>1. T2[k - 1] = T[k - 1] /\ T2[k] = T[k]
      BY <1>1, <1>2, <2>2
    <3> QED
      BY <1>3, <2>2, <3>1, Zenon DEF Trace
  <2> QED
    BY <1>1, <2>1, <2>2
<1>8. h + 1 \in 0 .. Len(pt2)
  BY <1>1
<1>9. Trace(p, lg2, pt2, T2, h + 1)
  BY <1>5, <1>6, <1>7, <1>8, Zenon DEF Trace
<1> QED
  BY <1>2, <1>9, Zenon

-----------------------------------------------------------------------------
(* The recorded run has a trace                                            *)

\* A signal outside system calls stays where it is in the log.
LEMMA StumblesStill ==
  ASSUME NEW t, NEW h, Stumbles(t, h), prog' = prog, Extends(log', log), Extends(path', path)
  PROVE  Stumbles(t, h)'
<1>1. Holds(log', t.pos, "signal") /\ log'[t.pos] = log[t.pos]
  BY HoldsStill DEF Stumbles
<1>2. h + 1 \in 1 .. Len(path') /\ path'[h + 1] = path[h + 1]
  BY DEF Stumbles, Extends
<1> QED
  BY <1>1, <1>2 DEF Stumbles

\* Steps inside the recorder change neither the log nor the program's state.
LEMMA StaysPut ==
  ASSUME HistTypes, TraceInv, prog' = prog, log' = log, path' = path, frames' = frames,
         pc # "end", pc' # "end", Eip' = Eip,
         pc \in {"int80", "post"} <=> pc' \in {"int80", "post"},
         pc \in {"int80", "post"} => nr' = nr /\ at' = at
  PROVE  TraceInv'
<1>1. PICK T, h : Trace(prog, log, path, T, h) /\ Rest(T[h], h)
  BY Zenon DEF TraceInv
<1>2. Trace(prog, log, path, T, h)'
  BY <1>1 DEF Trace
<1>3. Extends(log', log) /\ Extends(path', path)
  BY DEF HistTypes, Extends
<1>4. CASE Goes(T[h], h)
  <2>1. Goes(T[h], h)'
    BY <1>4, Zenon DEF Goes, InCalls, Stack, Holds
  <2> QED
    BY <1>2, <2>1, Zenon DEF TraceInv, Rest
<1>5. CASE Stumbles(T[h], h)
  BY <1>2, <1>3, <1>5, StumblesStill, SMTT(30) DEF TraceInv, Rest
<1>6. CASE Dies(T[h], h)
  BY <1>6 DEF Dies
<1> QED
  BY <1>1, <1>4, <1>5, <1>6 DEF Rest

\* A step of the program leads to the next place.
LEMMA Advances ==
  ASSUME HistTypes, TraceInv, prog' = prog, pc # "end",
         Extends(log', log), Extends(path', path), Len(path') = Len(path) + 1,
         NEW u, u.ip \in Nat, u.pos \in Nat,
         \A t : Goes(t, Len(path)) =>
           Follows(prog, log', t, u, path'[Len(path) + 1]) /\ Goes(u, Len(path))'
  PROVE  TraceInv'
<1>1. PICK T, h : Trace(prog, log, path, T, h) /\ Rest(T[h], h)
  BY ZenonT(40) DEF TraceInv
<1>2. CASE Goes(T[h], h)
  <2>1. h = Len(path)
    BY <1>2 DEF Goes
  <2>2. Follows(prog, log', T[h], u, path'[h + 1])
    BY <1>2, <2>1, ZenonT(40)
  <2>3. \E T2 : Trace(prog, log', path', T2, h + 1) /\ T2[h + 1] = u
    BY <1>1, <2>1, <2>2, TraceGrows
  <2>4. PICK T2 : Trace(prog', log', path', T2, h + 1) /\ T2[h + 1] = u
    BY <2>3, Zenon
  <2>5. Goes(u, h + 1)'
    BY <1>2, <2>1, Zenon DEF Goes
  <2>6. Goes(T2[h + 1], h + 1)'
    BY <2>4, <2>5, Zenon
  <2> QED
    BY <2>4, <2>6, SMTT(30) DEF TraceInv, Rest
<1>3. CASE Stumbles(T[h], h)
  <2>1. Trace(prog', log', path', T, h)
    BY <1>1, TraceStill, Zenon
  <2> QED
    BY <1>3, <2>1, StumblesStill, Zenon DEF TraceInv, Rest
<1>4. CASE Dies(T[h], h)
  BY <1>4, Zenon DEF Dies
<1> QED
  BY <1>1, <1>2, <1>3, <1>4 DEF Rest

\* What the log and the history hold behind a step
LEMMA LogGrows ==
  ASSUME HistTypes, NEW e \in Entries, log' = log \o <<e>>
  PROVE  /\ log' \in Seq(Entries) /\ Len(log') = Len(log) + 1 /\ Len(log) \in Nat
         /\ Extends(log', log) /\ log'[Len(log) + 1] = e
BY DEF HistTypes, Extends

\* The same for two entries, as signal_handler writes them
LEMMA LogGrowsTwice ==
  ASSUME HistTypes, NEW e \in Entries, NEW f \in Entries, log' = log \o <<e, f>>
  PROVE  /\ log' \in Seq(Entries) /\ Len(log') = Len(log) + 2 /\ Len(log) \in Nat
         /\ Extends(log', log) /\ log'[Len(log) + 1] = e /\ log'[Len(log) + 2] = f
BY DEF HistTypes, Extends

\* The same for a step that writes none
LEMMA LogSame ==
  ASSUME HistTypes, log' = log
  PROVE  log' \in Seq(Entries) /\ Len(log) \in Nat /\ Extends(log', log)
BY DEF HistTypes, Extends

\* The history grows by what the step does (Does).
LEMMA PathGrows ==
  ASSUME HistTypes, NEW d \in Deeds, Does(d)
  PROVE  /\ path' \in Seq(Deeds) /\ covered' \in 0 .. Len(path')
         /\ Len(path') = Len(path) + 1 /\ Len(path) \in Nat
         /\ Extends(path', path) /\ path'[Len(path) + 1] = d
<1>1. path' = Append(path, d) /\ path \in Seq(Deeds) /\ covered \in 0 .. Len(path)
  BY DEF Does, HistTypes
<1>2. /\ path' \in Seq(Deeds) /\ Len(path') = Len(path) + 1 /\ Len(path) \in Nat
      /\ path'[Len(path) + 1] = d
  BY <1>1
<1>3. \A i \in 1 .. Len(path) : path'[i] = path[i]
  BY <1>1
<1>4. covered' \in 0 .. Len(path')
  BY <1>1, <1>2 DEF Does
<1> QED
  BY <1>2, <1>3, <1>4 DEF Extends

\* Instructions that are not logged: Plain, DirectExit, LinkedExit
LEMMA FreeStep ==
  ASSUME HistTypes, TraceInv, prog' = prog, log' = log, frames' = frames,
         pc = "code", at.addr \in DOMAIN prog, prog[at.addr].op \in {"plain", "ud"},
         Does(Did("inst", at.addr, 0)), at.addr \in Int,
         pc' \in {"code", "branch", "head"}, Eip' \in Nat, Eip' \in prog[at.addr].to
  PROVE  HistTypes' /\ TraceInv'
<1>1. Did("inst", at.addr, 0) \in Deeds
  BY DEF Did, Deeds
<1> DEFINE d == Did("inst", at.addr, 0)
<1>2. /\ path' \in Seq(Deeds) /\ covered' \in 0 .. Len(path')
      /\ Len(path') = Len(path) + 1 /\ Len(path) \in Nat
      /\ Extends(path', path) /\ path'[Len(path) + 1] = d
  BY <1>1, PathGrows, Zenon
<1>3. log' \in Seq(Entries) /\ Len(log) \in Nat /\ Extends(log', log)
  BY LogSame, Zenon
<1>4. PICK u : u = [ip |-> Eip', pos |-> Len(log) + 1, stk |-> Stack]
  BY Zenon
<1>5. u.ip = Eip' /\ u.pos = Len(log) + 1 /\ u.stk = Stack
  BY <1>4, SMTT(30)
<1>6. ASSUME NEW t, Goes(t, Len(path)) PROVE Follows(prog, log', t, u, d)
  <2>1. t.ip = at.addr /\ t.pos = Len(log) + 1 /\ t.stk = Stack
    BY <1>6 DEF Goes, Eip
  <2> QED
    BY <1>5, <2>1, SMTT(30) DEF Follows, Freely, At
<1>7. ASSUME NEW t, Goes(t, Len(path)) PROVE Goes(u, Len(path))'
  <2>1. Stack' = Stack /\ InCalls'
    BY <1>7, Zenon DEF Goes, Stack, InCalls
  <2> QED
    BY <1>5, <2>1, Zenon DEF Goes
<1> HIDE DEF d
<1>8. HistTypes'
  BY <1>2, <1>3, Zenon DEF HistTypes
<1>9. TraceInv'
  <2>1. u.ip \in Nat /\ u.pos \in Nat
    BY <1>3, <1>5
  <2>2. \A t : Goes(t, Len(path)) =>
          Follows(prog, log', t, u, path'[Len(path) + 1]) /\ Goes(u, Len(path))'
    BY <1>2, <1>6, <1>7, Zenon
  <2>3. pc # "end"
    OBVIOUS
  <2> QED
    BY <1>2, <1>3, <2>1, <2>2, <2>3, Advances, Zenon
<1> QED
  BY <1>8, <1>9, Zenon

\* Instructions with one entry: LoggedExit and Rdtsc
LEMMA EntryStep ==
  ASSUME HistTypes, TraceInv, prog' = prog, frames' = frames,
         pc = "code", at.addr \in DOMAIN prog, at.addr \in Int,
         NEW v \in Int, NEW w \in Int, Does(Did("inst", at.addr, v)),
         pc' = "branch", Eip' \in Nat,
         \/ /\ prog[at.addr].op \in {"cond", "ind"} /\ v = 0 /\ w = Eip'
            /\ Logs(<<Entry("target", w)>>)
         \/ /\ prog[at.addr].op = "rdtsc" /\ w = v /\ Eip' \in prog[at.addr].to
            /\ Logs(<<Entry("rdtsc", w)>>)
  PROVE  HistTypes' /\ TraceInv'
<1>1. Did("inst", at.addr, v) \in Deeds
  BY Zenon DEF Did, Deeds
<1> DEFINE d == Did("inst", at.addr, v)
<1>2. /\ path' \in Seq(Deeds) /\ covered' \in 0 .. Len(path')
      /\ Len(path') = Len(path) + 1 /\ Len(path) \in Nat
      /\ Extends(path', path) /\ path'[Len(path) + 1] = d
  BY <1>1, PathGrows, Zenon
<1>3. PICK e \in Entries :
        /\ e.value = w /\ log' = log \o <<e>>
        /\ \/ /\ prog[at.addr].op \in {"cond", "ind"} /\ v = 0 /\ w = Eip' /\ e.mark = "target"
           \/ /\ prog[at.addr].op = "rdtsc" /\ w = v /\ Eip' \in prog[at.addr].to /\ e.mark = "rdtsc"
  <2>1. CASE Logs(<<Entry("target", w)>>) /\ prog[at.addr].op \in {"cond", "ind"} /\ v = 0 /\ w = Eip'
    <3> DEFINE e == Entry("target", w)
    <3>1. e \in Entries /\ e.value = w /\ e.mark = "target"
      BY SMTT(30) DEF Entry, Entries
    <3>2. log' = log \o <<e>>
      BY <2>1 DEF Logs
    <3> HIDE DEF e
    <3> QED
      BY <2>1, <3>1, <3>2, Zenon
  <2>2. CASE Logs(<<Entry("rdtsc", w)>>) /\ prog[at.addr].op = "rdtsc" /\ w = v /\ Eip' \in prog[at.addr].to
    <3> DEFINE e == Entry("rdtsc", w)
    <3>1. e \in Entries /\ e.value = w /\ e.mark = "rdtsc"
      BY SMTT(30) DEF Entry, Entries
    <3>2. log' = log \o <<e>>
      BY <2>2 DEF Logs
    <3> HIDE DEF e
    <3> QED
      BY <2>2, <3>1, <3>2, Zenon
  <2> QED
    BY <2>1, <2>2, Zenon
<1>4. /\ log' \in Seq(Entries) /\ Len(log') = Len(log) + 1 /\ Len(log) \in Nat
      /\ Extends(log', log) /\ log'[Len(log) + 1] = e
  BY <1>3, LogGrows, Zenon
<1>5. PICK u : u = [ip |-> Eip', pos |-> Len(log) + 2, stk |-> Stack]
  BY ZenonT(40)
<1>6. u.ip = Eip' /\ u.pos = Len(log) + 2 /\ u.stk = Stack
  BY <1>5
<1>7. ASSUME NEW t, Goes(t, Len(path)) PROVE Follows(prog, log', t, u, d)
  <2>1. t.ip = at.addr /\ t.pos = Len(log) + 1 /\ t.stk = Stack
    BY <1>7, ZenonT(40) DEF Goes, Eip
  <2>2. t.pos \in 1 .. Len(log') /\ log'[t.pos] = e /\ u.pos = t.pos + 1
    BY <2>1, <1>4, <1>6
  <2>3. CASE prog[at.addr].op = "rdtsc"
    BY <1>3, <1>6, <2>1, <2>2, <2>3, ZenonT(40) DEF Follows, ReadsTsc, At, Holds
  <2>4. CASE prog[at.addr].op \in {"cond", "ind"}
    BY <1>3, <1>6, <2>1, <2>2, <2>4, ZenonT(40) DEF Follows, Branches, At, Holds
  <2> QED
    BY <2>3, <2>4, Zenon
<1>8. ASSUME NEW t, Goes(t, Len(path)) PROVE Goes(u, Len(path))'
  <2>1. Stack' = Stack /\ InCalls'
    BY <1>8, Zenon DEF Goes, Stack, InCalls
  <2> QED
    BY <1>4, <1>6, <2>1 DEF Goes
<1> HIDE DEF d
<1>9. HistTypes'
  BY <1>2, <1>4, Zenon DEF HistTypes
<1>10. TraceInv'
  <2>1. u.ip \in Nat /\ u.pos \in Nat
    BY <1>4, <1>6
  <2>2. \A t : Goes(t, Len(path)) =>
          Follows(prog, log', t, u, path'[Len(path) + 1]) /\ Goes(u, Len(path))'
    BY <1>2, <1>7, <1>8, Zenon
  <2>3. pc # "end"
    OBVIOUS
  <2> QED
    BY <1>2, <1>4, <2>1, <2>2, <2>3, Advances, Zenon
<1> QED
  BY <1>9, <1>10, Zenon

\* pre_log_syscall: the entry of the call is ahead of its instruction.
LEMMA CallStarts ==
  ASSUME HistTypes, TraceInv, CacheInv, pre_log_syscall, at.addr \in Int
  PROVE  HistTypes' /\ TraceInv'
<1>1. /\ pc = "code" /\ nr' = at.addr /\ pc' \in {"int80", "post"} /\ at' = at /\ frames' = frames
      /\ log' = log \o <<Entry("syscall", nr')>> /\ path' = path /\ prog' = prog
      /\ covered' = Len(path)
  BY DEF pre_log_syscall, Exit, Logs, cacheVars
<1>2. PICK e \in Entries : e.mark = "syscall" /\ log' = log \o <<e>>
  <2> DEFINE e == Entry("syscall", nr')
  <2>1. e \in Entries /\ e.mark = "syscall" /\ log' = log \o <<e>>
    BY <1>1 DEF Entry, Entries
  <2> HIDE DEF e
  <2> QED
    BY <2>1, Zenon
<1>3. /\ log' \in Seq(Entries) /\ Len(log') = Len(log) + 1 /\ Len(log) \in Nat
      /\ Extends(log', log) /\ log'[Len(log) + 1] = e
  BY <1>2, LogGrows
<1>4. Extends(path', path) /\ Len(path) \in Nat
  BY <1>1 DEF HistTypes, Extends
<1>5. PICK T, h : Trace(prog, log, path, T, h) /\ Rest(T[h], h)
  BY DEF TraceInv
<1>6. Trace(prog', log', path', T, h)
  BY <1>1, <1>3, <1>4, <1>5, TraceStill, SMTT(30)
<1>7. CASE Goes(T[h], h)
  <2>1. T[h].pos = Len(log) + 1 /\ h = Len(path) /\ T[h].ip = at.addr /\ T[h].stk = Stack /\ InCalls
    BY <1>1, <1>7, Zenon DEF Goes, Eip
  <2>2. Stack' = Stack /\ InCalls'
    BY <1>1, <2>1, Zenon DEF Stack, InCalls
  <2>3. Holds(log', T[h].pos, "syscall") /\ T[h].pos = Len(log')
    BY <1>2, <1>3, <2>1 DEF Holds
  <2>4. Goes(T[h], h)'
    BY <1>1, <2>1, <2>2, <2>3, Zenon DEF Goes, Eip
  <2> QED
    BY <1>1, <1>3, <1>4, <1>6, <2>4 DEF TraceInv, Rest, HistTypes
<1>8. CASE Stumbles(T[h], h)
  BY <1>1, <1>3, <1>4, <1>6, <1>8, StumblesStill, SMTT(30) DEF TraceInv, Rest, HistTypes
<1>9. CASE Dies(T[h], h)
  BY <1>1, <1>9, Zenon DEF Dies
<1> QED
  BY <1>5, <1>7, <1>8, <1>9 DEF Rest

\* post_log_syscall
LEMMA CallEnds ==
  ASSUME HistTypes, TraceInv, CacheInv, NEW v \in Int, post_log_syscall(v), at.addr \in Int,
         target \in Nat
  PROVE  HistTypes' /\ TraceInv'
<1>1. /\ pc = "post" /\ pc' = "branch" /\ target' = target /\ frames' = frames /\ prog' = prog
      /\ log' = log \o <<Entry("nosignal", v)>> /\ Does(Did("inst", at.addr, v))
  BY Zenon DEF post_log_syscall, Logs, cacheVars
<1>2. Did("inst", at.addr, v) \in Deeds
  BY DEF Did, Deeds
<1> DEFINE d == Did("inst", at.addr, v)
<1>3. /\ path' \in Seq(Deeds) /\ covered' \in 0 .. Len(path')
      /\ Len(path') = Len(path) + 1 /\ Len(path) \in Nat
      /\ Extends(path', path) /\ path'[Len(path) + 1] = d
  BY <1>1, <1>2, PathGrows
<1>4. PICK e \in Entries : e.mark = "nosignal" /\ e.value = v /\ log' = log \o <<e>>
  <2> DEFINE e == Entry("nosignal", v)
  <2>1. e \in Entries /\ e.mark = "nosignal" /\ e.value = v /\ log' = log \o <<e>>
    BY <1>1 DEF Entry, Entries
  <2> HIDE DEF e
  <2> QED
    BY <2>1, Zenon
<1>5. /\ log' \in Seq(Entries) /\ Len(log') = Len(log) + 1 /\ Len(log) \in Nat
      /\ Extends(log', log) /\ log'[Len(log) + 1] = e
  BY <1>4, LogGrows, Zenon
<1>6. PICK u : u = [ip |-> target, pos |-> Len(log) + 2, stk |-> Stack]
  BY ZenonT(40)
<1>7. u.ip = target /\ u.pos = Len(log) + 2 /\ u.stk = Stack
  BY <1>6, SMTT(30)
<1>8. at.addr \in DOMAIN prog /\ prog[at.addr].op = "int80" /\ target \in prog[at.addr].to
  BY <1>1 DEF CacheInv, Control, PlaceOK, InBlock
<1>9. ASSUME NEW t, Goes(t, Len(path)) PROVE Follows(prog, log', t, u, d)
  <2>1. t.ip = at.addr /\ t.pos = Len(log) /\ t.stk = Stack /\ Holds(log, t.pos, "syscall")
    BY <1>1, <1>9, Zenon DEF Goes, Eip
  <2>2. Holds(log', t.pos, "syscall")
    BY <1>5, <2>1, HoldsStill, Zenon
  <2>3. t.pos + 1 = Len(log) + 1 /\ u.pos = t.pos + 2
    BY <1>5, <1>7, <2>1, ZenonT(40)
  <2>4. Holds(log', t.pos + 1, "nosignal") /\ log'[t.pos + 1].value = v
    BY <1>4, <1>5, <2>3, SMTT(30) DEF Holds
  <2> QED
    BY <1>7, <1>8, <2>1, <2>2, <2>3, <2>4, Zenon DEF Follows, Calls, At
<1>10. ASSUME NEW t, Goes(t, Len(path)) PROVE Goes(u, Len(path))'
  <2>1. Stack' = Stack /\ InCalls' /\ Eip' = target
    BY <1>1, <1>10, Zenon DEF Goes, Stack, InCalls, Eip
  <2> QED
    BY <1>1, <1>5, <1>7, <2>1 DEF Goes
<1> HIDE DEF d
<1>11. HistTypes'
  BY <1>3, <1>5, Zenon DEF HistTypes
<1>12. u.ip \in Nat /\ u.pos \in Nat /\ pc # "end" /\ prog' = prog
  BY <1>1, <1>5, <1>7
<1>13. TraceInv'
  BY <1>3, <1>5, <1>9, <1>10, <1>12, Advances, Zenon
<1> QED
  BY <1>11, <1>13, Zenon

\* The address in the mark of a signal is the one the program has reached.
LEMMA SignalAddress ==
  ASSUME CacheInv, Struck
  PROVE  /\ pc \in {"code", "int80"}
         /\ at.addr \in DOMAIN prog /\ at.addr \in Nat
         /\ get_ori_address(current) = at.addr
         /\ pc = "int80" => prog[at.addr].op = "int80"
<1>1. pc \in {"code", "int80"}
  BY Zenon DEF Struck
<1>2. /\ InBlock(at) /\ current = at.block /\ prog \in Programs
      /\ pc = "int80" => prog[at.addr].op = "int80"
  BY <1>1, Zenon DEF CacheInv, CacheTypes, Control, PlaceOK
<1>3. at.addr \in DOMAIN prog /\ at.addr \in Nat
  BY <1>2 DEF InBlock, CacheInv, CacheTypes
<1>4. pc = "int80" => scan_insts(prog, current) = at.addr
  BY <1>2, ExitHere
<1> QED
  BY <1>1, <1>2, <1>3, <1>4 DEF get_ori_address

\* A signal in a system call that runs a handler
LEMMA CallBreaks ==
  ASSUME HistTypes, TraceInv, CacheInv, signal_handler, pc = "int80"
  PROVE  HistTypes' /\ TraceInv'
<1> DEFINE a == at.addr
           f == [pc |-> pc, at |-> at, target |-> target, nr |-> nr, current |-> current]
<1>0. /\ a \in DOMAIN prog /\ a \in Nat /\ prog[a].op = "int80" /\ Handler \in Nat
      /\ get_ori_address(current) = a
  <2>1. Struck /\ prog \in Programs
    BY Zenon DEF signal_handler, CacheInv, CacheTypes
  <2> QED
    BY <2>1, SignalAddress, BlockNames, Zenon
<1>1. /\ pc' = "branch" /\ target' = Handler /\ prog' = prog /\ frames' = Append(frames, f)
      /\ log' = log \o <<Entry("signal", a), Entry("signal2", a)>>
      /\ Does(Did("signal", a, 0))
  BY <1>0, Zenon DEF signal_handler, Logs, cacheVars
<1>2. Did("signal", a, 0) \in Deeds
  BY <1>0 DEF Did, Deeds
<1> DEFINE d == Did("signal", a, 0)
<1>3. /\ path' \in Seq(Deeds) /\ covered' \in 0 .. Len(path')
      /\ Len(path') = Len(path) + 1 /\ Len(path) \in Nat
      /\ Extends(path', path) /\ path'[Len(path) + 1] = d
  BY <1>1, <1>2, PathGrows, Zenon
<1>4. PICK e \in Entries, g \in Entries :
        /\ e.mark = "signal" /\ e.value = a /\ g.mark = "signal2" /\ g.value = a
        /\ log' = log \o <<e, g>>
  <2> DEFINE e == Entry("signal", a)
             g == Entry("signal2", a)
  <2>1. /\ e \in Entries /\ e.mark = "signal" /\ e.value = a
        /\ g \in Entries /\ g.mark = "signal2" /\ g.value = a
    BY <1>0 DEF Entry, Entries
  <2>2. log' = log \o <<e, g>>
    BY <1>1
  <2> HIDE DEF e, g
  <2> QED
    BY <2>1, <2>2, Zenon
<1>5. /\ log' \in Seq(Entries) /\ Len(log') = Len(log) + 2 /\ Len(log) \in Nat
      /\ Extends(log', log) /\ log'[Len(log) + 1] = e /\ log'[Len(log) + 2] = g
  BY <1>4, LogGrowsTwice, Zenon
<1>6. /\ frames \in Seq(Frames) /\ f \in Frames /\ f.at.addr = a /\ f.pc = "int80" /\ f.nr = nr
  <2>1. at \in [block : Nat, addr : Nat] /\ current \in Nat
    BY BlockNames DEF CacheInv, Control, PlaceOK, InBlock, CacheTypes
  <2> QED
    BY <2>1, SMTT(30) DEF CacheInv, CacheTypes, FramesOK, Frames
<1> HIDE DEF f
<1>7. /\ frames' \in Seq(Frames) /\ Len(frames') = Len(frames) + 1 /\ Len(frames) \in Nat
      /\ \A i \in 1 .. Len(frames) : frames'[i] = frames[i]
      /\ frames'[Len(frames) + 1] = f
  BY <1>1, <1>6
<1>8. Stack' = Append(Stack, a)
  BY <1>1, <1>6, ReturnsPushed DEF Stack
<1>9. PICK u : u = [ip |-> Handler, pos |-> Len(log) + 3, stk |-> Stack']
  BY Zenon
<1>10. u.ip = Handler /\ u.pos = Len(log) + 3 /\ u.stk = Stack'
  BY <1>9
<1>11. ASSUME NEW t, Goes(t, Len(path)) PROVE Follows(prog, log', t, u, d)
  <2>1. t.ip = a /\ t.pos = Len(log) /\ t.stk = Stack /\ Holds(log, t.pos, "syscall")
    BY <1>11 DEF Goes, Eip
  <2>2. Holds(log', t.pos, "syscall")
    BY <1>5, <2>1, HoldsStill, Zenon
  <2>3. /\ t.pos + 1 = Len(log) + 1 /\ t.pos + 2 = Len(log) + 2 /\ u.pos = t.pos + 3
        /\ t.pos + 1 \in 1 .. Len(log') /\ t.pos + 2 \in 1 .. Len(log')
    BY <1>5, <1>10, <2>1
  <2>4. Holds(log', t.pos + 1, "signal") /\ log'[t.pos + 1].value = a
    BY <1>4, <1>5, <2>3, Zenon DEF Holds
  <2>5. Holds(log', t.pos + 2, "signal2") /\ log'[t.pos + 2].value = a
    BY <1>4, <1>5, <2>3, Zenon DEF Holds
  <2>6. u.stk = Append(t.stk, a) /\ u.pos = t.pos + 3
    BY <1>8, <1>10, <2>1, <2>3, Zenon
  <2> HIDE DEF a
  <2>7. Breaks(prog, log', t, u, d)
    BY <1>0, <1>10, <2>1, <2>2, <2>4, <2>5, <2>6, Zenon DEF Breaks, At
  <2> QED
    BY <2>7 DEF Follows
<1>12. ASSUME NEW t, Goes(t, Len(path)) PROVE Goes(u, Len(path))'
  <2>0. nr = a
    BY <1>12, Zenon DEF Goes
  <2>1. InCalls'
    <3> SUFFICES ASSUME NEW i \in 1 .. Len(frames')
                 PROVE  frames'[i].pc = "int80" /\ frames'[i].nr = frames'[i].at.addr
      BY Zenon DEF InCalls
    <3>1. i \in 1 .. Len(frames) \/ i = Len(frames) + 1
      BY <1>7
    <3>2. CASE i \in 1 .. Len(frames)
      BY <1>7, <1>12, <3>2, Zenon DEF Goes, InCalls
    <3>3. CASE i = Len(frames) + 1
      BY <1>6, <1>7, <2>0, <3>3, Zenon
    <3> QED
      BY <3>1, <3>2, <3>3, Zenon
  <2>2. Eip' = Handler /\ u.pos = Len(log') + 1
    BY <1>1, <1>5, <1>10 DEF Eip
  <2> QED
    BY <1>1, <1>10, <2>1, <2>2, Zenon DEF Goes
<1> HIDE DEF d, a
<1>13. HistTypes'
  BY <1>3, <1>5, Zenon DEF HistTypes
<1>14. u.ip \in Nat /\ u.pos \in Nat /\ pc # "end" /\ prog' = prog
  BY <1>0, <1>1, <1>5, <1>10
<1>15. TraceInv'
  BY <1>3, <1>5, <1>11, <1>12, <1>14, Advances, Zenon
<1> QED
  BY <1>13, <1>15, Zenon

\* What a signal appends: its mark, and the handler's frame if there is one
LEMMA SignalMarks ==
  ASSUME HistTypes, CacheInv, signal_handler \/ signal_terminate
  PROVE  /\ Struck /\ prog' = prog /\ Does(Did("signal", at.addr, 0))
         /\ log' \in Seq(Entries) /\ Extends(log', log) /\ Len(log) \in Nat
         /\ Holds(log', Len(log) + 1, "signal") /\ log'[Len(log) + 1].value = at.addr
         /\ signal_terminate => pc' = "end" /\ Len(log') = Len(log) + 1
<1>0. Struck /\ prog' = prog /\ Does(Did("signal", at.addr, 0))
  BY Zenon DEF signal_handler, signal_terminate, cacheVars
<1> DEFINE a == at.addr
           e == Entry("signal", a)
           g == Entry("signal2", a)
<1>1. a \in Nat /\ get_ori_address(current) = a
  BY <1>0, SignalAddress, Zenon
<1>2. e \in Entries /\ e.mark = "signal" /\ e.value = a /\ g \in Entries
  BY <1>1 DEF Entry, Entries
<1>3. signal_handler => log' = log \o <<e, g>>
  BY <1>1, Zenon DEF signal_handler, Logs
<1>4. signal_terminate => log' = log \o <<e>> /\ pc' = "end"
  BY <1>1, Zenon DEF signal_terminate, Logs
<1> HIDE DEF e, g, a
<1>5. CASE signal_terminate
  <2>1. /\ log' \in Seq(Entries) /\ Len(log') = Len(log) + 1 /\ Len(log) \in Nat
        /\ Extends(log', log) /\ log'[Len(log) + 1] = e
    BY <1>2, <1>4, <1>5, LogGrows
  <2>2. Len(log) + 1 \in 1 .. Len(log')
    BY <2>1, SMTT(30)
  <2> QED
    BY <1>0, <1>2, <1>4, <1>5, <2>1, <2>2, SMTT(30) DEF Holds, a
<1>6. CASE signal_handler /\ ~signal_terminate
  <2>1. /\ log' \in Seq(Entries) /\ Len(log') = Len(log) + 2 /\ Len(log) \in Nat
        /\ Extends(log', log) /\ log'[Len(log) + 1] = e
    BY <1>2, <1>3, <1>6, LogGrowsTwice
  <2>2. Len(log) + 1 \in 1 .. Len(log')
    BY <2>1
  <2> QED
    BY <1>0, <1>2, <1>6, <2>1, <2>2, SMTT(30) DEF Holds, a
<1> QED
  BY <1>5, <1>6, Zenon

\* A signal outside system calls is where the replay will stop; one that ends
\* the program in a system call is the last entry.
LEMMA SignalStep ==
  ASSUME HistTypes, TraceInv, CacheInv, signal_handler \/ signal_terminate,
         pc = "code" \/ signal_terminate
  PROVE  HistTypes' /\ TraceInv'
<1> DEFINE a == at.addr
           d == Did("signal", a, 0)
<1>1. /\ Struck /\ prog' = prog /\ Does(d)
      /\ log' \in Seq(Entries) /\ Extends(log', log) /\ Len(log) \in Nat
      /\ Holds(log', Len(log) + 1, "signal") /\ log'[Len(log) + 1].value = a
      /\ signal_terminate => pc' = "end" /\ Len(log') = Len(log) + 1
  BY SignalMarks, Zenon
<1>2. /\ pc \in {"code", "int80"} /\ a \in DOMAIN prog /\ a \in Nat
      /\ pc = "int80" => prog[a].op = "int80"
  BY <1>1, SignalAddress, Zenon
<1>3. d \in Deeds /\ d.kind = "signal"
  BY <1>2 DEF Did, Deeds
<1> HIDE DEF a
<1>4. /\ path' \in Seq(Deeds) /\ covered' \in 0 .. Len(path')
      /\ Len(path') = Len(path) + 1 /\ Len(path) \in Nat
      /\ Extends(path', path) /\ path'[Len(path) + 1] = d
  BY <1>1, <1>3, PathGrows, Zenon
<1>5. HistTypes'
  BY <1>1, <1>4, Zenon DEF HistTypes
<1>6. PICK T, h : Trace(prog, log, path, T, h) /\ Rest(T[h], h)
  BY Zenon DEF TraceInv
<1>7. Trace(prog', log', path', T, h)
  BY <1>1, <1>4, <1>6, TraceStill, Zenon
<1>8. CASE Goes(T[h], h)
  <2>1. h = Len(path) /\ T[h].ip = a
    BY <1>2, <1>8, Zenon DEF Goes, Eip, a
  <2>2. CASE pc = "code"
    <3>1. T[h].pos = Len(log) + 1
      BY <1>8, <2>2, Zenon DEF Goes
    <3>2. h + 1 \in 1 .. Len(path') /\ path'[h + 1].kind = "signal"
      BY <1>3, <1>4, <2>1
    <3>3. Stumbles(T[h], h)'
      BY <1>1, <1>2, <2>1, <3>1, <3>2, Zenon DEF Stumbles
    <3> QED
      BY <1>5, <1>7, <3>3, Zenon DEF TraceInv, Rest
  <2>3. CASE pc = "int80"
    <3>1. T[h].pos = Len(log) /\ Holds(log, T[h].pos, "syscall")
      BY <1>8, <2>3, Zenon DEF Goes
    <3>2. Holds(log', T[h].pos, "syscall")
      BY <1>1, <3>1, HoldsStill, Zenon
    <3>3. pc' = "end" /\ Len(log') = T[h].pos + 1
      BY <1>1, <2>3, <3>1, Zenon
    <3>4. h + 1 = Len(path') /\ path'[h + 1] = Did("signal", T[h].ip, 0)
      BY <1>4, <2>1, Zenon
    <3>5. At(T[h], prog', {"int80"})
      BY <1>1, <1>2, <2>1, <2>3, Zenon DEF At
    <3>6. Holds(log', T[h].pos + 1, "signal") /\ log'[T[h].pos + 1].value = T[h].ip
      BY <1>1, <2>1, <3>1, Zenon
    <3>7. Dies(T[h], h)'
      BY <3>2, <3>3, <3>4, <3>5, <3>6, Zenon DEF Dies
    <3> QED
      BY <1>5, <1>7, <3>7, Zenon DEF TraceInv, Rest
  <2> QED
    BY <1>2, <2>2, <2>3, Zenon
<1>9. CASE Stumbles(T[h], h)
  BY <1>1, <1>4, <1>5, <1>7, <1>9, StumblesStill, Zenon DEF TraceInv, Rest
<1>10. CASE Dies(T[h], h)
  BY <1>2, <1>10, Zenon DEF Dies
<1> QED
  BY <1>6, <1>8, <1>9, <1>10, Zenon DEF Rest

\* Two entries written one by one are the pair.
LEMMA PairOfEntries ==
  ASSUME NEW e \in Entries, NEW g \in Entries
  PROVE  <<e>> \o <<g>> = <<e, g>>
<1> DEFINE s == <<e>> \o <<g>>
           t == <<e, g>>
<1>1. s \in Seq(Entries) /\ Len(s) = 2 /\ s[1] = e /\ s[2] = g
  OBVIOUS
<1>2. t \in Seq(Entries) /\ Len(t) = 2 /\ t[1] = e /\ t[2] = g
  OBVIOUS
<1> HIDE DEF s, t
<1>3. \A i \in 1 .. Len(s) : s[i] = t[i]
  BY <1>1, <1>2
<1> QED
  BY <1>1, <1>2, <1>3, SeqEqual, Zenon DEF s, t

\* The return of a handler: the interrupted call is announced again.
LEMMA HandlerReturns ==
  ASSUME HistTypes, TraceInv, CacheInv, common_wrapper_sigreturn
  PROVE  HistTypes' /\ TraceInv'
<1> DEFINE f == frames[Len(frames)]
           d == Did("sigreturn", Sigreturn, 0)
           e == Entry("sigreturn", 0)
           g == Entry("syscall", f.nr)
<1>1. frames # <<>> /\ frames \in Seq(Frames) /\ pc = "sigreturn" /\ target = Sigreturn
  BY DEF common_wrapper_sigreturn, CacheInv, Control, FramesOK
<1>2. Len(frames) \in 1 .. Len(frames) /\ f \in Frames /\ Len(frames) \in Nat
  BY <1>1
<1>3. /\ pc' = f.pc /\ at' = f.at /\ nr' = f.nr /\ prog' = prog /\ frames' = Front(frames)
      /\ Does(d) /\ log' = log \o (<<e>> \o ResumeMark(f))
  BY Zenon DEF common_wrapper_sigreturn, Front, Logs, cacheVars
<1>4. /\ f.pc \in {"code", "int80"} /\ f.nr \in Int /\ f.at.addr \in Nat /\ Sigreturn \in Int
      /\ f.at.addr # None
  <2>1. Sigreturn \in Nat
    BY BlockNames, Zenon DEF CacheInv, CacheTypes
  <2> QED
    BY <1>2, <2>1 DEF Frames, None
<1>5. d \in Deeds /\ e \in Entries /\ g \in Entries /\ e.mark = "sigreturn" /\ g.mark = "syscall"
  BY <1>4 DEF Did, Deeds, Entry, Entries
<1>6. ResumeMark(f) = (IF f.nr = None THEN <<>> ELSE <<g>>)
  BY DEF ResumeMark
<1> HIDE DEF f, d, e, g
<1>7. /\ log' = log \o <<e>> \/ log' = log \o <<e, g>>
      /\ f.nr # None => log' = log \o <<e, g>>
  <2>1. <<e>> \o <<>> = <<e>> /\ <<e>> \o <<g>> = <<e, g>>
    <3>1. <<e>> \o <<>> = <<e>>
      BY <1>5
    <3> QED
      BY <1>5, <3>1, PairOfEntries
  <2>2. CASE f.nr = None
    BY <1>3, <1>6, <2>1, <2>2
  <2>3. CASE f.nr # None
    BY <1>3, <1>6, <2>1, <2>3, Zenon
  <2> QED
    BY <2>2, <2>3, Zenon
<1>8. log' \in Seq(Entries) /\ Extends(log', log) /\ Len(log) \in Nat
  <2>1. CASE log' = log \o <<e>>
    BY <1>5, <2>1, LogGrows
  <2>2. CASE log' = log \o <<e, g>>
    BY <1>5, <2>2, LogGrowsTwice, Zenon
  <2> QED
    BY <1>7, <2>1, <2>2
<1>9. /\ path' \in Seq(Deeds) /\ covered' \in 0 .. Len(path')
      /\ Len(path') = Len(path) + 1 /\ Len(path) \in Nat
      /\ Extends(path', path) /\ path'[Len(path) + 1] = d
  BY <1>3, <1>5, PathGrows
<1>10. Stack # <<>> /\ Last(Stack) = f.at.addr /\ Stack' = Front(Stack)
  BY <1>1, <1>3, ReturnsPopped DEF Stack, Last, f
<1>11. PICK u : u = [ip |-> f.at.addr, pos |-> Len(log) + 2, stk |-> Stack']
  BY Zenon
<1>12. u.ip = f.at.addr /\ u.pos = Len(log) + 2 /\ u.stk = Stack'
  BY <1>11
<1>13. ASSUME NEW t, Goes(t, Len(path))
       PROVE  Follows(prog, log', t, u, d) /\ Goes(u, Len(path))'
  <2>1. t.ip = Sigreturn /\ t.pos = Len(log) + 1 /\ t.stk = Stack /\ InCalls
    BY <1>1, <1>13 DEF Goes, Eip
  <2>2. f.pc = "int80" /\ f.nr = f.at.addr
    BY <1>2, <2>1 DEF InCalls, f
  <2>3. /\ Len(log') = Len(log) + 2 /\ log'[Len(log) + 1] = e /\ log'[Len(log) + 2] = g
    BY <1>4, <1>5, <1>7, <2>2, LogGrowsTwice, Zenon
  <2>4. Holds(log', t.pos, "sigreturn") /\ u.pos = t.pos + 1
    BY <1>5, <1>8, <1>12, <2>1, <2>3, SMTT(30) DEF Holds
  <2>5. Holds(log', u.pos, "syscall") /\ u.pos = Len(log')
    BY <1>5, <1>8, <1>12, <2>3 DEF Holds
  <2>6. ComesBack(log', t, u, d)
    BY <1>10, <1>12, <2>1, <2>4, Zenon DEF ComesBack, d
  <2>7. InCalls'
    <3>1. Len(frames') = Len(frames) - 1 /\ \A i \in 1 .. Len(frames') : frames'[i] = frames[i]
      BY <1>1, <1>3, FrontFacts, Zenon
    <3>2. \A i \in 1 .. Len(frames') : i \in 1 .. Len(frames)
      BY <1>2, <3>1
    <3> QED
      BY <2>1, <3>1, <3>2, Zenon DEF InCalls
  <2>8. pc' = "int80" /\ Eip' = f.at.addr /\ nr' = at'.addr
    BY <1>3, <2>2, Zenon DEF Eip
  <2>9. Goes(u, Len(path))'
    BY <1>12, <2>5, <2>7, <2>8, Zenon DEF Goes
  <2> QED
    BY <2>6, <2>9 DEF Follows
<1>14. HistTypes'
  BY <1>8, <1>9, Zenon DEF HistTypes
<1>15. u.ip \in Nat /\ u.pos \in Nat /\ pc # "end" /\ prog' = prog
  BY <1>1, <1>3, <1>4, <1>8, <1>12
<1>16. TraceInv'
  BY <1>8, <1>9, <1>13, <1>15, Advances, Zenon
<1> QED
  BY <1>14, <1>16, SMTT(30)

\* The empty trace is that of a program that has done nothing yet.
LEMMA RecInit == Init => RecInv
<1> SUFFICES ASSUME Init PROVE RecInv
  OBVIOUS
<1>1. CacheInv
  BY CacheInit, Zenon
<1>2. log = <<>> /\ path = <<>> /\ covered = 0 /\ frames = <<>> /\ pc = "branch" /\ target = Start
  BY DEF Init
<1>3. HistTypes
  BY <1>2 DEF HistTypes
<1> DEFINE t == [ip |-> Start, pos |-> 1, stk |-> <<>>]
           T == [k \in {0} |-> t]
<1>4. Start \in Nat
  BY BlockNames, Zenon DEF Init
<1>5. T[0] = t /\ t.ip = Start /\ t.pos = 1 /\ t.stk = <<>>
  OBVIOUS
<1> HIDE DEF T, t
<1>6. Len(path) = 0 /\ Len(log) = 0 /\ Len(frames) = 0 /\ DOMAIN frames = {}
  BY <1>2, SMTT(30)
<1>7. Trace(prog, log, path, T, 0)
  BY <1>4, <1>5, <1>6 DEF Trace
<1>8. Stack = <<>>
  BY <1>2 DEF Stack, Returns
<1>9. Goes(t, 0)
  BY <1>2, <1>5, <1>6, <1>8, SMTT(30) DEF Goes, InCalls, Eip
<1> QED
  BY <1>1, <1>3, <1>5, <1>7, <1>9 DEF RecInv, TraceInv, Rest

\* Every step of the recorder is recorded in the trace.
LEMMA RecStep ==
  ASSUME ~UdFaults, RecInv, Next
  PROVE  RecInv'
<1> USE DEF cacheVars
<1>0. CacheInv /\ HistTypes /\ TraceInv /\ CacheInv'
  BY CacheStep, SMTT(30) DEF RecInv
<1>a. /\ prog \in Programs /\ at.addr \in Nat /\ at.addr \in Int /\ target \in Nat /\ target' \in Nat
      /\ Values \subseteq Int
  BY <1>0, ProgramAssumption DEF CacheInv, CacheTypes
<1> SUFFICES HistTypes' /\ TraceInv'
  BY <1>0, SMTT(30) DEF RecInv
<1>b. pc \in {"code", "int80", "post"} => at.addr \in DOMAIN prog
  BY <1>0 DEF CacheInv, Control, PlaceOK, InBlock
<1>1. ASSUME log' = log, path' = path, covered' = covered PROVE HistTypes'
  BY <1>0, <1>1, Zenon DEF HistTypes
<1>2. CASE SetCurrentBlock
  BY <1>0, <1>1, <1>2, StaysPut DEF SetCurrentBlock, Eip
<1>3. CASE Plain
  <2>1. /\ pc = "code" /\ prog[at.addr].op = "plain" /\ at' = [at EXCEPT !.addr = at.addr + 1]
        /\ pc' = "code" /\ prog' = prog /\ log' = log /\ frames' = frames
        /\ Does(Did("inst", at.addr, 0))
    BY <1>3 DEF Plain, Inst
  <2>2. at \in [block : Int, addr : Nat]
    BY <1>0 DEF CacheInv, CacheTypes
  <2>3. Eip' = at.addr + 1 /\ Eip' \in Nat
    BY <1>a, <2>1, <2>2 DEF Eip
  <2>4. prog[at.addr].to = {at.addr + 1}
    BY <1>a, <1>b, <2>1, Instructions
  <2>5. pc' \in {"code", "branch", "head"} /\ prog[at.addr].op \in {"plain", "ud"}
    BY <2>1, Zenon
  <2> QED
    BY <1>0, <1>a, <1>b, <2>1, <2>3, <2>4, <2>5, FreeStep
<1>4. CASE DirectExit
  <2>1. /\ pc = "code" /\ prog[at.addr].op = "ud" /\ target' \in prog[at.addr].to
        /\ pc' = "branch" /\ prog' = prog /\ log' = log /\ frames' = frames
        /\ Does(Did("inst", at.addr, 0))
    BY <1>4, Zenon DEF DirectExit, Exit, Inst, Targets
  <2>2. Eip' = target'
    BY <2>1, Zenon DEF Eip
  <2>3. pc' \in {"code", "branch", "head"} /\ prog[at.addr].op \in {"plain", "ud"}
    BY <2>1, Zenon
  <2> QED
    BY <1>0, <1>a, <1>b, <2>1, <2>2, <2>3, FreeStep, Zenon
<1>5. CASE LinkedExit
  <2>1. /\ pc = "code" /\ prog[at.addr].op # "plain" /\ link[at.block] # None
        /\ at' = [block |-> link[at.block], addr |-> link[at.block]]
        /\ pc' = "head" /\ prog' = prog /\ log' = log /\ frames' = frames
        /\ Does(Did("inst", at.addr, 0))
    BY <1>5, Zenon DEF LinkedExit, Inst
  <2>2. InBlock(at) /\ at.block \in Blocks
    BY <1>0, <1>a, <2>1, BlockNames, ZenonT(40) DEF CacheInv, Control, PlaceOK, InBlock
  <2>3. scan_insts(prog, at.block) = at.addr
    BY <1>a, <2>1, <2>2, ExitHere, ZenonT(40)
  <2>4. prog[at.addr].op = "ud" /\ link[at.block] \in prog[at.addr].to
    BY <1>0, <2>1, <2>2, <2>3, ZenonT(40) DEF CacheInv, LinksOK
  <2>5. Eip' = link[at.block]
    BY <2>1, ZenonT(40) DEF Eip
  <2>6. Eip' \in Nat
    BY <1>0, <2>1, Zenon DEF Eip, CacheInv, CacheTypes
  <2>7. pc' \in {"code", "branch", "head"} /\ prog[at.addr].op \in {"plain", "ud"}
    BY <2>1, <2>4, Zenon
  <2> QED
    BY <1>0, <1>a, <1>b, <2>1, <2>4, <2>5, <2>6, <2>7, FreeStep, Zenon
<1>6. CASE LoggedExit
  <2>1. /\ pc = "code" /\ prog[at.addr].op \in {"cond", "ind"}
        /\ pc' = "branch" /\ prog' = prog /\ frames' = frames
        /\ Logs(<<Entry("target", target')>>) /\ Does(Did("inst", at.addr, 0))
    BY <1>6, SMTT(30) DEF LoggedExit, Exit, Inst
  <2>2. Eip' = target' /\ 0 \in Int /\ target' \in Int
    BY <1>a, <2>1 DEF Eip
  <2> QED
    BY <1>0, <1>a, <1>b, <2>1, <2>2, EntryStep, ZenonT(40)
<1>7. ASSUME NEW v \in Values, Rdtsc(v) PROVE HistTypes' /\ TraceInv'
  <2>1. /\ pc = "code" /\ prog[at.addr].op = "rdtsc" /\ target' \in prog[at.addr].to
        /\ pc' = "branch" /\ prog' = prog /\ frames' = frames
        /\ Logs(<<Entry("rdtsc", v)>>) /\ Does(Did("inst", at.addr, v))
    BY <1>7, Zenon DEF Rdtsc, Exit, Inst, Targets
  <2>2. Eip' = target' /\ v \in Int
    BY <1>a, <2>1, Zenon DEF Eip
  <2> QED
    BY <1>0, <1>a, <1>b, <2>1, <2>2, EntryStep, ZenonT(40)
<1>8. ASSUME NEW v \in Values, post_log_syscall(v) PROVE HistTypes' /\ TraceInv'
  BY <1>0, <1>a, <1>8, CallEnds, Zenon
<1>9. CASE pre_log_syscall
  BY <1>0, <1>a, <1>9, CallStarts, Zenon
<1>10. CASE SyscallReturns
  BY <1>0, <1>1, <1>10, StaysPut, Zenon DEF SyscallReturns, Eip
<1>11. CASE do_real_branch
  BY <1>0, <1>1, <1>11, StaysPut, Zenon DEF do_real_branch, Eip
<1>12. CASE BranchToSigreturn
  <2>1. pc' = "sigreturn"
    BY <1>0, <1>12, Zenon DEF BranchToSigreturn, CacheInv, Control, BranchOK
  <2> QED
    BY <1>0, <1>1, <1>12, <2>1, StaysPut, Zenon DEF BranchToSigreturn, Eip
<1>13. CASE signal_handler
  <2>1. pc \in {"code", "int80"}
    BY <1>13 DEF signal_handler, Struck
  <2> QED
    BY <1>0, <1>13, <2>1, CallBreaks, SignalStep, SMTT(30)
<1>14. CASE signal_terminate
  BY <1>0, <1>14, SignalStep
<1>15. CASE common_wrapper_sigreturn
  BY <1>0, <1>15, HandlerReturns, Zenon
<1> QED
  BY <1>2, <1>3, <1>4, <1>5, <1>6, <1>7, <1>8, <1>9, <1>10, <1>11, <1>12, <1>13, <1>14, <1>15, SMTT(30)
     DEF Next

\* The recorded run does not change while nothing is recorded.
LEMMA RunStill ==
  ASSUME UNCHANGED vars, NEW T, NEW h, OnTrace(T, h)
  PROVE  OnTrace(T, h)'
<1>1. /\ prog' = prog /\ log' = log /\ path' = path /\ pc' = pc /\ at' = at /\ nr' = nr
      /\ frames' = frames /\ target' = target
  BY DEF vars
<1>2. Trace(prog, log, path, T, h)'
  BY <1>1, Zenon DEF OnTrace
<1>3. CASE Goes(T[h], h)
  BY <1>1, <1>2, <1>3, ZenonT(40) DEF OnTrace, Rest, Goes, InCalls, Stack, Eip
<1>4. CASE Stumbles(T[h], h)
  BY <1>1, <1>2, <1>4, ZenonT(40) DEF OnTrace, Rest, Stumbles
<1>5. CASE Dies(T[h], h)
  BY <1>1, <1>2, <1>5, Zenon DEF OnTrace, Rest, Dies
<1> QED
  BY <1>3, <1>4, <1>5, Zenon DEF OnTrace, Rest

\* Nor does anything else the invariant speaks of.
LEMMA RecStill ==
  ASSUME RecInv, UNCHANGED vars
  PROVE  RecInv'
<1>1. CacheInv'
  BY ZenonT(40) DEF RecInv, vars, CacheInv, CacheTypes, Control, FramesOK, LinksOK, PlaceOK, InBlock,
         BranchOK, exit_type
<1>2. HistTypes'
  BY DEF RecInv, vars, HistTypes
<1>3. PICK T, h : OnTrace(T, h)
  BY DEF RecInv, TraceInv, OnTrace
<1>4. OnTrace(T, h)'
  BY <1>3, RunStill
<1> QED
  BY <1>1, <1>2, <1>4, Zenon DEF RecInv, TraceInv, OnTrace

\* The log tells the recorded run: from the start of the program, every step of its
\* history takes its entries from the log in turn, up to the place the program is
\* at or to a signal outside system calls (RunsAsNative says that the history is the
\* program's own; CodeCache is what writes both).
THEOREM LogTellsRun ==
  ASSUME ~UdFaults
  PROVE  Spec => []RecInv
<1>1. RecInv /\ [Next]_vars => RecInv'
  <2>1. ASSUME RecInv, Next PROVE RecInv'
    BY <2>1, RecStep
  <2>2. ASSUME RecInv, UNCHANGED vars PROVE RecInv'
    BY <2>2, RecStill
  <2> QED
    BY <2>1, <2>2
<1> QED
  BY <1>1, RecInit, PTL DEF Spec
=============================================================================
