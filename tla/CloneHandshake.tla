--------------------------- MODULE CloneHandshake ---------------------------
(***************************************************************************)
(* Thread creation under the recorder (arch/x86/interp/logger.S,           *)
(* syscalls/clone.c).  A new thread starts with its creator's %fs and so   *)
(* with its creator's thread_private_data, old_tpd.  The creator waits on  *)
(* old_tpd->futex_data until the child has taken what it needs.            *)
(*                                                                         *)
(* incl and decl on futex_data carry no lock prefix: each is a read and a  *)
(* write.  Clones are numbered; the number of a clone also stands for the  *)
(* target address and the stack pointer its child has to start with.  The  *)
(* statements run in the order of the source: the asm statements name no   *)
(* output, so a compiler could also move the loads behind them.            *)
(***************************************************************************)
EXTENDS Integers

CONSTANT MaxClones  \* bound: clones the creator issues

ASSUME CloneAssumption == MaxClones \in Nat

Clones == 1 .. MaxClones

\* A value of target or reg_saver1 that belongs to no clone
Other == 0

VARIABLES
  futex,   \* futex_data of the creator
  target,  \* target of the creator
  saver,   \* reg_saver1 of the creator
  clone,   \* number of the latest clone
  ppc,     \* control of the creator
  preg,    \* operand of its decl
  cpc,     \* control of each child
  creg,    \* operand of its incl
  start,   \* old_stack_top and target of each child
  signals, \* whether signals 32, 33 and 62, which stay unblocked, arrive
  late     \* history: clones issued before an earlier child was done

cloneVars == <<futex, target, saver, clone, ppc, preg, cpc, creg, start, signals, late>>
parentVars == <<ppc, preg, clone, signals, late>>
childVars == <<cpc, creg, start, signals>>

CloneInit ==
  /\ futex = 0
  /\ target = Other
  /\ saver = Other
  /\ clone = 0
  /\ ppc = "run"
  /\ preg = 0
  /\ cpc = [k \in Clones |-> "none"]
  /\ creg = [k \in Clones |-> 0]
  /\ start = [k \in Clones |-> [esp |-> Other, target |-> Other]]
  /\ signals \in BOOLEAN
  /\ late = {}

-----------------------------------------------------------------------------
(* The creator                                                             *)

\* Compiled code branches: the templates use target and reg_saver1.
Branch ==
  /\ ppc = "run"
  /\ target' = Other
  /\ saver' = Other
  /\ UNCHANGED <<futex, parentVars, cpc, creg, start>>

\* The syscall template sets target; pre_clone resets futex_data.
pre_clone ==
  /\ ppc = "run"
  /\ clone < MaxClones
  /\ clone' = clone + 1
  /\ target' = clone + 1
  /\ futex' = 0
  /\ late' = IF \E k \in Clones : cpc[k] \notin {"none", "run"}
             THEN late \cup {clone + 1} ELSE late
  /\ ppc' = "int80"
  /\ UNCHANGED <<saver, preg, childVars>>

CloneSucceeds ==
  /\ ppc = "int80"
  /\ cpc' = [cpc EXCEPT ![clone] = "born"]
  /\ ppc' = "decl"
  /\ UNCHANGED <<futex, target, saver, clone, preg, creg, start, signals, late>>

CloneFails ==
  /\ ppc = "int80"
  /\ ppc' = "run"
  /\ UNCHANGED <<futex, target, saver, clone, preg, late, childVars>>

\* decl futex_data
DeclRead ==
  /\ ppc = "decl"
  /\ preg' = futex
  /\ ppc' = "decl2"
  /\ UNCHANGED <<futex, target, saver, clone, late, childVars>>

DeclWrite ==
  /\ ppc = "decl2"
  /\ futex' = preg - 1
  /\ ppc' = "test"
  /\ UNCHANGED <<target, saver, clone, preg, late, childVars>>

\* Mutated form of ParentTest: if (v <= 0) break
ParentTestSign ==
  /\ ppc = "test"
  /\ ppc' = IF futex <= 0 THEN "run" ELSE "store"
  /\ UNCHANGED <<futex, target, saver, clone, preg, late, childVars>>

\* v = futex_data; if (v == 0) break
ParentTest ==
  /\ ppc = "test"
  /\ ppc' = IF futex = 0 THEN "run" ELSE "store"
  /\ UNCHANGED <<futex, target, saver, clone, preg, late, childVars>>

ParentStore ==
  /\ ppc = "store"
  /\ futex' = -1
  /\ ppc' = "wait"
  /\ UNCHANGED <<target, saver, clone, preg, late, childVars>>

\* FUTEX_WAIT with the expected value -1
FutexWait ==
  /\ ppc = "wait"
  /\ ppc' = IF futex = -1 THEN "asleep" ELSE "decl"
  /\ UNCHANGED <<futex, target, saver, clone, preg, late, childVars>>

\* A signal ends FUTEX_WAIT.
FutexInterrupted ==
  /\ signals
  /\ ppc = "asleep"
  /\ ppc' = "decl"
  /\ UNCHANGED <<futex, target, saver, clone, preg, late, childVars>>

-----------------------------------------------------------------------------
(* A child, still on old_tpd                                               *)

ChildGoto(k, l) == cpc' = [cpc EXCEPT ![k] = l]

\* movl %esp, %fs:OFFSET_REG_SAVER1
ChildSavesStack(k) ==
  /\ cpc[k] = "born"
  /\ saver' = k
  /\ ChildGoto(k, "stack")
  /\ UNCHANGED <<futex, target, parentVars, creg, start>>

\* new_tpd->old_stack_top = old_tpd->reg_saver1
ChildTakesStack(k) ==
  /\ cpc[k] = "stack"
  /\ start' = [start EXCEPT ![k].esp = saver]
  /\ ChildGoto(k, "target")
  /\ UNCHANGED <<futex, target, saver, parentVars, creg>>

\* new_tpd->target = old_tpd->target
ChildTakesTarget(k) ==
  /\ cpc[k] = "target"
  /\ start' = [start EXCEPT ![k].target = target]
  /\ ChildGoto(k, "incl")
  /\ UNCHANGED <<futex, target, saver, parentVars, creg>>

\* incl old_tpd->futex_data
InclRead(k) ==
  /\ cpc[k] = "incl"
  /\ creg' = [creg EXCEPT ![k] = futex]
  /\ ChildGoto(k, "incl2")
  /\ UNCHANGED <<futex, target, saver, parentVars, start>>

InclWrite(k) ==
  /\ cpc[k] = "incl2"
  /\ futex' = creg[k] + 1
  /\ ChildGoto(k, "test")
  /\ UNCHANGED <<target, saver, parentVars, creg, start>>

\* if (v != 1)
ChildTest(k) ==
  /\ cpc[k] = "test"
  /\ ChildGoto(k, IF futex = 1 THEN "run" ELSE "store")
  /\ UNCHANGED <<futex, target, saver, parentVars, creg, start>>

\* Mutated form of ChildStore: wakes without setting futex_data.
ChildStoreNothing(k) ==
  /\ cpc[k] = "store"
  /\ ChildGoto(k, "wake")
  /\ UNCHANGED <<futex, target, saver, parentVars, creg, start>>

ChildStore(k) ==
  /\ cpc[k] = "store"
  /\ futex' = 1
  /\ ChildGoto(k, "wake")
  /\ UNCHANGED <<target, saver, parentVars, creg, start>>

\* FUTEX_WAKE
ChildWakes(k) ==
  /\ cpc[k] = "wake"
  /\ ppc' = IF ppc = "asleep" THEN "decl" ELSE ppc
  /\ ChildGoto(k, "run")
  /\ UNCHANGED <<futex, target, saver, clone, preg, creg, start, signals, late>>

-----------------------------------------------------------------------------
ParentWaits ==
  DeclRead \/ DeclWrite \/ ParentTest \/ ParentStore \/ FutexWait

Parent ==
  \/ Branch \/ pre_clone \/ CloneSucceeds \/ CloneFails
  \/ ParentWaits \/ FutexInterrupted

Child(k) ==
  \/ ChildSavesStack(k) \/ ChildTakesStack(k) \/ ChildTakesTarget(k)
  \/ InclRead(k) \/ InclWrite(k) \/ ChildTest(k) \/ ChildStore(k) \/ ChildWakes(k)

CloneNext == Parent \/ \E k \in Clones : Child(k)

\* The kernel schedules every thread that can run.
CloneFairness == WF_cloneVars(ParentWaits) /\ \A k \in Clones : WF_cloneVars(Child(k))

CloneSpec == CloneInit /\ [][CloneNext]_cloneVars
CloneFairSpec == CloneSpec /\ CloneFairness

-----------------------------------------------------------------------------
(* Properties                                                              *)

Copied(k) == cpc[k] \in {"incl", "incl2", "test", "store", "wake", "run"}

\* Every child starts where its clone was issued, on the stack it was given: the
\* creator has not touched old_tpd meanwhile.  A clone issued while an earlier
\* child has still to store 1 into futex_data is not protected.
ChildStartsRight ==
  \A k \in Clones \ late : Copied(k) => start[k] = [esp |-> k, target |-> k]

\* A creator that is asleep before its child starts the incl is woken and
\* resumes, when no signal ends its FUTEX_WAIT.
SleeperResumes ==
  \A k \in Clones :
    (ppc = "asleep" /\ clone = k /\ cpc[k] = "incl" /\ ~signals /\ late = {})
      ~> (ppc = "run")

\* A creator resumes after every clone: "parent is holding a futex and waiting
\* us to wake it up" (clone.c).
ParentResumes == (ppc = "decl") ~> (ppc = "run")
=============================================================================
