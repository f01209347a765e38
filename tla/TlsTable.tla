------------------------------ MODULE TlsTable ------------------------------
(***************************************************************************)
(* The table of thread private data (arch/x86/interp/tls.c): slots of the  *)
(* LDT, the list of tpds behind __tls_ctl_lock, and what walks that list:  *)
(* flush_all_logger and sync_sighandler.  The handshake of clone is        *)
(* abstracted to what it is for (CloneHandshake has its steps): the        *)
(* creator stays inside clone until the child has copied its tpd.          *)
(*                                                                         *)
(* One signal stands for all: a sigaction is its handler, a value.         *)
(***************************************************************************)
EXTENDS Integers, Sequences, FiniteSetsExt

CONSTANTS
  Threads,       \* threads the process ever has
  Main,          \* the first one
  None,          \* no thread
  LdtEntries,    \* bound: slots of the LDT
  Handlers,      \* handlers the program installs
  Default,       \* the handler before any rt_sigaction
  MaxCalls       \* bound: rt_sigaction calls of each thread

ASSUME TlsAssumption ==
  /\ Main \in Threads
  /\ None \notin Threads
  /\ LdtEntries \in Nat \ {0}
  /\ MaxCalls \in Nat

VARIABLES
  tlsLock,     \* holder of __tls_ctl_lock
  list,        \* slots on tpd_list_head, first to last
  thread_map,  \* the slots whose bit is set
  slot,        \* the slot of each thread
  logger,      \* of each slot: no buffers yet, buffers, or buffers freed
  sigaction,   \* of each slot
  creator,     \* of each thread: who cloned it
  loaded,      \* of each thread: the sigaction it is copying
  walk,        \* of each thread: the slots its loop has still to visit
  pc,
  untraced,    \* conf_untrace_clone, the same in every tpd
  calls,       \* rt_sigaction calls of each thread so far
  raced        \* history: some rt_sigaction and another one or a start overlapped

tables == <<tlsLock, list, thread_map, slot, logger, sigaction>>
vars == <<tables, creator, loaded, walk, pc, untraced, calls, raced>>

Slots == 0 .. (LdtEntries - 1)
NoSlot == -1

\* The process ends in exit_group, or in a failed assertion or a bad access.
Alive == \A t \in Threads : pc[t] \notin {"dead", "abort", "crash"}

Goto(t, l) == pc' = [pc EXCEPT ![t] = l]

Init ==
  /\ tlsLock = None
  /\ list = <<0>>
  /\ thread_map = {0}
  /\ slot = [t \in Threads |-> IF t = Main THEN 0 ELSE NoSlot]
  /\ logger = [s \in Slots |-> IF s = 0 THEN "live" ELSE "none"]
  /\ sigaction = [s \in Slots |-> Default]
  /\ creator = [t \in Threads |-> None]
  /\ loaded = [t \in Threads |-> Default]
  /\ walk = [t \in Threads |-> <<>>]
  /\ pc = [t \in Threads |-> IF t = Main THEN "run" ELSE "unborn"]
  /\ untraced \in BOOLEAN
  /\ calls = [t \in Threads |-> 0]
  /\ raced = FALSE

-----------------------------------------------------------------------------
(* Threads come                                                            *)

\* The clone system call: the creator waits for the child.
Clone(t, c) ==
  /\ pc[t] = "run"
  /\ pc[c] = "unborn"
  /\ creator' = [creator EXCEPT ![c] = t]
  /\ pc' = [pc EXCEPT ![t] = "cloning", ![c] = "create"]
  /\ UNCHANGED <<tables, loaded, walk>>

find_set_free_slot == Min(Slots \ thread_map)

\* create_new_tls; with no slot left the LDT entry cannot be written.
create_new_tls(t) ==
  /\ pc[t] = "create"
  /\ tlsLock = None
  /\ IF Slots \subseteq thread_map
     THEN /\ Goto(t, "abort")
          /\ UNCHANGED <<list, thread_map, slot, logger, sigaction>>
     ELSE LET n == find_set_free_slot
          IN  /\ thread_map' = thread_map \cup {n}
              /\ list' = <<n>> \o list
              /\ slot' = [slot EXCEPT ![t] = n]
              /\ logger' = [logger EXCEPT ![n] = "none"]
              /\ sigaction' = [sigaction EXCEPT ![n] = Default]
              /\ Goto(t, "load")
  /\ UNCHANGED <<tlsLock, creator, loaded, walk>>

\* copy_init_base_tpd, without a lock: the memcpy of the sigactions is a load
\* from the creator's tpd and a store into the child's; then the creator goes on.
CopyLoads(t) ==
  /\ pc[t] = "load"
  /\ loaded' = [loaded EXCEPT ![t] = sigaction[slot[creator[t]]]]
  /\ logger' = [logger EXCEPT ![slot[t]] = "none"]
  /\ Goto(t, "store")
  /\ UNCHANGED <<tlsLock, list, thread_map, slot, sigaction, creator, walk>>

CopyStores(t) ==
  /\ pc[t] = "store"
  /\ sigaction' = [sigaction EXCEPT ![slot[t]] = loaded[t]]
  /\ pc' = [pc EXCEPT ![t] = "post", ![creator[t]] = "run"]
  /\ UNCHANGED <<tlsLock, list, thread_map, slot, logger, creator, loaded, walk>>

\* clone_post_child: an untraced thread never returns to the recorder.
clone_post_child(t) ==
  /\ pc[t] = "post"
  /\ IF untraced
     THEN Goto(t, "untraced") /\ UNCHANGED logger
     ELSE Goto(t, "run") /\ logger' = [logger EXCEPT ![slot[t]] = "live"]
  /\ UNCHANGED <<tlsLock, list, thread_map, slot, sigaction, creator, loaded, walk>>

-----------------------------------------------------------------------------
(* Threads go                                                              *)

\* A logger some thread is working on
InUse(s) == \E f \in Threads : pc[f] = "flushing" /\ Head(walk[f]) = s

\* pre_exit: flush_logger, then clear_tls frees the buffers, without a lock.
FreeBuffers(t) ==
  /\ pc[t] = "run"
  /\ logger' = [logger EXCEPT ![slot[t]] = "closed"]
  /\ Goto(t, IF InUse(slot[t]) THEN "crash" ELSE "clear")
  /\ UNCHANGED <<tlsLock, list, thread_map, slot, sigaction, creator, loaded, walk>>

\* list_del: the tpd is linked once.
list_del(l, s) ==
  LET i == CHOOSE i \in 1 .. Len(l) : l[i] = s
  IN  SubSeq(l, 1, i - 1) \o SubSeq(l, i + 1, Len(l))

\* Mutant: no lock_tls
ClearUnlocked(t) ==
  /\ pc[t] = "clear"
  /\ list' = list_del(list, slot[t])
  /\ thread_map' = thread_map \ {slot[t]}
  /\ slot' = [slot EXCEPT ![t] = NoSlot]
  /\ Goto(t, "gone")
  /\ UNCHANGED <<tlsLock, logger, sigaction, creator, loaded, walk>>

\* Mutant: no unlock_tls
ClearKeepsLock(t) ==
  /\ pc[t] = "clear"
  /\ tlsLock = None
  /\ tlsLock' = t
  /\ list' = list_del(list, slot[t])
  /\ thread_map' = thread_map \ {slot[t]}
  /\ slot' = [slot EXCEPT ![t] = NoSlot]
  /\ Goto(t, "gone")
  /\ UNCHANGED <<logger, sigaction, creator, loaded, walk>>

\* clear_tls takes the tpd off the list and gives the slot back, locked.
clear_tls(t) ==
  /\ pc[t] = "clear"
  /\ tlsLock = None
  /\ list' = list_del(list, slot[t])
  /\ thread_map' = thread_map \ {slot[t]}
  /\ slot' = [slot EXCEPT ![t] = NoSlot]
  /\ Goto(t, "gone")
  /\ UNCHANGED <<tlsLock, logger, sigaction, creator, loaded, walk>>

-----------------------------------------------------------------------------
(* flush_all_logger, from exit_group or a fatal signal                     *)

FlushAllStarts(t) ==
  /\ pc[t] = "run"
  /\ tlsLock = None
  /\ tlsLock' = t
  /\ walk' = [walk EXCEPT ![t] = list]
  /\ Goto(t, "flush")
  /\ UNCHANGED <<list, thread_map, slot, logger, sigaction, creator, loaded>>

\* The next logger: a flush without buffers writes through NULL pointers.
FlushOneStarts(t) ==
  /\ pc[t] = "flush"
  /\ walk[t] # <<>>
  /\ Goto(t, IF logger[Head(walk[t])] = "live" THEN "flushing" ELSE "crash")
  /\ UNCHANGED <<tables, creator, loaded, walk>>

FlushOneEnds(t) ==
  /\ pc[t] = "flushing"
  /\ walk' = [walk EXCEPT ![t] = Tail(@)]
  /\ Goto(t, "flush")
  /\ UNCHANGED <<tables, creator, loaded>>

FlushAllEnds(t) ==
  /\ pc[t] = "flush"
  /\ walk[t] = <<>>
  /\ tlsLock' = None
  /\ Goto(t, "end")
  /\ UNCHANGED <<list, thread_map, slot, logger, sigaction, creator, loaded, walk>>

\* exit_group itself, or the signal raised again: it ends every thread.
ProcessEnds(t) ==
  /\ pc[t] = "end"
  /\ Goto(t, "dead")
  /\ UNCHANGED <<tables, creator, loaded, walk>>

-----------------------------------------------------------------------------
(* rt_sigaction                                                            *)

\* pre_rt_sigaction: the thread's own entry, without the lock
pre_rt_sigaction(t, h) ==
  /\ pc[t] = "run"
  /\ calls[t] < MaxCalls
  /\ calls' = [calls EXCEPT ![t] = @ + 1]
  /\ sigaction' = [sigaction EXCEPT ![slot[t]] = h]
  /\ Goto(t, "sync")
  /\ UNCHANGED <<tlsLock, list, thread_map, slot, logger, creator, loaded, walk>>

SyncStarts(t) ==
  /\ pc[t] = "sync"
  /\ tlsLock = None
  /\ tlsLock' = t
  /\ walk' = [walk EXCEPT ![t] = list]
  /\ Goto(t, "syncing")
  /\ UNCHANGED <<list, thread_map, slot, logger, sigaction, creator, loaded>>

\* Mutant: the loop leaves out the last tpd of the list.
SyncOneButLast(t) ==
  /\ pc[t] = "syncing"
  /\ walk[t] # <<>>
  /\ sigaction' = IF Tail(walk[t]) = <<>> THEN sigaction
                  ELSE [sigaction EXCEPT ![Head(walk[t])] = sigaction[slot[t]]]
  /\ walk' = [walk EXCEPT ![t] = Tail(@)]
  /\ UNCHANGED <<tlsLock, list, thread_map, slot, logger, creator, loaded, pc>>

SyncOne(t) ==
  /\ pc[t] = "syncing"
  /\ walk[t] # <<>>
  /\ sigaction' = [sigaction EXCEPT ![Head(walk[t])] = sigaction[slot[t]]]
  /\ walk' = [walk EXCEPT ![t] = Tail(@)]
  /\ UNCHANGED <<tlsLock, list, thread_map, slot, logger, creator, loaded, pc>>

SyncEnds(t) ==
  /\ pc[t] = "syncing"
  /\ walk[t] = <<>>
  /\ tlsLock' = None
  /\ Goto(t, "run")
  /\ UNCHANGED <<list, thread_map, slot, logger, sigaction, creator, loaded, walk>>

-----------------------------------------------------------------------------
Inner(t) ==
  \/ create_new_tls(t)
  \/ CopyLoads(t)
  \/ CopyStores(t)
  \/ clone_post_child(t)
  \/ clear_tls(t)
  \/ FlushOneStarts(t)
  \/ FlushOneEnds(t)
  \/ FlushAllEnds(t)
  \/ ProcessEnds(t)
  \/ SyncStarts(t)
  \/ SyncOne(t)
  \/ SyncEnds(t)

Step(t) ==
  \/ Inner(t) /\ UNCHANGED calls
  \/ FreeBuffers(t) /\ UNCHANGED calls
  \/ FlushAllStarts(t) /\ UNCHANGED calls
  \/ \E c \in Threads : Clone(t, c) /\ UNCHANGED calls
  \/ \E h \in Handlers : pre_rt_sigaction(t, h)

Syncing == {t \in Threads : pc[t] \in {"sync", "syncing"}}
Starting == {t \in Threads : pc[t] \in {"create", "load", "store"}}
Overlap == \E t \in Syncing, u \in Syncing \cup Starting : t # u

Next ==
  /\ Alive
  /\ \E t \in Threads : Step(t)
  /\ UNCHANGED untraced
  /\ raced' = (raced \/ Overlap')

Spec == Init /\ [][Next]_vars

\* The kernel schedules every thread: one that waits for a lock that stays
\* free gets it, but a spin lock promises no more than that.
Fairness == \A t \in Threads : WF_vars(Next /\ Inner(t))

FairSpec == Spec /\ Fairness

-----------------------------------------------------------------------------
(* Properties                                                              *)

\* Slots, list and loops agree whichever threads come and go: the bits of
\* thread_map are the slots threads have, no two threads, hence no two stacks
\* and LDT entries, have the same (find_set_free_slot, clear_tls_slot),
\* tpd_list_head links the tpd of every slot in use, once, and a loop over it
\* never meets a tpd that is gone.
TableAgrees ==
  /\ thread_map = {slot[t] : t \in Threads} \ {NoSlot}
  /\ \A t, u \in Threads : slot[t] = slot[u] /\ slot[t] # NoSlot => t = u
  /\ Range(list) = thread_map
  /\ \A i, j \in 1 .. Len(list) : list[i] = list[j] => i = j
  /\ \A t \in Threads : Range(walk[t]) \subseteq thread_map

\* Threads share their signal handlers (CLONE_SIGHAND): between calls of
\* rt_sigaction that neither overlap nor meet a thread that starts, all tpds
\* agree, whoever installed the handler and whoever cloned whom.
HandlersShared ==
  ~raced /\ Syncing \cup Starting = {} =>
    \A s1, s2 \in thread_map : sigaction[s1] = sigaction[s2]

\* The tls lock is given back and a thread that was created runs, unless the
\* process ends (lock_tls, unlock_tls in tls.c).
Progress ==
  /\ (tlsLock # None) ~> (tlsLock = None \/ ~Alive)
  /\ \A t \in Threads : (pc[t] = "create") ~> (pc[t] \in {"run", "untraced"} \/ ~Alive)
=============================================================================
