------------------------------- MODULE Recover -------------------------------
(***************************************************************************)
(* Starting a replay.  A checkpoint process writes its file and may be     *)
(* killed at any point of it.  The host (host/main.c) checks the file,     *)
(* starts the target under ptrace, compares it with the checkpoint, sends  *)
(* it to the restoring code, lets it go and waits for it to report; the    *)
(* target (interp/replayer.c) restores its memory and reports.             *)
(*                                                                         *)
(* The host is given function by function as what happens before its TRY,  *)
(* in it, in FINALLY, in CATCH and behind it; what a function does is a    *)
(* list of small operations, many of which may throw.                      *)
(***************************************************************************)
EXTENDS Checkpoint, Exceptions

VARIABLES
  world,      \* the recorded process
  file,       \* its checkpoint
  read_ckpt,  \* the host is only to list the checkpoint
  frames,     \* functions of the host that are being executed
  catchers,   \* curr_catcher_p and what it links to
  caught,     \* variables of catch_var that are set
  held,       \* what is allocated or open
  cause,      \* type of the first exception
  host,       \* "write", "run" or how the host has ended
  child,      \* the target
  t           \* the target's position in the file, its memory, messages sent

hostVars == <<frames, catchers, caught, held, cause, host>>
fixed == <<world, file, read_ckpt>>
vars == <<fixed, hostVars, child, t>>

-----------------------------------------------------------------------------
(* The functions of the host                                               *)

F(pre, body, fin, handler, post) ==
  [pre |-> pre, body |-> body, fin |-> fin, handler |-> handler, post |-> post]

May(e) == <<"may", e>>
Throw(e) == <<"throw", e>>
Hold(r) == <<"hold", r>>
Free(r) == <<"free", r>>
Call(f) == <<"call", f>>
Take(r) == <<"take", r>>
Do(what) == <<what, "">>
Rethrow == Do("rethrow")

\* The loop that would enlarge the buffer is a TRY, which runs once.
readlink_malloc ==
  F(<<>>, <<Hold("buffer"), May("EXP_UNCATCHABLE"), Do("maybreak")>>, <<>>,
    <<Free("buffer"), Rethrow>>, <<>>)

get_full_name ==
  F(<<May("EXP_PROC_MAPS"), Hold("fd")>>, <<Call("readlink_malloc")>>, <<Free("fd")>>,
    <<Rethrow>>, <<>>)

\* Mutated form of ptrace_execve: does not kill what it has started.
ptrace_execve_leave ==
  F(<<>>, <<May("EXP_PTRACE"), Do("fork"), May("EXP_PTRACE"), May("EXP_PTRACE")>>, <<>>,
    <<Rethrow>>, <<>>)

\* fork, wait_and_check, PTRACE_SETOPTIONS (without parent_execve)
ptrace_execve ==
  F(<<>>, <<May("EXP_PTRACE"), Do("fork"), May("EXP_PTRACE"), May("EXP_PTRACE")>>, <<>>,
    <<<<"kill", "pid">>, Rethrow>>, <<>>)

ptrace_dupmem ==
  F(<<>>, <<Hold("dup_ptr"), May("EXP_PTRACE")>>, <<<<"xfree", "dup_ptr">>>>, <<Rethrow>>, <<>>)

compare_section ==
  F(<<Hold("tmp_ptr")>>, <<Call("ptrace_dupmem"), May("EXP_WRONG_CKPT")>>,
    <<Free("tmp_ptr")>>, <<Rethrow>>, <<>>)

elf_find_symbol ==
  F(<<May("EXP_ELF"), Hold("bfd")>>, <<May("EXP_ELF"), Do("maybreak")>>, <<Free("bfd")>>,
    <<Rethrow>>, <<May("EXP_SYMBOL")>>)

\* The TRY inside do_recover; what is caught is thrown as a fatal one.
check_exec ==
  F(<<>>, <<<<"find_region", "exec">>>>, <<>>, <<Throw("EXP_CKPT_REGION_NOT_FOUND")>>, <<>>)

\* Mutated form of FreeArgs: the copies for FINALLY keep the addresses.
FreeArgs_local == <<<<"xfree", "args">>, <<"xfree", "envs">>>>

\* xfree_null_catched for both
FreeArgs == <<Free("args"), Free("envs")>>

do_recover ==
  F(<<>>,
    << <<"map_ckpt", TRUE>>, <<"map_ckpt", FALSE>>,
       <<"find_region", "[stack]">>, <<"find_region", "[vdso]">>,
       <<"find_region", "libinterp.so">>, May("EXP_WRONG_CKPT"),
       Hold("args"), Hold("envs"), May("EXP_FILE_NOT_FOUND"),
       Call("get_full_name"), Take("exec_full_fn"),
       <<"skip", 3>>, May("EXP_FILE_NOT_FOUND"), Call("get_full_name"), Take("exec_full_fn_2"),
       Call("check_exec"),
       Call("ptrace_execve"), <<"set", "target_pid">> >>
      \o FreeArgs \o
    << Do("assert"), Hold("maps_data"),
       May("EXP_PROC_MAPS_REGION_NOT_FOUND"), May("EXP_WRONG_CKPT"),
       Call("compare_section"), Call("elf_find_symbol"), May("EXP_PTRACE"), Do("detach") >>,
    << Free("maps_data"), Free("args"), Free("envs"),
       Free("exec_full_fn"), Free("exec_full_fn_2") >>,
    << <<"kill", "target_pid">>, Rethrow >>, <<>>)

\* The first TRY of main
main_recover ==
  F(<<>>,
    << Do("read_ckpt"), Call("get_full_name"), Take("interp_so_full_name"),
       Call("do_recover") >>,
    << Free("interp_so_full_name") >>, << Rethrow >>, <<>>)

Quits == {"EXP_GDBSERVER_EXIT", "EXP_GDBSERVER__EXIT", "EXP_GDBSERVER_TARGET_SIGNALED"}

\* start_gdbserver and the second TRY of main.  gdbserver_main leaves with an
\* exception, before or after it has attached the target.
start_gdbserver ==
  F(<<>>,
    << <<"recv", 1>>, <<"recv", 2>>, <<"recv", 3>>, May("EXP_GDBSERVER_EXIT"),
       Do("attach"), May("EXP_GDBSERVER_TARGET_SIGNALED"), May("EXP_GDBSERVER__EXIT"),
       Throw("EXP_GDBSERVER_EXIT") >>,
    << <<"kill_child", "">> >>, << Do("exit"), Rethrow >>, <<>>)

main == F(<<Call("main_recover"), Do("assert_child"), Call("start_gdbserver")>>,
          <<>>, <<>>, <<>>, <<>>)

Code ==
  [readlink_malloc |-> readlink_malloc, get_full_name |-> get_full_name,
   ptrace_execve |-> ptrace_execve, ptrace_dupmem |-> ptrace_dupmem,
   compare_section |-> compare_section, elf_find_symbol |-> elf_find_symbol,
   check_exec |-> check_exec, do_recover |-> do_recover, main_recover |-> main_recover,
   start_gdbserver |-> start_gdbserver, main |-> main]
-----------------------------------------------------------------------------
(* The host                                                                *)

Frame(f) == [fn |-> f, sec |-> "pre", i |-> 1, exp |-> NO_EXCEPTION]

Init ==
  /\ world \in Worlds
  /\ read_ckpt \in BOOLEAN
  /\ file = <<>>
  /\ frames = <<Frame("main")>>
  /\ catchers = <<>> /\ caught = {} /\ held = {}
  /\ cause = NO_EXCEPTION
  /\ host = "write"
  /\ child = "none"
  /\ t = [i |-> 2, m |-> Fresh(world), sent |-> 0]

\* The checkpoint process (fork_make_checkpoint) writes, and is killed after n
\* words or not.
fork_make_checkpoint ==
  /\ host = "write" /\ host' = "run"
  /\ \E n \in 0 .. Len(do_make_checkpoint(world)) :
       file' = SubSeq(do_make_checkpoint(world), 1, n)
  /\ UNCHANGED <<world, read_ckpt, frames, catchers, caught, held, cause, child, t>>

Running == host = "run" /\ ~Faulty(catchers)
Top == Last(frames)
Ops == IF Top.sec = "iter" THEN <<>> ELSE Code[Top.fn][Top.sec]
InSection == Running /\ Top.i <= Len(Ops)
SectionEnd(sec) == Running /\ Top.sec = sec /\ Top.i > Len(Ops)
Op(name) == InSection /\ Ops[Top.i][1] = name
Arg == Ops[Top.i][2]

Skip(n) == frames' = [frames EXCEPT ![Len(frames)].i = @ + n]
Step == Skip(1)
Enter(sec) ==
  frames' = [frames EXCEPT ![Len(frames)].sec = sec, ![Len(frames)].i = 1]
Return ==
  frames' = [Front(frames) EXCEPT ![Len(frames) - 1].i = @ + 1]

\* __throw_exception: the exception goes to the innermost catcher, the jump to
\* the head of its TRY.
throw_exception(type) ==
  /\ cause' = IF cause = NO_EXCEPTION THEN type ELSE cause
  /\ \/ /\ catchers = <<>>
        /\ host' = "fatal"
        /\ frames' = [frames EXCEPT ![Len(frames)].exp = type]
        /\ UNCHANGED catchers
     \/ /\ catchers # <<>>
        /\ LET f == Last(catchers).frame
           IN  frames' = [SubSeq(frames, 1, f) EXCEPT ![f].exp = type, ![f].sec = "iter"]
        /\ catchers' = exceptions_state_mc(catchers, "THROW")
        /\ UNCHANGED host

TRY ==
  /\ SectionEnd("pre")
  /\ catchers' = exceptions_state_mc(push_catcher(catchers, Len(frames)), "ITER")
  /\ frames' = [frames EXCEPT ![Len(frames)].sec = "body", ![Len(frames)].i = 1,
                              ![Len(frames)].exp = NO_EXCEPTION]
  /\ UNCHANGED <<fixed, caught, held, cause, host, child, t>>

\* The condition of the loop once more, after the body or after a jump, and the
\* FINALLY it leads to
FINALLY ==
  /\ SectionEnd("body") \/ SectionEnd("iter")
  /\ catchers' = exceptions_state_mc(exceptions_state_mc(catchers, "ITER"), "FINALLY")
  /\ Enter("fin")
  /\ UNCHANGED <<fixed, caught, held, cause, host, child, t>>

\* Every CATCH block of these functions ends in a throw or an exit.
CATCH ==
  /\ \/ SectionEnd("fin") /\ Enter(IF Top.exp = NO_EXCEPTION THEN "post" ELSE "handler")
     \/ SectionEnd("post") /\ Return
  /\ UNCHANGED <<fixed, catchers, caught, held, cause, host, child, t>>

\* Calls and jumps; Break is a break in the body of a TRY.
Break == /\ catchers' = exceptions_state_mc(catchers, "FINALLY")
         /\ Enter("fin")

Jump ==
  /\ \/ Op("call") /\ frames' = Append(frames, Frame(Arg)) /\ UNCHANGED catchers
     \/ Op("maybreak") /\ (Break \/ (Step /\ UNCHANGED catchers))
     \/ Op("skip") /\ (Step \/ Skip(Arg + 1)) /\ UNCHANGED catchers
  /\ UNCHANGED <<fixed, caught, held, cause, host, child, t>>

\* What may go wrong in a call of the system or a comparison
Attempt ==
  /\ \/ Op("may") /\ Step /\ UNCHANGED <<catchers, cause, host>>
     \/ (Op("may") \/ Op("throw")) /\ throw_exception(Arg)
     \/ Op("rethrow") /\ throw_exception(Top.exp)
  /\ UNCHANGED <<fixed, caught, held, child, t>>

\* set_catched_var with what was allocated; a pointer that a callee returns;
\* xfree_null, which clears the variable, and xfree, which does not
Store ==
  /\ \/ Op("hold") /\ held' = held \cup {Arg} /\ caught' = caught \cup {Arg} /\ UNCHANGED host
     \/ /\ Op("take")
        /\ held' = (held \ {"buffer"}) \cup {Arg}
        /\ caught' = (caught \ {"buffer"}) \cup {Arg}
        /\ UNCHANGED host
     \/ Op("set") /\ caught' = caught \cup {Arg} /\ UNCHANGED <<held, host>>
     \/ /\ Op("free") \/ Op("xfree")
        /\ host' = IF Arg \in caught \ held THEN "double free" ELSE host
        /\ held' = held \ {Arg}
        /\ caught' = IF Op("free") THEN caught \ {Arg} ELSE caught
  /\ Step
  /\ UNCHANGED <<fixed, catchers, cause, child, t>>

\* map_ckpt: of an empty file there is no head to look at, and the walk is told
\* its size first.
MapCkpt(only_head) ==
  \/ /\ file = <<>> /\ only_head
     /\ host' = "fault"
     /\ UNCHANGED <<frames, catchers, cause, held>>
  \/ /\ file = <<>> /\ ~only_head
     /\ throw_exception("EXP_WRONG_CKPT") /\ held' = held \cup {"ckpt_fd"}
  \/ /\ file # <<>> /\ ~map_ckpt(file, only_head)
     /\ throw_exception("EXP_WRONG_CKPT") /\ UNCHANGED held

Look ==
  /\ \/ Op("map_ckpt") /\ MapCkpt(Arg)
     \/ Op("map_ckpt") /\ map_ckpt(file, Arg) /\ Step /\ UNCHANGED <<catchers, cause, host, held>>
     \/ Op("read_ckpt") /\ read_ckpt /\ MapCkpt(FALSE)
     \/ /\ Op("read_ckpt") /\ read_ckpt /\ map_ckpt(file, FALSE)
        /\ Break /\ UNCHANGED <<cause, host, held>>
     \/ Op("read_ckpt") /\ ~read_ckpt /\ Step /\ UNCHANGED <<catchers, cause, host, held>>
     \/ /\ Op("find_region") /\ find_region(file, Arg)
        /\ Step /\ UNCHANGED <<catchers, cause, host, held>>
     \/ /\ Op("find_region") /\ ~find_region(file, Arg)
        /\ throw_exception("EXP_CKPT_REGION_NOT_FOUND") /\ UNCHANGED held
  /\ UNCHANGED <<fixed, caught, child, t>>

\* PTRACE_KILL, which does nothing to a process that is not traced
ptrace_kill == child' = IF child \in {"traced", "attached"} THEN "dead" ELSE child

Trace ==
  /\ \/ Op("fork") /\ child' = "traced" /\ caught' = caught \cup {"pid"}
     \/ Op("kill") /\ Arg \in caught /\ ptrace_kill /\ caught' = caught \ {Arg}
     \/ Op("kill") /\ Arg \notin caught /\ UNCHANGED <<child, caught>>
     \/ Op("detach") /\ child' = "detached" /\ UNCHANGED caught
     \/ Op("attach") /\ child = "detached" /\ child' = "attached" /\ UNCHANGED caught
     \/ Op("kill_child") /\ ptrace_kill /\ UNCHANGED caught
  /\ Step
  /\ UNCHANGED <<fixed, catchers, held, cause, host, t>>

\* sock_recv of the n-th message.  After 100 ms without one the target is
\* waited for with the pid of SN_info, which is only known from the third.
Recv ==
  /\ \/ Op("recv") /\ t.sent >= Arg /\ Step /\ UNCHANGED <<catchers, cause, host>>
     \/ Op("recv") /\ t.sent < Arg /\ throw_exception("EXP_PTRACE")
     \/ Op("recv") /\ t.sent >= Arg /\ throw_exception("EXP_SOCKPAIR_ERROR")
  /\ UNCHANGED <<fixed, caught, held, child, t>>

\* Assertions, and the exit of the second CATCH
End ==
  /\ \/ Op("assert") /\ (host' = "assert" \/ UNCHANGED host)
     \/ Op("assert_child") /\ host' = IF child = "none" THEN "assert" ELSE host
     \/ Op("exit") /\ host' = IF Top.exp \in Quits THEN "exit" ELSE host
  /\ Step
  /\ UNCHANGED <<fixed, catchers, caught, held, cause, child, t>>

-----------------------------------------------------------------------------
(* The target                                                              *)

\* One region of the loop of replayer_main
restore_region ==
  /\ child = "detached" /\ file[t.i].t = "region"
  /\ t' = [t EXCEPT !.i = next_region(file, t.i),
                    !.m = do_restore_mem_region(world, t.m, file[t.i].v, file[t.i + 2].v)]
  /\ UNCHANGED <<fixed, hostVars, child>>

\* Mutated form of wait_for_attach: the result of the send is not looked at.
wait_for_attach_unchecked ==
  /\ child = "detached" /\ file[t.i] = EndRegion /\ t.sent < 3
  /\ t' = [t EXCEPT !.sent = @ + 1]
  /\ UNCHANGED <<fixed, hostVars, child>>

\* The three messages; sock_send asserts that there is somebody to read them.
\* Behind them is loop_sleep.
wait_for_attach ==
  /\ child = "detached" /\ file[t.i] = EndRegion /\ t.sent < 3
  /\ IF host = "run" THEN t' = [t EXCEPT !.sent = @ + 1] /\ UNCHANGED child
     ELSE child' = "dead" /\ UNCHANGED t
  /\ UNCHANGED <<fixed, hostVars>>

Next ==
  \/ fork_make_checkpoint
  \/ TRY \/ FINALLY \/ CATCH \/ Jump \/ Attempt \/ Store \/ Look \/ Trace \/ Recv \/ End
  \/ restore_region \/ wait_for_attach

\* The target is let go with PTRACE_DETACH and no longer waits for anybody.
Spec ==
  /\ Init /\ [][Next]_vars
  /\ WF_vars(restore_region) /\ WF_vars(wait_for_attach)

-----------------------------------------------------------------------------
(* Properties                                                              *)

Ended == host \notin {"write", "run"}

\* The stack of catchers is always that of the TRY blocks the functions on the
\* stack of calls are in, in the same order (exception.c: push_catcher,
\* pop_catcher, the longjmp of __throw_exception), and no step drives the state
\* machine of a catcher to MC_FAULT.
CatchersMatch ==
  /\ ~Faulty(catchers)
  /\ Ended \/ [i \in DOMAIN catchers |-> catchers[i].frame]
              = SetToSortSeq({d \in DOMAIN frames : frames[d].sec \in {"body", "iter"}}, <)

\* Whichever call fails, nothing is freed twice and nothing stays allocated or
\* open when an exception ends the host (the FINALLY and CATCH blocks of
\* do_recover and of the functions it calls; xfree_null_catched).  The file
\* that map_ckpt finds too small is the one thing it leaves open.
Released ==
  /\ host # "double free"
  /\ host \in {"exit", "fatal"} => held \subseteq IF file = <<>> THEN {"ckpt_fd"} ELSE {}

\* A target is left behind only if an assertion ended the host, or it ended
\* after do_recover had let the target go and before gdbserver attached it
\* (main.c: CATCH of do_recover, kill_child).
TargetKilled ==
  Ended /\ child \in {"traced", "detached", "attached"} =>
    \/ host = "assert"
    \/ child = "detached" /\ cause \in {"EXP_PTRACE", "EXP_SOCKPAIR_ERROR", "EXP_GDBSERVER_EXIT"}

\* A target that has not sent its three messages when the host ends does not
\* stay: it restores the rest and fails in sock_send (kill_child cannot reach
\* it, since it is not traced).
OrphanEnds == Ended /\ child = "detached" /\ t.sent < 3 ~> child = "dead"

\* A target is started only from a checkpoint that was written to its end:
\* check_ckpt refuses every file the checkpoint process was killed in, even one
\* that ends in a page whose last word is the end mark.
CutRefused == child # "none" => file = do_make_checkpoint(world)

\* The line of the map that holds page a, unless a is of the writer's buffer
Recorded(a) ==
  {r \in ToSet(world.maps) :
     a \in Span(r) \ (world.proc_map .. world.proc_map + world.proc_map_sz - 1)}

\* What page a must hold after the restore
Expected(a, r) ==
  IF r.fn = "libinterp.so" \/ (HoldsEnd(world, r) /\ a < world._end) THEN Own
  ELSE IF IsDev(r.fn) THEN Zero
  ELSE IF a < r.start + get_aval_size(r) THEN a ELSE File + a

\* When the target reports, every page of the recorded process is mapped and
\* holds what it held when the checkpoint was made, except for the recorder's
\* own image and devices, and its protection is the recorded one, writable if
\* it can be executed (append_region, flush_mem_regions, do_restore_mem_region).
Restored ==
  t.sent > 0 =>
    \A a \in Page : \A r \in Recorded(a) :
      /\ t.m.mem[a] = Expected(a, r)
      /\ t.m.map[a] \ {"mapped"} =
           IF r.fn = "libinterp.so" THEN r.prot ELSE get_new_prot(r.prot)
=============================================================================
