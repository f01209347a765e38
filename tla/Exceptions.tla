------------------------------ MODULE Exceptions ------------------------------
(***************************************************************************)
(* The exceptions of the host program (host/exception.c, exception.h): a   *)
(* stack of catchers, one for every TRY that is being executed, each a     *)
(* small state machine.  TRY is a loop whose condition, FINALLY and the    *)
(* throw itself drive the machine of the innermost catcher.                *)
(***************************************************************************)
EXTENDS Sequences, SequencesExt

CATCHER_INIT == "INIT"
CATCHER_EXEC_BODY == "EXEC_BODY"
CATCHER_THROWN == "THROWN"
CATCHER_WAIT_FINALLY == "WAIT_FINALLY"
CATCHER_POPPED == "POPPED"
MC_FAULT == "FAULT"

NO_EXCEPTION == "none"

\* Mutated form of mc: a body that is left with break is not expected.
mc_nobreak(state, action) ==
  CASE state = CATCHER_INIT /\ action = "ITER" -> CATCHER_EXEC_BODY
    [] state = CATCHER_EXEC_BODY /\ action = "ITER" -> CATCHER_WAIT_FINALLY
    [] state = CATCHER_EXEC_BODY /\ action = "THROW" -> CATCHER_THROWN
    [] state = CATCHER_WAIT_FINALLY /\ action = "FINALLY" -> CATCHER_POPPED
    [] state = CATCHER_THROWN /\ action = "ITER" -> CATCHER_WAIT_FINALLY
    [] OTHER -> MC_FAULT

\* The state after an action; pop_catcher is the state CATCHER_POPPED.
mc(state, action) ==
  CASE state = CATCHER_INIT /\ action = "ITER" -> CATCHER_EXEC_BODY
    [] state = CATCHER_EXEC_BODY /\ action = "ITER" -> CATCHER_WAIT_FINALLY
    [] state = CATCHER_EXEC_BODY /\ action = "THROW" -> CATCHER_THROWN
    [] state = CATCHER_EXEC_BODY /\ action = "FINALLY" -> CATCHER_POPPED
    [] state = CATCHER_WAIT_FINALLY /\ action = "FINALLY" -> CATCHER_POPPED
    [] state = CATCHER_THROWN /\ action = "ITER" -> CATCHER_WAIT_FINALLY
    [] OTHER -> MC_FAULT

\* exceptions_state_mc_init: the jump buffer is the frame of the TRY.
push_catcher(cs, frame) == Append(cs, [frame |-> frame, state |-> CATCHER_INIT])

exceptions_state_mc(cs, action) ==
  LET s == mc(Last(cs).state, action)
  IN  IF s = CATCHER_POPPED THEN Front(cs)
      ELSE [cs EXCEPT ![Len(cs)].state = s]

Faulty(cs) == \E i \in DOMAIN cs : cs[i].state = MC_FAULT
=============================================================================
