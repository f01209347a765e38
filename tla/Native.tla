------------------------------- MODULE Native -------------------------------
(***************************************************************************)
(* What the recorder promises the program: it runs as it would without it. *)
(* Instructions follow each other as their targets say, a signal runs the  *)
(* handler, and the handler's return goes back to where the signal struck. *)
(***************************************************************************)
EXTENDS Integers, Sequences

CONSTANTS
  Programs,  \* programs: functions from addresses to instructions (see Program)
  Start,
  Handler,
  Sigreturn

VARIABLES
  prog,   \* the program
  eip,
  stack,  \* addresses the handlers that run return to
  alive

vars == <<prog, eip, stack, alive>>

Init ==
  /\ prog \in Programs
  /\ eip = Start
  /\ stack = <<>>
  /\ alive = TRUE

Instruction ==
  /\ eip # Sigreturn
  /\ eip' \in prog[eip].to
  /\ eip' = Sigreturn => stack # <<>>
  /\ UNCHANGED <<prog, stack, alive>>

Signal ==
  /\ eip # Sigreturn
  /\ stack' = Append(stack, eip)
  /\ eip' = Handler
  /\ UNCHANGED <<prog, alive>>

Return ==
  /\ eip = Sigreturn
  /\ stack # <<>>
  /\ eip' = stack[Len(stack)]
  /\ stack' = SubSeq(stack, 1, Len(stack) - 1)
  /\ UNCHANGED <<prog, alive>>

Terminate ==
  /\ alive' = FALSE
  /\ UNCHANGED <<prog, eip, stack>>

Next == alive /\ (Instruction \/ Signal \/ Return \/ Terminate)

Spec == Init /\ [][Next]_vars
=============================================================================
