------------------------------ MODULE Program ------------------------------
(***************************************************************************)
(* The recorded program, seen as its instructions.  An instruction has an  *)
(* operation and the addresses control can go to behind it; which of them  *)
(* is taken, what a system call returns and what rdtsc reads is data the   *)
(* program computes or gets from outside, and left open.                   *)
(***************************************************************************)
EXTENDS Integers

CONSTANTS
  Programs,   \* programs: functions from addresses to instructions
  Start,      \* where the program starts
  Handler,    \* the handler it has installed
  Sigreturn,  \* arch_wrapper_sigreturn, the return address of the handler
  Values      \* what rdtsc and the system calls return

Ops == {"plain", "cond", "ud", "ind", "rdtsc", "int80"}

\* The address space of the programs and their instructions
ASSUME ProgramAssumption ==
  /\ Sigreturn \in Nat
  /\ Values # {} /\ Values \subseteq Nat
  /\ \A p \in Programs :
       /\ Start \in DOMAIN p /\ Handler \in DOMAIN p
       /\ DOMAIN p \subseteq Nat \ {Sigreturn}
       /\ \E top \in DOMAIN p : \A a \in DOMAIN p : a <= top
       /\ \A a \in DOMAIN p :
            /\ p[a].op \in Ops
            /\ p[a].to # {} /\ p[a].to \subseteq DOMAIN p \cup {Sigreturn}
            /\ p[a].op # "cond" /\ p[a].op # "ind" => \E b \in p[a].to : p[a].to = {b}
            /\ p[a].op = "plain" => p[a].to = {a + 1}
            /\ Sigreturn \in p[a].to => p[a].op = "ind"

\* scan_insts: the first branch at or behind an address
scan_insts(p, a) ==
  LET exits == {b \in DOMAIN p : b >= a /\ p[b].op # "plain"}
  IN  CHOOSE b \in exits : \A c \in exits : b <= c

\* Exit types of compile_branch; rdtsc goes on behind itself but is not EXIT_UNCOND_DIRECT.
ExitType(op) ==
  CASE op = "ud"               -> "EXIT_UNCOND_DIRECT"
    [] op \in {"cond", "rdtsc"} -> "EXIT_COND_DIRECT"
    [] op = "ind"              -> "EXIT_UNCOND_INDIRECT"
    [] op = "int80"            -> "EXIT_SYSCALL"
=============================================================================
