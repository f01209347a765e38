---------------------------- MODULE MCReplayWalk ----------------------------
(* Every program of two instructions, each with two handlers.              *)
EXTENDS ReplayWalk, TLC

Main == 0 .. 1

\* What an instruction of the program can be
Insts(a) ==
  {[op |-> "plain", to |-> {a + 1}], [op |-> "rdtsc", to |-> {a + 1}],
   [op |-> "int80", to |-> {a + 1}], [op |-> "ind", to |-> Main]}
  \cup {[op |-> "ud", to |-> {t}] : t \in Main}
  \cup {[op |-> "cond", to |-> {a + 1, t}] : t \in Main}

Jumps == {i \in Insts(1) : i.op \in {"ud", "ind"}}

Return == [op |-> "ind", to |-> {Sigreturn}]

TwoInstructions ==
  {(0 :> i) @@ (1 :> j) @@ (2 :> h) @@ (3 :> Return) :
     i \in Insts(0), j \in Jumps,
     h \in {k \in Insts(2) : k.op \in {"plain", "int80"}}}
=============================================================================
