------------------------------- MODULE BlockMap -------------------------------
(***************************************************************************)
(* What the compiler relies on when it uses a thread's code cache: a map   *)
(* from the entry of a piece of code to the address of its compiled block. *)
(* A block that was added stays where it is, and no other block overlaps   *)
(* it, until the whole cache is dropped.                                   *)
(***************************************************************************)
EXTENDS Integers

CONSTANTS
  Keys,      \* entries of pieces of code
  BlockSize  \* size of the block compiled for each

VARIABLE map  \* address of the block of each entry compiled so far

Init == DOMAIN map = {}

Bytes(a, k) == a .. a + BlockSize[k] - 1

Add(k) ==
  /\ k \notin DOMAIN map
  /\ DOMAIN map' = DOMAIN map \cup {k}
  /\ \A j \in DOMAIN map :
       map'[j] = map[j] /\ Bytes(map[j], j) \cap Bytes(map'[k], k) = {}

Drop == DOMAIN map' = {}

Next == (\E k \in Keys : Add(k)) \/ Drop

Spec == Init /\ [][Next]_map
=============================================================================
