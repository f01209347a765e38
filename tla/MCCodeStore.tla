----------------------------- MODULE MCCodeStore -----------------------------
(***************************************************************************)
(* Instance of CodeStore: seven entries that collide in tables of 4, 8 and *)
(* 16 slots, and blocks around the limits of a page of 64 bytes.           *)
(***************************************************************************)
EXTENDS CodeStore, TLC

MCKeys == {2, 4, 6, 10, 13, 20, 36}

\* 48 is the largest that fits a page of its own, 51 takes two; 20 and 31
\* fill a page together, 20 and 32 just do not.
MCBlockSize == 2 :> 20 @@ 4 :> 31 @@ 6 :> 32 @@ 10 :> 48 @@ 13 :> 51 @@ 20 :> 5 @@ 36 :> 7
=============================================================================
