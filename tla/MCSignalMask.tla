---------------------------- MODULE MCSignalMask ----------------------------
(***************************************************************************)
(* SIGUSR1 (10) and 62, a signal above 32 that RECORD_PROCMASK leaves open *)
(* and whose bit in unblock_sigmask is that of 30.  The sa_mask of SIGUSR1 *)
(* contains SIGKILL (9), as one made by sigfillset does.                   *)
(***************************************************************************)
EXTENDS SignalMask

MCAll == {9, 10, 30, 33, 62}
MCSigs == {10, 62}
MCSaMask == [s \in MCSigs |-> IF s = 10 THEN {9, 62} ELSE {}]
MCInitial == {{}, {10}}
MCRequests ==
  {<<"block", {10, 33}>>, <<"unblock", {10}>>, <<"setmask", {33}>>, <<"suspend", {30}>>}
=============================================================================
