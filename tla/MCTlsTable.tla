----------------------------- MODULE MCTlsTable -----------------------------
(* Model-checking instances of TlsTable.                                   *)
EXTENDS TlsTable, TLC

CONSTANTS t1, t2, t3, h1, h2

ThreeThreads == {t1, t2, t3}
TwoHandlers == {h1, h2}
=============================================================================
