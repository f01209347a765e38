--------------------------- MODULE MCRecordReplay ---------------------------
EXTENDS RecordReplay, TLC

CONSTANTS t1, t2

TwoThreads == {t1, t2}
ThreadSymmetry == Permutations(TwoThreads)

\* Below MAX_LOGGER_SIZE, at it and above it
WordSizes == {2, 3, 4}
=============================================================================
