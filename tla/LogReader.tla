------------------------------ MODULE LogReader ------------------------------
(***************************************************************************)
(* The replayer's reader of a log file (src/host/replay_log.c): the file   *)
(* is a sequence of blocks, one of them (the region) is held decompressed  *)
(* in memory, and the callers read or peek at runs of units across region  *)
(* boundaries.  Reads stay inside one entry of the recorder at a time: the *)
(* replayer learns from the units it has read how many follow.             *)
(***************************************************************************)
EXTENDS Integers, Sequences

VARIABLES
  blocks,    \* the log file: records with mark, real_sz and data
  whole,     \* number of blocks written completely before the recorder died
  ends,      \* positions in the stream at which an entry ends
  nextBlock, \* index of the next block to read
  region,    \* uncomp_data_buffer
  ptr,       \* uncomp_data_buffer_ptr - uncomp_data_buffer
  got,       \* what read_log has delivered
  need,      \* size: what read_log_full still has to deliver
  lastZero,  \* last_zero of read_log_full
  peeked,    \* what the last readahead_log delivered
  rpc        \* control of the reader

readerVars == <<nextBlock, region, ptr, got, need, lastZero, peeked, rpc>>
fileVars == <<blocks, whole, ends>>

\* No region yet: uncomp_data_buffer is NULL, and the pointers are equal.
ReaderInit ==
  /\ nextBlock = 1
  /\ region = <<>>
  /\ ptr = 0
  /\ got = <<>>
  /\ need = 0
  /\ lastZero = FALSE
  /\ peeked = <<>>
  /\ rpc = "idle"

-----------------------------------------------------------------------------
(* Regions                                                                 *)

Left == Len(region) - ptr

\* What follows in the region
Rest == SubSeq(region, ptr + 1, Len(region))

\* Mutated form of Loaded: the read position of the old region is kept.
LoadedKeepsPtr(r) ==
  /\ nextBlock <= whole
  /\ region' = r
  /\ ptr' = IF ptr <= Len(r) THEN ptr ELSE Len(r)
  /\ nextBlock' = nextBlock + 1

\* free_buffers, then the whole of the next block.  A block of another size
\* than its tag says either fails to decompress or, when it is longer, may
\* decompress up to that size.
Loaded(r) ==
  /\ nextBlock <= whole
  /\ region' = r
  /\ ptr' = 0
  /\ nextBlock' = nextBlock + 1

SizeMatches == Len(blocks[nextBlock].data) = blocks[nextBlock].real_sz

NextRegion ==
  /\ nextBlock <= whole
  /\ \/ SizeMatches /\ Loaded(blocks[nextBlock].data)
     \/ /\ Len(blocks[nextBlock].data) > blocks[nextBlock].real_sz
        /\ Loaded(SubSeq(blocks[nextBlock].data, 1, blocks[nextBlock].real_sz))

\* The throws of next_region: at the end of the file, also inside a block that
\* was cut off (EXP_LOG_END), or at a block that does not decompress to the
\* size in its tag (EXP_LZO_INFLATE).
RegionFails(e) ==
  /\ \/ nextBlock > whole /\ e = "end"
     \/ nextBlock <= whole /\ ~SizeMatches /\ e = "corrupt"
  /\ region' = <<>>
  /\ ptr' = 0
  /\ UNCHANGED nextBlock

-----------------------------------------------------------------------------
(* The operations                                                          *)

\* read_log_full(n): the loop starts.
ReadFullStart(n) ==
  /\ rpc = "idle"
  /\ need' = n
  /\ lastZero' = FALSE
  /\ rpc' = "full"
  /\ UNCHANGED <<nextBlock, region, ptr, got, peeked>>

\* read_log copies k units.
Deliver(k) ==
  /\ got' = got \o SubSeq(Rest, 1, k)
  /\ ptr' = ptr + k
  /\ peeked' = <<>>
  /\ UNCHANGED <<nextBlock, region>>

\* One call of read_log from the loop of read_log_full that delivers something:
\* everything asked for, or the last units of the region
ReadLogCopies ==
  /\ rpc = "full"
  /\ need > 0
  /\ Left > 0
  /\ LET k == IF need <= Left THEN need ELSE Left
     IN  /\ Deliver(k)
         /\ need' = need - k
         /\ rpc' = IF need = k THEN "idle" ELSE "full"
  /\ lastZero' = FALSE

\* One call of read_log that only moves on to the next region
ReadLogMoves ==
  /\ rpc = "full"
  /\ need > 0
  /\ Left = 0
  /\ NextRegion
  /\ lastZero' = TRUE
  /\ rpc' = IF lastZero THEN "corrupt" ELSE "full"
  /\ UNCHANGED <<got, need, peeked>>

\* read_log, in read_log_full, throws.
ReadLogThrows ==
  /\ rpc = "full"
  /\ need > 0
  /\ Left = 0
  /\ \E e \in {"end", "corrupt"} : RegionFails(e) /\ rpc' = e
  /\ UNCHANGED <<got, need, lastZero, peeked>>

\* Mutated form of AheadHere: consumes what it shows.
AheadConsumes(n) ==
  /\ rpc = "idle"
  /\ n <= Left
  /\ peeked' = SubSeq(Rest, 1, n)
  /\ ptr' = ptr + n
  /\ UNCHANGED <<nextBlock, region, got, need, lastZero, rpc>>

\* readahead_log(n), from the region in memory
AheadHere(n) ==
  /\ rpc = "idle"
  /\ n <= Left
  /\ peeked' = SubSeq(Rest, 1, n)
  /\ UNCHANGED <<nextBlock, region, ptr, got, need, lastZero, rpc>>

\* readahead_log(n) with units left in the region, but fewer than n
AheadUnaligned(n) ==
  /\ rpc = "idle"
  /\ n > Left
  /\ Left > 0
  /\ rpc' = "corrupt"
  /\ UNCHANGED <<nextBlock, region, ptr, got, need, lastZero, peeked>>

\* Mutated form of AheadMoves: refuses a region that just suffices.
AheadMovesStrict(n) ==
  /\ rpc = "idle"
  /\ n > Left
  /\ Left = 0
  /\ NextRegion
  /\ IF Len(region') <= n
     THEN rpc' = "corrupt" /\ UNCHANGED peeked
     ELSE peeked' = SubSeq(region', 1, n) /\ UNCHANGED rpc
  /\ UNCHANGED <<got, need, lastZero>>

\* readahead_log(n) from the next region; "unaligned readahead" when it is short
AheadMoves(n) ==
  /\ rpc = "idle"
  /\ n > Left
  /\ Left = 0
  /\ NextRegion
  /\ IF Len(region') < n
     THEN rpc' = "corrupt" /\ UNCHANGED peeked
     ELSE peeked' = SubSeq(region', 1, n) /\ UNCHANGED rpc
  /\ UNCHANGED <<got, need, lastZero>>

\* readahead_log(n) returns FALSE, or throws what next_region throws.
AheadThrows(n) ==
  /\ rpc = "idle"
  /\ n > Left
  /\ Left = 0
  /\ \E e \in {"end", "corrupt"} : RegionFails(e) /\ rpc' = e
  /\ UNCHANGED <<got, need, lastZero, peeked>>
-----------------------------------------------------------------------------
\* Sizes a caller may ask for: up to the end of the entry it has come to, or
\* one unit behind the last entry
Requests ==
  LET later == {e \in ends : e > Len(got)}
  IN  IF later = {} THEN {1}
      ELSE {n \in UNION {1 .. (e - Len(got)) : e \in later} :
              \A e \in later : Len(got) + n <= e}

ReaderNext ==
  \/ \E n \in Requests :
       \/ ReadFullStart(n)
       \/ AheadHere(n)
       \/ AheadUnaligned(n)
       \/ AheadMoves(n)
       \/ AheadThrows(n)
  \/ ReadLogCopies
  \/ ReadLogMoves
  \/ ReadLogThrows

\* A file that is only read: blocks of any sizes, entries that end anywhere, and
\* the last blocks incomplete
LogBlock == [mark : {"compressed", "uncompressed"}, real_sz : Nat, data : Seq(Nat)]

AnyFile ==
  /\ blocks \in Seq(LogBlock)
  /\ whole \in 0 .. Len(blocks)
  /\ ends \subseteq Nat

ReadNext == ReaderNext /\ UNCHANGED fileVars

ReadSpec == AnyFile /\ ReaderInit /\ [][ReadNext]_<<fileVars, readerVars>>

-----------------------------------------------------------------------------
(* Properties                                                              *)

\* What the first i blocks hold, one after the other
Joined(s, b) == s \o b.data
Stream(bs) ==
  LET s[i \in 0 .. Len(bs)] == IF i = 0 THEN <<>> ELSE Joined(s[i - 1], bs[i])
  IN  s

\* Every block is as large as its tag says.
Tagged == \A i \in 1 .. whole : blocks[i].real_sz = Len(blocks[i].data)

\* What the reader has delivered and what follows in the region are the blocks it
\* has loaded: nothing is skipped or delivered twice at a region boundary.  It
\* reports the end of the log (FALSE from readahead_log, or EXP_LOG_END) only when
\* it has delivered every complete block: a block that was cut off when the
\* recorder died costs nothing that precedes it.
InOrder ==
  Tagged =>
    /\ rpc \in {"idle", "full"} => got \o Rest = Stream(blocks)[nextBlock - 1]
    /\ rpc = "end" => got = Stream(blocks)[whole]

\* What readahead_log showed is what the next read delivers: it consumes
\* nothing, also when it has to load a region.
PeekIsNext ==
  rpc = "idle" => \E n \in 0 .. Left : peeked = SubSeq(Rest, 1, n)

\* Blocks hold whole entries, and each holds at least one.
Aligned == \A i \in 1 .. whole : Len(Stream(blocks)[i]) \in ends
NoEmpty == \A i \in 1 .. whole : blocks[i].data # <<>>

\* A file of non-empty blocks that hold whole entries is never reported as
\* corrupted (EXP_LOG_CORRUPTED of read_log_full and readahead_log).
NoFalseAlarm ==
  Tagged /\ Aligned /\ NoEmpty => rpc # "corrupt"
=============================================================================
