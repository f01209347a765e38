----------------------------- MODULE MCLogReader -----------------------------
(***************************************************************************)
(* The log reader over every file of up to MaxBlocks blocks.  Units are    *)
(* numbered through the file.                                              *)
(***************************************************************************)
EXTENDS LogReader, SequencesExt

CONSTANTS
  MaxBlocks,   \* bound: blocks of the file
  MaxEntry,    \* bound: size of an entry
  MaxInBlock   \* bound: entries of a block

\* A block is given by the sizes of its entries; an empty one is what a flush
\* of an empty buffer leaves.
Layouts == SeqOf(SeqOf(1 .. MaxEntry, MaxInBlock), MaxBlocks)

Total(s) == FoldSeq(LAMBDA x, y : x + y, 0, s)

Before(l, i) == Total([j \in 1 .. (i - 1) |-> Total(l[j])])

FileOf(l) ==
  [i \in 1 .. Len(l) |->
    [mark |-> "compressed", real_sz |-> Total(l[i]),
     data |-> [k \in 1 .. Total(l[i]) |-> Before(l, i) + k]]]

EndsOf(l) ==
  LET s == FlattenSeq(l)
  IN  {Total(SubSeq(s, 1, i)) : i \in 0 .. Len(s)}

\* Entries end where the recorder put them, or, when a foreign flush cut a log
\* phase, the blocks do not respect them; the last block may be cut off.
Init ==
  /\ \E l \in Layouts :
       /\ blocks = FileOf(l)
       /\ ends \in {EndsOf(l), {0, Total(FlattenSeq(l))}}
       /\ whole \in {Len(l), Len(l) - 1} \cap Nat
  /\ ReaderInit

Spec == Init /\ [][ReadNext]_<<fileVars, readerVars>>
=============================================================================
