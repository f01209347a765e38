------------------------------ MODULE Checkpoint ------------------------------
(***************************************************************************)
(* The checkpoint file (interp/checkpoint.c), what the host checks of it   *)
(* (host/main.c) and how the target restores its memory from it            *)
(* (interp/replayer.c).                                                    *)
(*                                                                         *)
(* Memory is a row of pages.  Page a of the recorded process holds a, page *)
(* a of a mapped file holds File + a, a page of the new process that was   *)
(* not restored holds Own, a fresh anonymous page 0.  The file is a        *)
(* sequence of words: what one write call appends, the data of a region    *)
(* page by page.                                                           *)
(***************************************************************************)
EXTENDS Integers, Sequences, FiniteSets, SequencesExt

CONSTANTS
  N,        \* number of pages
  Worlds,   \* recorded processes: see World
  Marked    \* pages whose last word happens to be CKPT_END_MARK

File == 1000
Own == -1
Zero == 0

Page == 1 .. N
Prots == SUBSET {"r", "w", "x"}

\* A line of /proc/self/maps.  aval: how many of its pages the file has
Region == [start : Page, end : 2 .. N + 1, prot : Prots, fn : STRING, aval : 0 .. N]

\* maps: the lines, in the order of the addresses; proc_map, proc_map_sz: where
\* the buffer for the lines is; tls: the stack of the recorder's thread data;
\* _end: end of the recorder's own data; mapped: pages the kernel maps again
\* when the program is started for the replay
World == [maps : Seq(Region), proc_map : Page, proc_map_sz : 1 .. N,
          tls : SUBSET Page, _end : Page, mapped : SUBSET Page]

CheckpointAssumption ==
  /\ N \in Nat \ {0}
  /\ Worlds \subseteq World
  /\ Marked \subseteq Page
ASSUME CheckpointAssumption

Span(r) == r.start .. r.end - 1

IsAnon(fn) == fn \in {"", "[heap]", "[stack]", "[vdso]"}
IsDev(fn) == fn = "/dev/zero"

-----------------------------------------------------------------------------
(* Writing                                                                 *)

Word(t, v) == [t |-> t, v |-> v]
CkptHead == Word("head", 0)
EndRegion == Word("end", 0)
EndMark == Word("mark", 0)

\* Rounded up to whole pages by append_region
get_aval_size(r) ==
  IF IsAnon(r.fn) \/ r.aval > Cardinality(Span(r)) THEN Cardinality(Span(r))
  ELSE r.aval

\* The region, its name, the size that is kept, and the pages; a region that
\* cannot be read is made readable for the while.  Of a device nothing is kept.
append_region(r) ==
  <<Word("region", r), Word("name", r.fn)>>
    \o IF IsDev(r.fn) THEN <<Word("size", 0)>>
       ELSE <<Word("size", get_aval_size(r))>>
              \o [i \in 1 .. get_aval_size(r) |-> Word("page", r.start + i - 1)]

\* The region that holds the buffer is split around it.
SplitRegion(w, r) ==
  LET behind == w.proc_map + w.proc_map_sz
      r1 == [r EXCEPT !.end = w.proc_map]
      r2 == [r EXCEPT !.start = behind]
  IN  (IF r1.end > r1.start THEN append_region(r1) ELSE <<>>)
        \o (IF r2.end > r2.start THEN append_region(r2) ELSE <<>>)

flush_mem_regions(w) ==
  FoldLeft(LAMBDA out, r :
             out \o IF r.start <= w.proc_map /\ r.end > w.proc_map
                    THEN SplitRegion(w, r) ELSE append_region(r),
           <<>>, w.maps)
    \o <<EndRegion, EndMark>>

do_make_checkpoint(w) == <<CkptHead>> \o flush_mem_regions(w)

-----------------------------------------------------------------------------
(* Checking, on the host                                                   *)

\* Mutated form of HasEndMark: not looked at
HasEndMark_skip(file) == TRUE

\* The last four bytes of the file
HasEndMark(file) ==
  LET last == file[Len(file)]
  IN  last = EndMark \/ (last.t = "page" /\ last.v \in Marked)

\* next_region for the region at word i: the number of its first word
next_region(file, i) == i + 3 + file[i + 2].v

\* The walk of check_ckpt, which ends outside of the file or at the end mark
\* of the regions
WalkEnds(file) ==
  LET step[i \in 2 .. Len(file) + N + 3] ==
        IF i + 2 > Len(file) \/ file[i].t # "region" THEN i
        ELSE step[next_region(file, i)]
  IN  step[2]

check_ckpt(file) ==
  /\ HasEndMark(file)
  /\ WalkEnds(file) \in DOMAIN file
  /\ file[WalkEnds(file)] = EndRegion

\* Whether map_ckpt does not throw
map_ckpt(file, only_head) ==
  /\ file # <<>>
  /\ ~only_head => check_ckpt(file)

\* The regions a complete file lists
Regions(file) == {file[i].v : i \in {j \in DOMAIN file : file[j].t = "region"}}

\* Whether find_region does not throw
find_region(file, fn) == \E r \in Regions(file) : r.fn = fn

-----------------------------------------------------------------------------
(* Restoring, in the target                                                *)

\* Memory and map of the target when it comes to replayer_main: what the
\* kernel has mapped, and the thread data of do_restore_tls_stack
Fresh(w) ==
  [mem |-> [a \in Page |-> IF a \in w.tls THEN a ELSE Own],
   map |-> [a \in Page |->
              IF a \in w.tls THEN {"r", "w", "mapped"}
              ELSE LET rs == {i \in DOMAIN w.maps : a \in Span(w.maps[i])}
                   IN  IF a \in w.mapped /\ rs # {}
                       THEN w.maps[CHOOSE i \in rs : TRUE].prot \cup {"mapped"}
                       ELSE {}]]

\* get_new_prot: what can be executed becomes writable.
get_new_prot(prot) == IF "x" \in prot THEN prot \cup {"w"} ELSE prot

\* The mapping of a region; "mapped" keeps one without access apart from none.
Protected(m, r) ==
  [a \in Page |-> IF a \in Span(r) THEN get_new_prot(r.prot) \cup {"mapped"} ELSE m.map[a]]

Filled(m, cells, v(_)) == [a \in Page |-> IF a \in cells THEN v(a) ELSE m.mem[a]]

do_anon_mapping(m, r) ==
  [mem |-> Filled(m, Span(r), LAMBDA a : Zero), map |-> Protected(m, r)]

do_file_mapping(m, r) ==
  [mem |-> Filled(m, Span(r), LAMBDA a : File + a), map |-> Protected(m, r)]

\* do_reprotect, or a file mapping where pages are missing
do_reprotect(m, r) ==
  IF \A a \in Span(r) : m.map[a] # {}
  THEN [m EXCEPT !.map = Protected(m, r)]
  ELSE do_file_mapping(m, r)

\* Whether the recorder's own data ends in the region
HoldsEnd(w, r) == r.start < w._end /\ r.end >= w._end

\* Mutated form of do_restore_mem_region: fills the recorder's own data too.
do_restore_mem_region_all(w, m, r, n) ==
  IF Span(r) = w.tls \/ r.fn = "libinterp.so" THEN m
  ELSE LET anon == IsAnon(r.fn)
           m1 == IF IsDev(r.fn) \/ (anon /\ ~HoldsEnd(w, r)) THEN do_anon_mapping(m, r)
                 ELSE IF anon THEN m
                 ELSE IF r.fn = "exec" THEN do_reprotect(m, r)
                 ELSE do_file_mapping(m, r)
       IN  IF IsDev(r.fn) THEN m1
           ELSE [m1 EXCEPT !.mem = Filled(m1, r.start .. r.start + n - 1, LAMBDA a : a)]

\* The thread data and the recorder itself are skipped, a device becomes
\* anonymous memory, pages of the program are reprotected, files are mapped;
\* of the region the recorder's own data ends in only the rest is filled.
do_restore_mem_region(w, m, r, n) ==
  IF Span(r) = w.tls \/ r.fn = "libinterp.so" THEN m
  ELSE LET anon == IsAnon(r.fn)
           m1 == IF IsDev(r.fn) \/ (anon /\ ~HoldsEnd(w, r)) THEN do_anon_mapping(m, r)
                 ELSE IF anon THEN m
                 ELSE IF r.fn = "exec" THEN do_reprotect(m, r)
                 ELSE do_file_mapping(m, r)
           fill == IF HoldsEnd(w, r) THEN w._end .. r.end - 1
                   ELSE r.start .. r.start + n - 1
       IN  IF IsDev(r.fn) THEN m1
           ELSE [m1 EXCEPT !.mem = Filled(m1, fill, LAMBDA a : a)]
=============================================================================
