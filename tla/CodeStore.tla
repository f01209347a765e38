------------------------------ MODULE CodeStore ------------------------------
(***************************************************************************)
(* The pages one thread's recorder allocates for itself: the dictionary    *)
(* and the object pages of its code cache (interp/dict.c, interp/mm.c),    *)
(* its log buffer and the work buffers of the compressor                   *)
(* (interp/compress.c).  The dictionary is an open addressing table that   *)
(* grows and never shrinks; compiled blocks are cut off object pages and   *)
(* are never freed alone.                                                  *)
(*                                                                         *)
(* Addresses are bytes.  Sizes of structures are those of the code; the    *)
(* page, the log buffer and the first table are smaller.                   *)
(***************************************************************************)
EXTENDS Integers, Sequences, FiniteSets, SequencesExt, FiniteSetsExt

CONSTANTS
  Keys,                \* entries of pieces of code the thread runs into
  BlockSize,           \* size of the block compiled for each
  PAGE_SIZE,           \* size of a page
  Pages,               \* bound: numbers of the pages the kernel can give out
  DEFAULT_DICT_SLOTS,  \* slots of the first table
  MaxMaskBits,         \* bound: tables have at most 2^MaxMaskBits slots
  LOG_PAGES_NR,        \* pages of the log buffer
  LZO1X_1_MEM_COMPRESS \* work space of the compressor

NULL == 0
NO_SUCH_KEY == 0

ASSUME StoreAssumption ==
  /\ Keys \subseteq Nat \ {NO_SUCH_KEY, 1}
  /\ BlockSize \in [Keys -> Nat \ {0}]
  /\ Pages \subseteq Nat \ {NULL}
  /\ {PAGE_SIZE, DEFAULT_DICT_SLOTS - 1, LOG_PAGES_NR, LZO1X_1_MEM_COMPRESS}
       \subseteq Nat \ {0}

\* Sizes of cont_space_header, obj_page_head, a pointer, dict_t, dict_entry_t
ContHead == 4
ObjHead == 12
Pointer == 4
DictHead == 8
DictEntry == 8

VARIABLES
  mapped,   \* pages that are mapped for this thread
  dict,     \* NoDict or the table with its mask, counter and pages
  objs,     \* object pages, in the order of the list
  buffers,  \* pages of the log buffer, work_buffer1 and work_buffer2
  alive     \* the thread has been set up and has not left

vars == <<mapped, dict, objs, buffers, alive>>

NoDict == [at |-> NULL, nr |-> 0, mask |-> 0, active |-> 0, table |-> <<>>]

Init ==
  /\ mapped = {}
  /\ dict = NoDict
  /\ objs = <<>>
  /\ buffers = <<>>
  /\ alive = FALSE

-----------------------------------------------------------------------------
(* Pages                                                                   *)

\* ALIGN_UP(sz, PAGE_SIZE) >> PAGE_SHIFT
PagesFor(sz) == (sz + PAGE_SIZE - 1) \div PAGE_SIZE

Run(at, nr) == at .. at + nr - 1

\* alloc_pages: mmap2 without an address.  The kernel picks a free run, here
\* the lowest, so that pages given back are soon used again.
alloc_pages(nr, used) ==
  LET runs == {p \in Pages : Run(p, nr) \subseteq Pages \ used}
  IN  IF nr = 0 THEN {NULL} ELSE IF runs = {} THEN {} ELSE {Min(runs)}

-----------------------------------------------------------------------------
(* The dictionary                                                          *)

pow2roundup(x) == Min({p \in {2^i : i \in 0 .. 30} : p >= x})

DICT_REAL_SZ(slots) == DictHead + DictEntry * slots

\* Pages alloc_cont_space takes for a table
DictPages(slots) == PagesFor(DICT_REAL_SZ(slots) + ContHead)

create_dict(max_slots, at) ==
  LET slots == pow2roundup(max_slots)
  IN  [at     |-> at,
       nr     |-> DictPages(slots),
       mask   |-> slots - 1,
       active |-> 0,
       table  |-> [i \in 0 .. slots - 1 |-> [key |-> NO_SUCH_KEY, value |-> 0]]]

\* Probe[m][i] is the order in which get_entry looks at the slots of a table
\* with mask m, from the slot i on: i := 5 * i + 1.  Only the low bits of i are
\* used, so that its overflow does not matter.  Bound: MaxMaskBits.
Probe ==
  [m \in {2^j - 1 : j \in 0 .. MaxMaskBits} |->
    [i \in 0 .. m |->
      LET slot[n \in 0 .. m] == IF n = 0 THEN i ELSE (5 * slot[n - 1] + 1) % (m + 1)
      IN  [n \in 0 .. m |-> slot[n]]]]

\* The first slot that holds the key or is free; none when size probes found
\* neither
get_entry(d, key) ==
  LET slot == Probe[d.mask][key % (d.mask + 1)]
      hits == {n \in 0 .. d.mask : d.table[slot[n]].key \in {key, NO_SUCH_KEY}}
  IN  IF hits = {} THEN {} ELSE {slot[Min(hits)]}

\* The assertion of the code is FreeSlot below.
dict_insert_clean(d, key, value) ==
  LET ep == Min(get_entry(d, key))
  IN  [d EXCEPT !.table[ep] = [key |-> key, value |-> value], !.active = @ + 1]

\* Mutated form of copy_dict: the last slot is left out.
copy_dict_last(dst, src) ==
  FoldLeft(LAMBDA d, i :
             LET e == src.table[i - 1]
             IN  IF e.key = NO_SUCH_KEY THEN d ELSE dict_insert_clean(d, e.key, e.value),
           dst, [i \in 1 .. src.mask |-> i])

copy_dict(dst, src) ==
  FoldLeft(LAMBDA d, i :
             LET e == src.table[i - 1]
             IN  IF e.key = NO_SUCH_KEY THEN d ELSE dict_insert_clean(d, e.key, e.value),
           dst, [i \in 1 .. src.mask + 1 |-> i])

\* Mutated form of Crowded: the table may fill up.
Crowded_full(d) == d.active > d.mask + 1

\* The test of dict_insert for a new table
Crowded(d) == d.active * 3 > 2 * d.mask + 2

\* Pages dict_insert allocates
InsertPages(d) ==
  IF d = NoDict THEN DictPages(pow2roundup(DEFAULT_DICT_SLOTS))
  ELSE IF Crowded(d) THEN DictPages(pow2roundup(d.mask * 2 + 1))
  ELSE 0

\* dict_insert, with the address alloc_pages returned
dict_insert(d, key, value, at) ==
  LET new == IF d = NoDict THEN create_dict(DEFAULT_DICT_SLOTS, at)
             ELSE IF Crowded(d) THEN copy_dict(create_dict(d.mask * 2 + 1, at), d)
             ELSE d
  IN  dict_insert_clean(new, key, value)

dict_get(d, key) ==
  IF d = NoDict THEN 0
  ELSE LET ep == get_entry(d, key)
       IN  IF \E i \in ep : d.table[i].key = key
           THEN d.table[Min(ep)].value ELSE 0

-----------------------------------------------------------------------------
(* Object pages                                                            *)

\* next_free_byte is kept as its distance from the head.
Fits(page, sz) == page.next + sz < page.nr * PAGE_SIZE

\* The first page of the list with room, if there is one
FitsAt(sz) == {i \in DOMAIN objs : Fits(objs[i], sz)}

\* Pages alloc_obj allocates
ObjPages(sz) ==
  IF FitsAt(sz) # {} THEN 0 ELSE PagesFor(sz + ObjHead + Pointer)

\* alloc_obj: the list after it, and the address of the object
alloc_obj(sz, at) ==
  IF FitsAt(sz) # {}
  THEN LET i == Min(FitsAt(sz))
       IN  [objs |-> [objs EXCEPT ![i].next = @ + sz],
            ptr  |-> objs[i].at * PAGE_SIZE + objs[i].next]
  ELSE [objs |-> <<[at |-> at, nr |-> ObjPages(sz), next |-> ObjHead + sz]>> \o objs,
        ptr  |-> at * PAGE_SIZE + ObjHead]

-----------------------------------------------------------------------------
(* The thread                                                              *)

\* Pages of work_buffer1, for the worst a block can be compressed to, and of
\* work_buffer2
prepare_tls_compress(buffer_sz) ==
  <<PagesFor(buffer_sz + buffer_sz \div 16 + 67), PagesFor(LZO1X_1_MEM_COMPRESS)>>

\* clone_build_tpd: init_code_cache and init_logger, which allocates the log
\* buffer and calls prepare_tls_compress
init_logger ==
  LET nr1 == prepare_tls_compress(LOG_PAGES_NR * PAGE_SIZE)[1]
      nr2 == prepare_tls_compress(LOG_PAGES_NR * PAGE_SIZE)[2]
  IN  /\ ~alive
      /\ \E a \in alloc_pages(LOG_PAGES_NR, mapped) :
         \E b \in alloc_pages(nr1, mapped \cup Run(a, LOG_PAGES_NR)) :
         \E c \in alloc_pages(nr2, mapped \cup Run(a, LOG_PAGES_NR) \cup Run(b, nr1)) :
           /\ buffers' = <<Run(a, LOG_PAGES_NR), Run(b, nr1), Run(c, nr2)>>
           /\ mapped' = mapped \cup UNION {buffers'[i] : i \in 1 .. 3}
      /\ alive' = TRUE
      /\ UNCHANGED <<dict, objs>>

\* Mutated form of do_compile: the old table stays mapped when it has grown.
do_compile_leak(k) ==
  /\ alive
  /\ dict_get(dict, k) = 0
  /\ \E at \in alloc_pages(ObjPages(BlockSize[k]), mapped) :
       LET new == alloc_obj(BlockSize[k], at)
           used == mapped \cup Run(at, ObjPages(BlockSize[k]))
           nr == InsertPages(dict)
       IN  \E dat \in alloc_pages(nr, used) :
             /\ objs' = new.objs
             /\ dict' = dict_insert(dict, k, new.ptr, dat)
             /\ mapped' = used \cup Run(dat, nr)
  /\ UNCHANGED <<buffers, alive>>

\* do_compile for an entry without a block: compile_code_block takes an
\* object, dict_insert enters it.  A table that grows is unmapped after its
\* entries have been copied.
do_compile(k) ==
  /\ alive
  /\ dict_get(dict, k) = 0
  /\ \E at \in alloc_pages(ObjPages(BlockSize[k]), mapped) :
       LET new == alloc_obj(BlockSize[k], at)
           used == mapped \cup Run(at, ObjPages(BlockSize[k]))
           nr == InsertPages(dict)
       IN  \E dat \in alloc_pages(nr, used) :
             /\ objs' = new.objs
             /\ dict' = dict_insert(dict, k, new.ptr, dat)
             /\ mapped' = (used \cup Run(dat, nr))
                            \ (IF nr > 0 THEN Run(dict.at, dict.nr) ELSE {})
  /\ UNCHANGED <<buffers, alive>>

\* destroy_dict and clear_obj_pages
clear_code_cache ==
  /\ dict' = NoDict
  /\ objs' = <<>>

\* The thread leaves: clear_code_cache and close_logger with
\* destroy_tls_compress
unmap_tpd_pages ==
  /\ alive
  /\ mapped' = ((mapped \ Run(dict.at, dict.nr))
                  \ UNION {Run(objs[i].at, objs[i].nr) : i \in DOMAIN objs})
                  \ UNION {buffers[i] : i \in DOMAIN buffers}
  /\ clear_code_cache
  /\ buffers' = <<>>
  /\ alive' = FALSE

Next == init_logger \/ (\E k \in Keys : do_compile(k)) \/ unmap_tpd_pages

Spec == Init /\ [][Next]_vars

-----------------------------------------------------------------------------
\* The entries the dictionary finds
Found == {k \in Keys : dict_get(dict, k) # 0}

\* The pages of every structure, one set for each
Owned ==
  <<Run(dict.at, dict.nr)>> \o buffers
    \o [i \in DOMAIN objs |-> Run(objs[i].at, objs[i].nr)]

\* dict_insert_clean's assertion: whatever was inserted and however often the
\* table has grown, get_entry finds the key or a free slot within its probes,
\* so the loop in get_entry never comes back empty handed.
FreeSlot == dict # NoDict => \A k \in Keys : get_entry(dict, k) # {}

\* A page is mapped exactly while one structure of the thread holds it, and
\* never for two of them: a table that has grown gives its pages back, and a
\* thread that has left holds none.  Every block the dictionary knows lies in
\* one object page that is still mapped, behind its head and before its end.
PagesOwned ==
  /\ mapped = UNION {Owned[i] : i \in DOMAIN Owned}
  /\ \A i, j \in DOMAIN Owned : i # j => Owned[i] \cap Owned[j] = {}
  /\ ~alive => mapped = {}
  /\ \A k \in Found :
       \E i \in DOMAIN objs :
         LET start == objs[i].at * PAGE_SIZE
             ptr == dict_get(dict, k)
         IN  /\ start + ObjHead <= ptr
             /\ ptr + BlockSize[k] < start + objs[i].nr * PAGE_SIZE

Blocks == INSTANCE BlockMap WITH map <- [k \in Found |-> dict_get(dict, k)]

\* The dictionary over object pages is the map the compiler takes it for:
\* growing the table or taking a new page moves and overwrites no block.
IsBlockMap == Blocks!Spec
=============================================================================
