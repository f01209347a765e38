------------------------------ MODULE MCRecover ------------------------------
(***************************************************************************)
(* Recorded processes of 21 pages: guard and stack of the thread data, the *)
(* program, its heap, a library that may be longer than its file, a        *)
(* device, anonymous memory that the writer's buffer is part of, the       *)
(* recorder with the anonymous pages behind its data, stack and vdso.      *)
(***************************************************************************)
EXTENDS Recover

Line(start, end, prot, fn, aval) ==
  [start |-> start, end |-> end + 1, prot |-> prot, fn |-> fn, aval |-> aval]

RW == {"r", "w"}
RX == {"r", "x"}

\* lib: pages in the library's file; last: end of the anonymous memory;
\* own: the recorder is the program that was started, with the end of its data
\* in the heap; vdso: there is one
Maps(lib, last, own, vdso) ==
  << Line(1, 1, {}, "", 0), Line(2, 3, RW, "", 0),
     Line(4, 4, RX, "exec", 1), Line(5, 5, RW, "exec", 1),
     Line(6, 7, RW, "[heap]", 0),
     Line(8, 9, {"r"}, "lib", lib), Line(10, 10, RW, "/dev/zero", 0),
     Line(11, last, RW, "", 0),
     Line(15, 15, RX, "libinterp.so", 2), Line(16, 16, RW, "libinterp.so", 1) >>
    \o (IF own THEN <<>> ELSE <<Line(17, 18, RW, "", 0)>>)
    \o << Line(19, 20, RW, "[stack]", 0) >>
    \o (IF vdso THEN <<Line(21, 21, RX, "[vdso]", 0)>> ELSE <<>>)

MCWorlds ==
  {[maps |-> Maps(x[1], x[2][1], x[3], x[4]),
    proc_map |-> x[2][2], proc_map_sz |-> 2, tls |-> {2, 3},
    _end |-> IF x[3] THEN 7 ELSE 18,
    mapped |-> (15 .. 16) \cup (19 .. 21) \cup (IF x[3] THEN 6 .. 7 ELSE {4, 5, 17, 18})]
   : x \in {0, 1, 2} \X {<<12, 11>>, <<14, 11>>, <<14, 12>>, <<14, 13>>} \X BOOLEAN \X BOOLEAN}

MCMarked == {9, 20}
=============================================================================
