------------------------------ MODULE MCMemory ------------------------------
(***************************************************************************)
(* Ten frames of four bytes: 0 is below 1 MiB, 1 holds the kernel, 3 and 4 *)
(* the program and 6 its stack; the identity mapping ends before frame 8.  *)
(***************************************************************************)
EXTENDS Memory

Region(s, n) == [start |-> s, size |-> n]
Seg(v, n) == [vaddr |-> v, memsz |-> n, infile |-> TRUE]
Cut(v, n) == [vaddr |-> v, memsz |-> n, infile |-> FALSE]

Map(entries, n) == [mapped |-> TRUE, mmap |-> entries, kb |-> n]
NoMap(n) == [mapped |-> FALSE, mmap |-> << >>, kb |-> n]

\* A map with a hole and an end within a page, one whose end wraps, one of more
\* memory than is managed, one without usable memory, and reports without a map, one
\* of so many kilobytes that their bytes wrap to 0.
MCBootInfos ==
    { Map(<<Region(0, 4), Region(6, 16), Region(24, 10)>>, 0), Map(<<Region(4, 60)>>, 0),
      Map(<<Region(8, 40)>>, 0), Map(<< >>, 15), NoMap(11), NoMap(32), NoMap(0) }

\* Programs whose segments start on pages: two that load, and others refused for
\* their second or third segment, for one too long and for one that wraps.
MCPrograms ==
    { <<Seg(12, 8)>>, <<Seg(12, 3), Seg(16, 4)>>, <<Seg(12, 4), Cut(16, 4)>>,
      <<Seg(12, 0), Seg(16, 1), Seg(20, 4)>>, <<Seg(16, 12)>>, <<Seg(16, 60)>> }

\* A program that is as large as the area and starts within a page.
UnalignedPrograms == MCPrograms \cup {<<Seg(13, 7)>>}

MCVPages == {8, 9, 12}
=============================================================================
