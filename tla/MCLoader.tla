------------------------------ MODULE MCLoader ------------------------------
(***************************************************************************)
(* Programs for Loader, in pages of two bytes.                             *)
(***************************************************************************)
EXTENDS Loader

Seg(vaddr, offset, size) ==
    [vaddr |-> vaddr, offset |-> offset, filesz |-> size, memsz |-> size]
Elf(segments) == [valid |-> TRUE, segments |-> segments]

(* One page and an empty segment; two pages from the start of the file and *)
(* the end of a page; two pages from later in the file; three pages; a     *)
(* segment with .bss; a file that is no program.                           *)
SomePrograms ==
    { Elf(<<Seg(2, 0, 2), Seg(0, 0, 0)>>),
      Elf(<<Seg(1, 1, 3), Seg(7, 3, 1)>>),
      Elf(<<Seg(4, 2, 3)>>),
      Elf(<<Seg(1, 1, 5)>>),
      Elf(<<[Seg(2, 0, 1) EXCEPT !.memsz = 2]>>),
      [valid |-> FALSE, segments |-> << >>] }

(* The run is about processes that pass pointers to their own memory. *)
ASSUME OwnPointers == CopiesApart

Kernel == 0
ThreeProcesses == 1 .. 3
=============================================================================
