-------------------------------- MODULE MCVm --------------------------------
(***************************************************************************)
(* Programs for Vm: one segment; a second segment that ends below the      *)
(* first; one that is not page-aligned; one larger in the file than in     *)
(* memory.                                                                 *)
(***************************************************************************)
EXTENDS Vm

Seg(vaddr, memsz, filesz) == [vaddr |-> vaddr, memsz |-> memsz, filesz |-> filesz]
SmallPrograms == {<<Seg(0, 3, 2)>>, <<Seg(4, 4, 4), Seg(0, 2, 2)>>,
                  <<Seg(0, 2, 2), Seg(5, 1, 1)>>, <<Seg(0, 2, 3)>>}
SmallIncrements == {-10, -4, 6}
=============================================================================
