------------------------------ MODULE MCSpawn -------------------------------
EXTENDS Spawn

\* Loads whose parts below the first page boundary elf_load_seg keeps, from
\* page 1 on, sizes around the page's.
SomeLoads == {ph \in [type : {"load"}, vaddr : {32, 40}, filesz : {0, 1, 24, 31, 32, 33, 64},
                  memsz : {1, 24, 32, 33, 65}, flags : {"rx"}] :
            /\ ph.filesz <= ph.memsz
            /\ ph.vaddr % BY2PG = 0 \/ ph.filesz = ph.memsz \/ ph.filesz >= BY2PG - (ph.vaddr % BY2PG)}
Data == [type |-> "load", vaddr |-> 160, filesz |-> 5, memsz |-> 70, flags |-> "rw"]
Note == [type |-> "note", vaddr |-> 0, filesz |-> 0, memsz |-> 0, flags |-> "r"]

MCPrograms == {<<Note, ph, Data>> : ph \in SomeLoads}

MCArgvs == {<<>>, <<0>>, <<3>>, <<2, 1>>, <<0, 4, 0>>, <<0, 0, 0, 0>>, <<1, 0, 0, 0>>, <<8, 2>>, <<7, 4>>}
=============================================================================
