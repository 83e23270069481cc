-------------------------------- MODULE MCFs --------------------------------
EXTENDS Fs

Reg(in, name, size, data) == [in |-> in, name |-> name, type |-> "reg", size |-> size, data |-> data]
Dir(in, name) == [in |-> in, name |-> name, type |-> "dir", size |-> 0, data |-> <<>>]

\* A file that needs an indirect block, in a directory and beside a small one;
\* both images fill the disk.
MCHosts == {<<Dir(0, "d"), Reg(1, "a", 3, <<5, 6>>)>>,
            <<Reg(0, "a", 3, <<5, 6>>), Reg(0, "b", 1, <<7>>)>>}
=============================================================================
