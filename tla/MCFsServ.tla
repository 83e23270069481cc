------------------------------ MODULE MCFsServ ------------------------------
EXTENDS FsServ

MCHost == <<[in |-> 0, name |-> "a", type |-> "reg", size |-> 2, data |-> <<5>>]>>
MCNames == {<<"a">>, <<"x">>}
=============================================================================
