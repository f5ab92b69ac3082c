------------------------------ MODULE MCStarVFS ------------------------------
(* Small instances of StarVFS: contents that overlay each other with the    *)
(* same directory, and with a file where the other has a directory.         *)
EXTENDS StarVFS

Dir(p)  == [path |-> p, dir |-> TRUE]
Leaf(p) == [path |-> p, dir |-> FALSE]

MCPaths == {<< >>, <<"a">>, <<"a", "a">>, <<"a", "b">>}

MCContents == {<<Dir(<<"a">>)>>, <<Dir(<<"a">>), Leaf(<<"a", "a">>)>>, <<Leaf(<<"a">>)>>}

=============================================================================
