------------------------------ MODULE MCClients ------------------------------
(* Small instance of Clients: one handle over two mounts. *)
EXTENDS Clients

Dir(p)  == [path |-> p, dir |-> TRUE]
Leaf(p) == [path |-> p, dir |-> FALSE]

MCPaths == {<< >>, <<"a">>, <<"a", "a">>, <<"a", "b">>}

MCContents == {<<Dir(<<"a">>), Leaf(<<"a", "a">>)>>, <<Leaf(<<"a">>)>>}

MCCreated == {Leaf(<<"a", "a">>), Dir(<<"a", "b">>)}

MCRegistered == {<<"a", "b">>}
=============================================================================
