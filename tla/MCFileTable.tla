---------------------------- MODULE MCFileTable ----------------------------
(* Small instance of FileTable: two directories' worth of paths, one of    *)
(* them nested, and room for all but one of them.                          *)
EXTENDS FileTable

MCPaths == {<< >>, <<"a">>, <<"b">>, <<"a", "a">>, <<"a", "b">>}
=============================================================================
