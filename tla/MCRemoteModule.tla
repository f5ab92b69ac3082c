--------------------------- MODULE MCRemoteModule ---------------------------
(* Small instance of RemoteModule: a file and a string table that are a     *)
(* byte too long for a message, and a file table that just fits.            *)
EXTENDS RemoteModule

CONSTANT f

MCFiles == {f}

MCSize == [i \in Items |-> CASE i = f -> 131049
                            [] i = FileTable -> 131056
                            [] i = StringTable -> 131057]
=============================================================================
