---------------------------- MODULE MCFileNames ----------------------------
(* Small instance of FileNames: seven paths, some with the same name, one   *)
(* that ends in a slash, and one whose name is longer than a new string     *)
(* table.                                                                   *)
EXTENDS FileNames

MCHashes == 0 .. 6

MCNames == {"", "a", "bb", "ddddd"}

MCLength == [n \in MCNames |-> CASE n = "" -> 0 [] n = "a" -> 1 [] n = "bb" -> 2 [] OTHER -> 5]

MCNameOf == [h \in MCHashes |-> CASE h \in {3, 6} -> "" [] h \in {0, 5} -> "a"
                                  [] h \in {1, 4} -> "bb" [] OTHER -> "ddddd"]
=============================================================================
