-------------------------- MODULE MCHashFileTable --------------------------
(* Small instances of HashFileTable. *)
EXTENDS HashFileTable

MCHashes == 0 .. 6
=============================================================================
