----------------------------- MODULE PathIndex -----------------------------
(***************************************************************************)
(* What the path index promises the file table: a partial, injective map   *)
(* from path hashes to file ids that starts with the root and only grows.  *)
(* A hash, once bound, keeps its file for ever.                            *)
(***************************************************************************)
CONSTANTS
  Hashes,     \* the path hashes
  RootHash,   \* the hash of "/"
  FileIDs     \* the ids files may get; the root has id 1

VARIABLE index

Init == index = [h \in {RootHash} |-> 1]

Bind(h, id) ==
  /\ h \notin DOMAIN index
  /\ id \notin {index[g] : g \in DOMAIN index}
  /\ index' = [g \in DOMAIN index \cup {h} |-> IF g = h THEN id ELSE index[g]]

Next == \E h \in Hashes, id \in FileIDs : Bind(h, id)

Spec == Init /\ [][Next]_index
=============================================================================
