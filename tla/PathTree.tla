------------------------------ MODULE PathTree ------------------------------
(***************************************************************************)
(* What listing the virtual file system recursively promises: the paths    *)
(* shown form a tree, they never disappear (deleted files are skipped by   *)
(* the callback, not by the walk), and a path appears only below a path    *)
(* that is already shown.                                                  *)
(***************************************************************************)
CONSTANTS
  Paths,       \* the paths in use
  Root,        \* the path of the root directory
  Parent(_)    \* the path of the directory a path is in

VARIABLE shown

Init == shown = {Root}

Appear(p) ==
  /\ p \notin shown
  /\ Parent(p) \in shown
  /\ shown' = shown \cup {p}

Next == \E p \in Paths : Appear(p)

Spec == Init /\ [][Next]_shown
=============================================================================
