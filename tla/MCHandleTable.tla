--------------------------- MODULE MCHandleTable ---------------------------
(* Small instance of HandleTable: three objects, three slots, a generation *)
(* counter that wraps after two closes.                                    *)
EXTENDS HandleTable, TLC

MCFileIDs == 1 .. 2

MCSymmetry == Permutations(Handles)
=============================================================================
