----------------------------- MODULE FileNames -----------------------------
(***************************************************************************)
(* The allocation of a file in FileTable, over its index and its string    *)
(* table: a file gets an id, an entry under the hash of its path and a     *)
(* copy of its name.                                                       *)
(***************************************************************************)
EXTENDS HashFileTable

CONSTANTS
  NameOf,                    \* the last component of the path with each hash
  Names, Length, InitialStrings, End, Junk   \* as in StringTable

VARIABLES
  memory, capacity, allocated, overrun,      \* m_StringTable
  nameAt            \* m_NameStringID of each file

Strings == INSTANCE StringTable

allVars == <<vars, Strings!vars, nameAt>>

(* The root directory has no name. *)
ASSUME FileNamesAssumption ==
  /\ Strings!StringTableAssumption
  /\ NameOf \in [Hashes -> Names]
  /\ Length[NameOf[RootHash]] = 0

NamesInit ==
  /\ Init
  /\ Strings!Init
  /\ nameAt = [id \in 1 .. 1 |-> 0]

(* AllocNewFile(ParentID, PathHash, FName). *)
AllocNewFile(h) ==
  /\ ~overrun
  /\ AllocFile(h) \/ AllocLastFile(h)
  /\ Strings!Alloc(NameOf[h])
  /\ nameAt' = [id \in 1 .. ftAllocated' - 1 |->
                  IF id = ftAllocated THEN Strings!IndexOf(NameOf[h]) ELSE nameAt[id]]

Reserve(n) ==
  /\ ~overrun
  /\ EnsureReserve(n)
  /\ UNCHANGED <<memory, capacity, allocated, overrun, nameAt>>

NamesNext ==
  \/ \E h \in Hashes : AllocNewFile(h)
  \/ \E n \in 1 .. MaxReserve : Reserve(n)

NamesSpec == NamesInit /\ [][NamesNext]_allVars

-----------------------------------------------------------------------------
(* GetFileName returns the name a file was created with, through every     *)
(* growth of the table, until a name overruns it; and the name that does is *)
(* as long as the table was when it was new, so names that are shorter      *)
(* never add up to an overrun.                                              *)
NamesReadBack ==
  IF overrun
  THEN ~crashed => Length[NameOf[fileHash[ftAllocated - 1]]] >= InitialStrings
  ELSE \A id \in 1 .. ftAllocated - 1 : Strings!Reads(nameAt[id], NameOf[fileHash[id]])
=============================================================================
