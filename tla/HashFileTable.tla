--------------------------- MODULE HashFileTable ---------------------------
(***************************************************************************)
(* HashFileTable, the sorted array that finds a file by the hash of its    *)
(* path, together with the part of FileTable that hands out file ids and   *)
(* grows both tables.  Add writes one element past the entries it keeps,   *)
(* and the two tables count their entries differently (the file table also *)
(* counts the reserved id 0), so memory safety rests on both growing in    *)
(* step.  The initial state is the one FileTable's constructor leaves: the *)
(* root directory has id 1 and is the only entry of the index.             *)
(***************************************************************************)
EXTENDS Integers

CONSTANTS
  Hashes,           \* path hashes
  RootHash,         \* the hash of "/"
  InitialCapacity,  \* Settings::Initial::FileTableSize (1024)
  IdSpace,          \* number of values of the uint16_t FileID (65536)
  FileLimit,        \* bound: no file is allocated once this many ids are used
  MaxReserve        \* bound: the largest EnsureReserve request

ASSUME HashFileTableAssumption ==
  /\ Hashes \subseteq Nat
  /\ RootHash \in Hashes
  /\ InitialCapacity \in Nat /\ InitialCapacity >= 2
  /\ IdSpace \in Nat /\ IdSpace > InitialCapacity
  /\ FileLimit \in Nat /\ FileLimit <= IdSpace
  /\ MaxReserve \in Nat

VARIABLES
  entry,            \* m_HashTable and m_FileIDTable, swapped in lockstep
  htAllocated,      \* HashFileTable::m_Allocated
  htCapacity,       \* HashFileTable::m_Capacity
  ftAllocated,      \* FileTable::m_Allocated
  ftCapacity,       \* FileTable::m_Capacity
  fileHash,         \* File::m_Hash of each file
  touched,          \* the largest index of the arrays the last Add used
  written,          \* the entry of m_FileTable the last AllocNewFile cleared
  crashed           \* the parent of a new file was looked up and not found

vars == <<entry, htAllocated, htCapacity, ftAllocated, ftCapacity,
          fileHash, touched, written, crashed>>

Entry == [hash : Nat, fid : Nat]

Blank == [hash |-> 0, fid |-> 0]

TypeOK ==
  /\ htCapacity \in Nat /\ ftCapacity \in Nat
  /\ htAllocated \in Nat /\ ftAllocated \in Nat
  /\ entry \in [0 .. htCapacity - 1 -> Entry]
  /\ fileHash \in [1 .. ftAllocated - 1 -> Hashes]
  /\ touched \in Nat /\ written \in Nat
  /\ crashed \in BOOLEAN

Init ==
  /\ entry = [i \in 0 .. InitialCapacity - 1 |->
                IF i = 0 THEN [hash |-> RootHash, fid |-> 1] ELSE Blank]
  /\ htAllocated = 1
  /\ htCapacity = InitialCapacity
  /\ ftAllocated = 2
  /\ ftCapacity = InitialCapacity
  /\ fileHash = [id \in 1 .. 1 |-> RootHash]
  /\ touched = 0
  /\ written = 1
  /\ crashed = FALSE

-----------------------------------------------------------------------------
(* std::lower_bound over the entries in use: the first whose hash is not   *)
(* below h, or the end.                                                    *)
LowerBound(tab, h) ==
  CHOOSE p \in 0 .. htAllocated :
    /\ p = htAllocated \/ h <= tab[p].hash
    /\ \A i \in 0 .. p - 1 : tab[i].hash < h

Lookup(h) ==
  LET p == LowerBound(entry, h)
  IN  IF p = htAllocated \/ entry[p].hash # h THEN 0 ELSE entry[p].fid

(* Faulty: room is made for one file too few. *)
CapacityForLess(n) ==
  LET wanted == (ftAllocated + n - 1) % IdSpace
  IN  IF wanted <= ftCapacity THEN ftCapacity ELSE wanted

(* EnsureCapacity(n), as the capacity Realloc leaves.  The request is cut  *)
(* to the width of a FileID, and a request that is not larger is ignored.  *)
CapacityFor(n) ==
  LET wanted == (ftAllocated + n) % IdSpace
  IN  IF ftAllocated + n < ftCapacity \/ wanted <= ftCapacity
      THEN ftCapacity
      ELSE wanted

(* Faulty: the last entry is not copied. *)
ResizedShort(cap) ==
  IF cap <= htCapacity THEN entry
  ELSE [i \in 0 .. cap - 1 |-> IF i < htAllocated - 1 THEN entry[i] ELSE Blank]

(* Resize copies the entries in use into zeroed memory. *)
Resized(cap) ==
  IF cap <= htCapacity THEN entry
  ELSE [i \in 0 .. cap - 1 |-> IF i < htAllocated THEN entry[i] ELSE Blank]

(* Faulty: the swaps stop one place early and entry p is overwritten. *)
InsertedOver(tab, p, new) ==
  [i \in DOMAIN tab |->
     IF i = p THEN new
     ELSE IF p + 1 < i /\ i <= htAllocated + 1 THEN tab[i - 1]
     ELSE tab[i]]

(* The swaps of Add, from one past the end down to p: the net effect is to *)
(* move every entry from p on one place up (SwapLoopInserts below).        *)
Inserted(tab, p, new) ==
  [i \in DOMAIN tab |->
     IF i = p THEN new
     ELSE IF p < i /\ i <= htAllocated + 1 THEN tab[i - 1]
     ELSE tab[i]]

(* Add takes an entry with the same id or the same hash for a collision    *)
(* and drops the new one; it looks at the place found even if that is the  *)
(* end, where the memory is zero.                                          *)
Collides(tab, p, id, h) == tab[p].fid = id \/ tab[p].hash = h

Add(tab, id, h) ==
  LET p == LowerBound(tab, h)
  IN  IF Collides(tab, p, id, h)
      THEN /\ entry' = tab
           /\ touched' = p
           /\ UNCHANGED htAllocated
      ELSE /\ entry' = Inserted(tab, p, [hash |-> h, fid |-> id])
           /\ touched' = htAllocated + 1
           /\ htAllocated' = htAllocated + 1

Grow(cap) ==
  /\ ftCapacity' = cap
  /\ htCapacity' = IF cap <= htCapacity THEN htCapacity ELSE cap

-----------------------------------------------------------------------------
(* FileTable::AllocFile for a path that is not known yet (a known one gets *)
(* its existing file and changes nothing), under a valid parent.           *)
AllocFile(h) ==
  LET id == ftAllocated
  IN  /\ ~crashed
      /\ id < FileLimit
      /\ id + 1 < IdSpace
      /\ Lookup(h) = 0
      /\ Grow(CapacityFor(1))
      /\ ftAllocated' = id + 1
      /\ written' = id
      /\ fileHash' = [i \in 1 .. id |-> IF i = id THEN h ELSE fileHash[i]]
      /\ Add(Resized(CapacityFor(1)), id, h)
      /\ UNCHANGED crashed

(* With one id left, the request for one more entry is cut to 0 and grows  *)
(* nothing, and the last id's entry is cleared all the same; the counter   *)
(* wraps to 0, no id is below it any more, and the lookup of the parent,   *)
(* which AllocNewFile does not check, fails.                               *)
AllocLastFile(h) ==
  /\ ~crashed
  /\ ftAllocated < FileLimit
  /\ ftAllocated + 1 = IdSpace
  /\ Lookup(h) = 0
  /\ ftAllocated' = (ftAllocated + 1) % IdSpace
  /\ written' = ftAllocated
  /\ crashed' = TRUE
  /\ fileHash' = [i \in 1 .. ftAllocated' - 1 |-> fileHash[i]]
  /\ Grow(CapacityFor(1))
  /\ entry' = Resized(CapacityFor(1))
  /\ UNCHANGED <<htAllocated, touched>>

(* FileTableInterface::EnsureReserve. *)
EnsureReserve(n) ==
  /\ ~crashed
  /\ Grow(CapacityFor(n))
  /\ entry' = Resized(CapacityFor(n))
  /\ UNCHANGED <<htAllocated, ftAllocated, fileHash, touched, written, crashed>>

Next ==
  \/ \E h \in Hashes : AllocFile(h) \/ AllocLastFile(h)
  \/ \E n \in 1 .. MaxReserve : EnsureReserve(n)

Spec == Init /\ [][Next]_vars

-----------------------------------------------------------------------------
(* The entries are in strictly ascending order of hash, which is what      *)
(* std::lower_bound relies on.                                             *)
IndexSorted ==
  \A i, j \in 0 .. htAllocated - 1 : i < j => entry[i].hash < entry[j].hash

(* The two tables grow in step, by the file table's counters alone: the    *)
(* insertion's extra element and the entry of each new file are inside the *)
(* memory the last Realloc allocated.  The one exception is the last file  *)
(* id: the entry AllocNewFile clears for it is past the end of the file    *)
(* table, however often the table has grown (FirstEntryReserved below is   *)
(* the other half of that defect).                                         *)
AccessInBounds ==
  /\ touched < htCapacity
  /\ htAllocated < htCapacity
  /\ IF written = IdSpace - 1 THEN written >= ftCapacity ELSE written < ftCapacity

(* Every file is found under the hash it was created with, so opening a    *)
(* path and registering it again reach the same file: no insertion hides   *)
(* or overwrites an entry, and Add never meets the collision it drops.     *)
EveryFileFound ==
  \A id \in 1 .. ftAllocated - 1 : Lookup(fileHash[id]) = id

(* Faulty: the loop's bound is one too high. *)
SwapLoopShort(tab, p) ==
  LET Swap(t, a, b) == [t EXCEPT ![a] = t[b], ![b] = t[a]]
      Loop[m \in 0 .. htAllocated + 1] ==
        IF m = htAllocated + 1 THEN Swap(tab, m, m - 1)
        ELSE IF m > p + 1 THEN Swap(Loop[m + 1], m, m - 1)
        ELSE Loop[m + 1]
  IN  Loop[1]

(* The swap loop of Add, run literally, against the insertion modelled. *)
SwapLoop(tab, p) ==
  LET Swap(t, a, b) == [t EXCEPT ![a] = t[b], ![b] = t[a]]
      Loop[m \in 0 .. htAllocated + 1] ==
        IF m = htAllocated + 1 THEN Swap(tab, m, m - 1)
        ELSE IF m >= p + 1 THEN Swap(Loop[m + 1], m, m - 1)
        ELSE Loop[m + 1]
  IN  Loop[1]

(* Wherever the next entry goes, swapping down and then writing place p    *)
(* shifts exactly the entries from p on.                                   *)
SwapLoopInserts ==
  htAllocated + 1 < htCapacity =>
    \A p \in 0 .. htAllocated :
      [SwapLoop(entry, p) EXCEPT ![p] = [hash |-> 0, fid |-> FileLimit]] =
      Inserted(entry, p, [hash |-> 0, fid |-> FileLimit])

(* The first entry of the file table is reserved: id 0 is never handed out *)
(* and the root stays a known file.                                        *)
FirstEntryReserved == ftAllocated >= 1

Index == INSTANCE PathIndex
           WITH index <- [h \in {g \in Hashes : Lookup(g) # 0} |-> Lookup(h)],
                FileIDs <- 1 .. FileLimit

(* The sorted array implements a map that only grows. *)
ImplementsPathIndex == Index!Spec
=============================================================================
