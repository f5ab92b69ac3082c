-------------------------- MODULE FileNamesProofs --------------------------
(***************************************************************************)
(* Proofs about HashFileTable, for every set of hashes, every capacity and *)
(* every width of a file id, and about the names FileNames keeps for its   *)
(* files, for every string table.                                          *)
(***************************************************************************)
EXTENDS FileNames, WellFoundedInduction, TLAPS

(* The file table and its index grow together: the index holds one entry   *)
(* less, because id 0 is counted by the file table only.                   *)
Coupled ==
  /\ ~crashed
  /\ htAllocated + 1 = ftAllocated
  /\ htAllocated >= 1
  /\ htCapacity = ftCapacity
  /\ ftAllocated <= ftCapacity
  /\ ftCapacity < IdSpace

(* Memory past the entries in use is still zero, so the look Add takes at  *)
(* the end of the array cannot be mistaken for a collision.                *)
TailBlank == \A i \in htAllocated .. htCapacity - 1 : entry[i] = Blank

(* Every entry belongs to a file, and every file has an entry. *)
EntriesAreFiles ==
  \A i \in 0 .. htAllocated - 1 :
    /\ entry[i].fid \in 1 .. ftAllocated - 1
    /\ entry[i].hash = fileHash[entry[i].fid]

FilesHaveEntries ==
  \A id \in 1 .. ftAllocated - 1 :
    \E i \in 0 .. htAllocated - 1 : entry[i].hash = fileHash[id] /\ entry[i].fid = id

IInv ==
  /\ TypeOK
  /\ Coupled
  /\ TailBlank
  /\ EntriesAreFiles
  /\ FilesHaveEntries
  /\ IndexSorted
  /\ touched < htCapacity
  /\ written < ftCapacity

(* What is left when the last file id was handed out: its entry was        *)
(* cleared past the end of the file table, the counter is 0, no file is    *)
(* known, and the index is as the last Add left it.                        *)
Wrapped ==
  /\ crashed
  /\ ftAllocated = 0
  /\ ftCapacity \in Nat /\ ftCapacity < IdSpace /\ written = IdSpace - 1
  /\ htAllocated \in Nat /\ htCapacity \in Nat
  /\ entry \in [0 .. htCapacity - 1 -> Entry]
  /\ htAllocated < htCapacity
  /\ touched < htCapacity
  /\ IndexSorted

Invariant == Wrapped \/ IInv

-----------------------------------------------------------------------------
(* A non-empty set of naturals has a least element. *)
LEMMA LeastNat ==
  ASSUME NEW S \in SUBSET Nat, S # {}
  PROVE  \E n \in S : \A m \in S : n <= m
<1>1. PICK n \in S : \A m \in S : <<m, n>> \notin OpToRel(<, Nat)
  BY NatLessThanWellFounded, WFMin
<1>2. \A m \in S : ~(m < n)
  BY <1>1 DEF OpToRel
<1> QED BY <1>2

(* The binary search of Add and Lookup has a result on every array. *)
LEMMA LowerBoundProp ==
  ASSUME htAllocated \in Nat, NEW h \in Nat, NEW tab,
         \A i \in 0 .. htAllocated - 1 : tab[i].hash \in Nat
  PROVE  /\ LowerBound(tab, h) \in 0 .. htAllocated
         /\ LowerBound(tab, h) = htAllocated \/ h <= tab[LowerBound(tab, h)].hash
         /\ \A i \in 0 .. LowerBound(tab, h) - 1 : tab[i].hash < h
<1> DEFINE S == {p \in 0 .. htAllocated : p = htAllocated \/ h <= tab[p].hash}
<1>1. S \in SUBSET Nat /\ htAllocated \in S
  OBVIOUS
<1>2. PICK p \in S : \A m \in S : p <= m
  BY <1>1, LeastNat
<1>3. \A i \in 0 .. p - 1 : tab[i].hash < h
  <2> SUFFICES ASSUME NEW i \in 0 .. p - 1 PROVE tab[i].hash < h
    OBVIOUS
  <2>1. i \notin S /\ i \in 0 .. htAllocated - 1
    BY <1>2
  <2> QED BY <2>1
<1>4. \E q \in 0 .. htAllocated :
        /\ q = htAllocated \/ h <= tab[q].hash
        /\ \A i \in 0 .. q - 1 : tab[i].hash < h
  BY <1>2, <1>3
<1> QED BY <1>4 DEF LowerBound

(* In a sorted array, Lookup finds exactly the hashes that are there. *)
LEMMA LookupSpec ==
  IInv => /\ \A i \in 0 .. htAllocated - 1 : Lookup(entry[i].hash) = entry[i].fid
          /\ \A h \in Nat :
               Lookup(h) = 0 <=> \A i \in 0 .. htAllocated - 1 : entry[i].hash # h
<1> SUFFICES ASSUME IInv
             PROVE  /\ \A i \in 0 .. htAllocated - 1 : Lookup(entry[i].hash) = entry[i].fid
                    /\ \A h \in Nat :
                         Lookup(h) = 0 <=> \A i \in 0 .. htAllocated - 1 : entry[i].hash # h
  OBVIOUS
<1>1. /\ htAllocated \in Nat
      /\ \A i \in 0 .. htAllocated - 1 : entry[i] \in Entry
      /\ \A i \in 0 .. htAllocated - 1 : entry[i].fid # 0
  BY DEF IInv, TypeOK, Coupled, EntriesAreFiles
<1>2. \A i \in 0 .. htAllocated - 1 : entry[i].hash \in Nat
  BY <1>1 DEF Entry
<1>3. ASSUME NEW i \in 0 .. htAllocated - 1
      PROVE  Lookup(entry[i].hash) = entry[i].fid
  <2> DEFINE h == entry[i].hash
             p == LowerBound(entry, h)
  <2>1. /\ p \in 0 .. htAllocated
        /\ p = htAllocated \/ h <= entry[p].hash
        /\ \A k \in 0 .. p - 1 : entry[k].hash < h
    BY <1>1, <1>2, LowerBoundProp
  <2>2. ~(i < p)
    BY <1>2, <2>1
  <2>3. ~(p < i)
    <3> SUFFICES ASSUME p < i PROVE FALSE
      OBVIOUS
    <3>1. p \in 0 .. htAllocated - 1 /\ entry[p].hash < entry[i].hash
      BY <1>1, <2>1 DEF IInv, IndexSorted
    <3> QED BY <3>1, <2>1, <1>2
  <2>4. p = i
    BY <1>1, <2>1, <2>2, <2>3
  <2> QED BY <2>4, <1>1 DEF Lookup
<1>4. ASSUME NEW h \in Nat, \A i \in 0 .. htAllocated - 1 : entry[i].hash # h
      PROVE  Lookup(h) = 0
  <2>1. LowerBound(entry, h) \in 0 .. htAllocated
    BY <1>1, <1>2, LowerBoundProp
  <2> QED BY <2>1, <1>1, <1>4 DEF Lookup
<1> QED BY <1>1, <1>3, <1>4

(* Growing the index keeps its entries and adds blank memory. *)
LEMMA ResizedProp ==
  ASSUME IInv, NEW cap \in Nat, cap >= htCapacity
  PROVE  /\ Resized(cap) \in [0 .. cap - 1 -> Entry]
         /\ \A i \in 0 .. htAllocated - 1 : Resized(cap)[i] = entry[i]
         /\ \A i \in htAllocated .. cap - 1 : Resized(cap)[i] = Blank
<1>1. /\ htAllocated \in Nat /\ htAllocated < htCapacity /\ htCapacity \in Nat
      /\ entry \in [0 .. htCapacity - 1 -> Entry]
      /\ Blank \in Entry
  BY DEF IInv, TypeOK, Coupled, Blank, Entry
<1>2. CASE cap = htCapacity
  BY <1>1, <1>2 DEF Resized, IInv, TailBlank
<1>3. CASE cap > htCapacity
  <2>1. Resized(cap) =
          [i \in 0 .. cap - 1 |-> IF i < htAllocated THEN entry[i] ELSE Blank]
    BY <1>1, <1>3 DEF Resized
  <2>2. \A i \in 0 .. cap - 1 : i < htAllocated => entry[i] \in Entry
    BY <1>1
  <2> QED BY <1>1, <1>3, <2>1, <2>2
<1> QED BY <1>1, <1>2, <1>3

(* The capacity EnsureCapacity leaves never shrinks, and makes room for    *)
(* one more file while ids are left.                                       *)
LEMMA CapacityForProp ==
  ASSUME IInv, NEW n \in Nat
  PROVE  /\ CapacityFor(n) \in Nat
         /\ CapacityFor(n) >= ftCapacity
         /\ CapacityFor(n) < IdSpace
         /\ ftAllocated + n < IdSpace => CapacityFor(n) >= ftAllocated + n
<1> DEFINE wanted == (ftAllocated + n) % IdSpace
<1>1. /\ IdSpace \in Nat \ {0}
      /\ ftAllocated \in Nat /\ ftCapacity \in Nat /\ ftCapacity < IdSpace
  BY HashFileTableAssumption DEF IInv, TypeOK, Coupled
<1>2. wanted \in Nat /\ wanted < IdSpace
  BY <1>1
<1>3. ftAllocated + n < IdSpace => wanted = ftAllocated + n
  BY <1>1
<1> HIDE DEF wanted
<1>4. CapacityFor(n) = IF ftAllocated + n < ftCapacity \/ wanted <= ftCapacity
                       THEN ftCapacity ELSE wanted
  BY DEF CapacityFor, wanted
<1> QED BY <1>1, <1>2, <1>3, <1>4

-----------------------------------------------------------------------------
(* The constructor's state: the root is the one file and the one entry. *)
LEMMA InitInv == Init => IInv
<1> SUFFICES ASSUME Init PROVE IInv
  OBVIOUS
<1> USE HashFileTableAssumption
<1>1. TypeOK
  <2>1. RootHash \in Nat /\ Blank \in Entry
    BY DEF Blank, Entry
  <2>2. entry \in [0 .. htCapacity - 1 -> Entry]
    BY <2>1 DEF Init, Entry
  <2>3. fileHash \in [1 .. ftAllocated - 1 -> Hashes]
    BY DEF Init
  <2> QED BY <2>2, <2>3 DEF Init, TypeOK
<1>2. \A i \in 0 .. htAllocated - 1 : i = 0
  BY DEF Init
<1>3. entry[0] = [hash |-> RootHash, fid |-> 1]
  BY DEF Init
<1>4. TailBlank
  BY DEF Init, TailBlank
<1>5. EntriesAreFiles /\ FilesHaveEntries /\ IndexSorted
  <2>1. fileHash[1] = RootHash
    BY DEF Init
  <2> QED BY <1>2, <1>3, <2>1 DEF Init, EntriesAreFiles, FilesHaveEntries, IndexSorted
<1>6. Coupled /\ touched < htCapacity /\ written < ftCapacity
  BY DEF Init, Coupled
<1> QED BY <1>1, <1>4, <1>5, <1>6 DEF IInv

(* A file whose path has no entry yet gets one at its place in the order. *)
LEMMA AllocFileInv ==
  ASSUME IInv, NEW h \in Hashes, AllocFile(h)
  PROVE  IInv'
<1> DEFINE id  == ftAllocated
           n   == htAllocated
           cap == CapacityFor(1)
           tab == Resized(cap)
           p   == LowerBound(tab, h)
           new == [hash |-> h, fid |-> id]
<1>1. /\ n \in Nat /\ n >= 1 /\ id = n + 1 /\ id \in Nat
      /\ htCapacity \in Nat /\ ftCapacity = htCapacity /\ ~crashed
      /\ id <= htCapacity
      /\ h \in Nat /\ new \in Entry /\ Blank \in Entry
  BY HashFileTableAssumption DEF IInv, TypeOK, Coupled, Entry, Blank
<1>2. cap \in Nat /\ cap >= htCapacity /\ cap >= n + 2 /\ cap < IdSpace
  BY <1>1, CapacityForProp, HashFileTableAssumption DEF AllocFile
<1>3. /\ tab \in [0 .. cap - 1 -> Entry]
      /\ \A i \in 0 .. n - 1 : tab[i] = entry[i]
      /\ \A i \in n .. cap - 1 : tab[i] = Blank
  BY <1>2, ResizedProp
<1>4. \A i \in 0 .. n - 1 : /\ entry[i] \in Entry /\ entry[i].hash \in Nat
                            /\ entry[i].fid \in 1 .. id - 1
                            /\ entry[i].hash # h
  <2>1. \A i \in 0 .. n - 1 : entry[i] \in Entry /\ entry[i].fid \in 1 .. id - 1
    BY <1>1 DEF IInv, TypeOK, EntriesAreFiles
  <2>2. \A i \in 0 .. n - 1 : entry[i].hash # h
    BY <1>1, LookupSpec DEF AllocFile
  <2> QED BY <2>1, <2>2 DEF Entry
<1> HIDE DEF cap, tab
<1>5. /\ p \in 0 .. n
      /\ p = n \/ h <= tab[p].hash
      /\ \A i \in 0 .. p - 1 : tab[i].hash < h
  BY <1>1, <1>3, <1>4, LowerBoundProp
<1> HIDE DEF p
<1>6. ~Collides(tab, p, id, h)
  <2>1. CASE p < n
    BY <2>1, <1>1, <1>3, <1>4, <1>5 DEF Collides
  <2>2. CASE p = n
    <3>1. tab[p] = Blank /\ tab[0] = entry[0] /\ tab[0].hash < h
      BY <2>2, <1>1, <1>2, <1>3, <1>5
    <3>2. entry[0].hash \in Nat
      BY <1>1, <1>4
    <3> QED BY <3>1, <3>2, <1>1 DEF Collides, Blank
  <2> QED BY <2>1, <2>2, <1>1, <1>5
<1>7. /\ entry' = Inserted(tab, p, new)
      /\ touched' = n + 1
      /\ htAllocated' = n + 1
      /\ ftAllocated' = id + 1
      /\ written' = id
      /\ ftCapacity' = cap
      /\ htCapacity' = cap
      /\ fileHash' = [i \in 1 .. id |-> IF i = id THEN h ELSE fileHash[i]]
      /\ ~crashed'
  BY <1>1, <1>2, <1>6 DEF AllocFile, Add, Grow, cap, tab, p
<1>8. /\ entry' \in [0 .. cap - 1 -> Entry]
      /\ \A i \in 0 .. p - 1 : entry'[i] = entry[i]
      /\ entry'[p] = new
      /\ \A i \in p + 1 .. n : entry'[i] = entry[i - 1]
      /\ \A i \in n + 1 .. cap - 1 : entry'[i] = Blank
  <2>1. DOMAIN tab = 0 .. cap - 1
    BY <1>3
  <2>2. entry' = [i \in 0 .. cap - 1 |->
                    IF i = p THEN new
                    ELSE IF p < i /\ i <= n + 1 THEN tab[i - 1]
                    ELSE tab[i]]
    BY <1>7, <2>1 DEF Inserted
  <2>3. \A i \in 0 .. cap - 1 : tab[i] \in Entry
    BY <1>3
  <2>4. \A i \in 0 .. cap - 1 : p < i => i - 1 \in 0 .. cap - 1
    BY <1>1, <1>2, <1>5
  <2>5. entry' \in [0 .. cap - 1 -> Entry]
    BY <2>2, <2>3, <2>4, <1>1
  <2>6. p \in 0 .. cap - 1 /\ \A i \in 0 .. p - 1 : i \in 0 .. cap - 1 /\ i \in 0 .. n - 1
    BY <1>1, <1>2, <1>5
  <2>7. \A i \in 0 .. p - 1 : entry'[i] = entry[i]
    BY <2>2, <2>6, <1>3, <1>5
  <2>8. entry'[p] = new
    BY <2>2, <2>6
  <2>9. \A i \in p + 1 .. n : entry'[i] = entry[i - 1]
    <3> SUFFICES ASSUME NEW i \in p + 1 .. n PROVE entry'[i] = entry[i - 1]
      OBVIOUS
    <3>1. i \in 0 .. cap - 1 /\ i # p /\ p < i /\ i <= n + 1 /\ i - 1 \in 0 .. n - 1
      BY <1>1, <1>2, <1>5
    <3> QED BY <3>1, <2>2, <1>3
  <2>10. \A i \in n + 1 .. cap - 1 : entry'[i] = Blank
    <3> SUFFICES ASSUME NEW i \in n + 1 .. cap - 1 PROVE entry'[i] = Blank
      OBVIOUS
    <3>1. /\ i \in 0 .. cap - 1 /\ i # p /\ i \in n .. cap - 1
          /\ p < i => (i <= n + 1 => i - 1 \in n .. cap - 1)
      BY <1>1, <1>2, <1>5
    <3> QED BY <3>1, <2>2, <1>3
  <2> QED BY <2>5, <2>7, <2>8, <2>9, <2>10
<1>9. fileHash'[id] = h /\ \A k \in 1 .. id - 1 : fileHash'[k] = fileHash[k]
  BY <1>1, <1>7
<1> HIDE DEF new
<1>10. TypeOK'
  <2>1. fileHash' \in [1 .. id -> Hashes]
    BY <1>1, <1>7 DEF IInv, TypeOK
  <2>2. entry' \in [0 .. htCapacity' - 1 -> Entry]
    BY <1>7, <1>8
  <2>3. fileHash' \in [1 .. ftAllocated' - 1 -> Hashes]
    BY <2>1, <1>7, <1>1
  <2>4. /\ htCapacity' \in Nat /\ ftCapacity' \in Nat
        /\ htAllocated' \in Nat /\ ftAllocated' \in Nat
        /\ touched' \in Nat /\ written' \in Nat
    BY <1>1, <1>2, <1>7
  <2>5. crashed' \in BOOLEAN
    BY DEF AllocFile, IInv, TypeOK
  <2> QED BY <2>2, <2>3, <2>4, <2>5 DEF TypeOK
<1>11. Coupled' /\ (touched < htCapacity)' /\ (written < ftCapacity)'
  BY <1>1, <1>2, <1>7 DEF Coupled
<1>12. TailBlank'
  BY <1>1, <1>7, <1>8 DEF TailBlank
<1>13. EntriesAreFiles'
  <2> SUFFICES ASSUME NEW i \in 0 .. n
               PROVE  /\ entry'[i].fid \in 1 .. id
                      /\ entry'[i].hash = fileHash'[entry'[i].fid]
    BY <1>1, <1>7 DEF EntriesAreFiles
  <2>1. CASE i < p
    <3>1. entry'[i] = entry[i] /\ i \in 0 .. n - 1
      BY <2>1, <1>1, <1>5, <1>8
    <3> QED BY <3>1, <1>1, <1>4, <1>9 DEF IInv, EntriesAreFiles
  <2>2. CASE i = p
    BY <2>2, <1>1, <1>8, <1>9 DEF new
  <2>3. CASE i > p
    <3>1. entry'[i] = entry[i - 1] /\ i - 1 \in 0 .. n - 1
      BY <2>3, <1>1, <1>5, <1>8
    <3> QED BY <3>1, <1>1, <1>4, <1>9 DEF IInv, EntriesAreFiles
  <2> QED BY <2>1, <2>2, <2>3, <1>5
<1>14. FilesHaveEntries'
  <2> SUFFICES ASSUME NEW k \in 1 .. id
               PROVE  \E i \in 0 .. n : /\ entry'[i].hash = fileHash'[k]
                                         /\ entry'[i].fid = k
    BY <1>1, <1>7 DEF FilesHaveEntries
  <2>1. CASE k = id
    BY <2>1, <1>5, <1>8, <1>9 DEF new
  <2>2. CASE k # id
    <3>1. k \in 1 .. id - 1 /\ fileHash'[k] = fileHash[k]
      BY <2>2, <1>1, <1>9
    <3>2. PICK i \in 0 .. n - 1 : entry[i].hash = fileHash[k] /\ entry[i].fid = k
      BY <3>1 DEF IInv, FilesHaveEntries
    <3>3. CASE i < p
      <4>1. i \in 0 .. n /\ entry'[i] = entry[i]
        BY <3>3, <1>1, <1>5, <1>8
      <4> QED BY <4>1, <3>1, <3>2
    <3>4. CASE ~(i < p)
      <4>1. i + 1 \in 0 .. n /\ i + 1 \in p + 1 .. n /\ (i + 1) - 1 = i
        BY <3>4, <1>1, <1>5
      <4>2. entry'[i + 1] = entry[i]
        BY <4>1, <1>8
      <4> QED BY <4>1, <4>2, <3>1, <3>2
    <3> QED BY <3>3, <3>4
  <2> QED BY <2>1, <2>2
<1>15. IndexSorted'
  <2>1. \A i \in p .. n - 1 : h < entry[i].hash
    <3> SUFFICES ASSUME NEW i \in p .. n - 1 PROVE h < entry[i].hash
      OBVIOUS
    <3>1. p \in 0 .. n - 1 /\ i \in 0 .. n - 1
      BY <1>1, <1>5
    <3>2. h < entry[p].hash
      BY <3>1, <1>1, <1>3, <1>4, <1>5
    <3>3. p = i \/ entry[p].hash < entry[i].hash
      BY <3>1 DEF IInv, IndexSorted
    <3> QED BY <3>1, <3>2, <3>3, <1>1, <1>4
  <2>2. \A i \in 0 .. p - 1 : entry[i].hash < h
    BY <1>1, <1>3, <1>5
  <2>3. \A i, j \in 0 .. n - 1 : i < j => entry[i].hash < entry[j].hash
    BY DEF IInv, IndexSorted
  <2> SUFFICES ASSUME NEW i \in 0 .. n, NEW j \in 0 .. n, i < j
               PROVE  entry'[i].hash < entry'[j].hash
    BY <1>1, <1>7 DEF IndexSorted
  <2>4. CASE j < p
    <3>1. /\ entry'[i] = entry[i] /\ entry'[j] = entry[j]
          /\ i \in 0 .. n - 1 /\ j \in 0 .. n - 1
      BY <2>4, <1>1, <1>5, <1>8
    <3> QED BY <3>1, <2>3
  <2>5. CASE j = p
    <3>1. entry'[i] = entry[i] /\ entry'[j].hash = h /\ i \in 0 .. p - 1
      BY <2>5, <1>1, <1>5, <1>8 DEF new
    <3> QED BY <3>1, <2>2
  <2>6. CASE p < j /\ i < p
    <3>1. /\ i \in 0 .. p - 1 /\ j \in p + 1 .. n
          /\ i \in 0 .. n - 1 /\ j - 1 \in 0 .. n - 1 /\ i < j - 1
      BY <2>6, <1>1, <1>5
    <3>2. entry'[i] = entry[i] /\ entry'[j] = entry[j - 1]
      BY <3>1, <1>8
    <3> QED BY <3>1, <3>2, <2>3
  <2>7. CASE p < j /\ i = p
    <3>1. entry'[i].hash = h /\ entry'[j] = entry[j - 1] /\ j - 1 \in p .. n - 1
      BY <2>7, <1>1, <1>5, <1>8 DEF new
    <3> QED BY <3>1, <2>1
  <2>8. CASE p < i
    <3>1. /\ entry'[i] = entry[i - 1] /\ entry'[j] = entry[j - 1]
          /\ i - 1 \in 0 .. n - 1 /\ j - 1 \in 0 .. n - 1 /\ i - 1 < j - 1
      BY <2>8, <1>1, <1>5, <1>8
    <3> QED BY <3>1, <2>3
  <2> QED BY <2>4, <2>5, <2>6, <2>7, <2>8, <1>1, <1>5
<1> QED BY <1>10, <1>11, <1>12, <1>13, <1>14, <1>15 DEF IInv

(* Reserving room moves the entries to larger memory and changes none. *)
LEMMA EnsureReserveInv ==
  ASSUME IInv, NEW n \in Nat, EnsureReserve(n)
  PROVE  IInv'
<1> DEFINE cap == CapacityFor(n)
           tab == Resized(cap)
<1>1. /\ htAllocated \in Nat /\ htCapacity \in Nat /\ ftCapacity = htCapacity
      /\ htAllocated < htCapacity
  BY DEF IInv, TypeOK, Coupled
<1>2. cap \in Nat /\ cap >= htCapacity /\ cap < IdSpace
  BY <1>1, CapacityForProp
<1>3. /\ tab \in [0 .. cap - 1 -> Entry]
      /\ \A i \in 0 .. htAllocated - 1 : tab[i] = entry[i]
      /\ \A i \in htAllocated .. cap - 1 : tab[i] = Blank
  BY <1>2, ResizedProp
<1> HIDE DEF cap, tab
<1>4. /\ entry' = tab /\ ftCapacity' = cap /\ htCapacity' = cap
      /\ UNCHANGED <<htAllocated, ftAllocated, fileHash, touched, written, crashed>>
  BY <1>1, <1>2 DEF EnsureReserve, Grow, cap, tab
<1>5. TypeOK'
  BY <1>2, <1>3, <1>4 DEF IInv, TypeOK
<1>6. Coupled' /\ (touched < htCapacity)' /\ (written < ftCapacity)'
  <2>1. touched \in Nat /\ written \in Nat /\ ftAllocated \in Nat
    BY DEF IInv, TypeOK
  <2> QED BY <2>1, <1>1, <1>2, <1>4 DEF IInv, Coupled
<1>7. TailBlank'
  BY <1>3, <1>4 DEF TailBlank
<1>8. EntriesAreFiles' /\ FilesHaveEntries' /\ IndexSorted'
  BY <1>3, <1>4 DEF IInv, EntriesAreFiles, FilesHaveEntries, IndexSorted
<1> QED BY <1>5, <1>6, <1>7, <1>8 DEF IInv

(* The request that hands out the last id is cut to 0 when it is compared  *)
(* with the capacity, so no table grows and the index is as it was.        *)
LEMMA AllocLastFileWraps ==
  ASSUME IInv, NEW h \in Hashes, AllocLastFile(h)
  PROVE  /\ Wrapped'
         /\ UNCHANGED <<entry, htAllocated>>
<1>1. /\ ftAllocated \in Nat /\ ftCapacity \in Nat /\ htCapacity = ftCapacity
      /\ htAllocated \in Nat /\ htAllocated < htCapacity
      /\ touched < htCapacity /\ ftCapacity < IdSpace
      /\ htCapacity \in Nat /\ entry \in [0 .. htCapacity - 1 -> Entry]
  BY DEF IInv, TypeOK, Coupled
<1>2. ftAllocated + 1 = IdSpace /\ IdSpace \in Nat \ {0}
  BY HashFileTableAssumption DEF AllocLastFile
<1>3. (ftAllocated + 1) % IdSpace = 0
  BY <1>1, <1>2
<1>4. CapacityFor(1) = ftCapacity
  BY <1>1, <1>3 DEF CapacityFor
<1>5. /\ ftAllocated' = 0 /\ crashed' /\ written' = IdSpace - 1
      /\ htCapacity' = htCapacity /\ ftCapacity' = ftCapacity
      /\ UNCHANGED <<entry, htAllocated, touched>>
  BY <1>1, <1>2, <1>3, <1>4 DEF AllocLastFile, Grow, Resized
<1>6. entry' \in [0 .. htCapacity' - 1 -> Entry]
  BY <1>1, <1>5 DEF Entry
<1> QED BY <1>1, <1>5, <1>6 DEF Wrapped, IndexSorted, IInv

LEMMA StepInvariant == Invariant /\ [Next]_vars => Invariant'
<1> SUFFICES ASSUME Invariant, [Next]_vars PROVE Invariant'
  OBVIOUS
<1>1. ASSUME NEW h \in Hashes, AllocFile(h) PROVE Invariant'
  BY <1>1, AllocFileInv DEF AllocFile, Invariant, Wrapped
<1>2. ASSUME NEW h \in Hashes, AllocLastFile(h) PROVE Invariant'
  BY <1>2, AllocLastFileWraps DEF AllocLastFile, Invariant, Wrapped
<1>3. ASSUME NEW n \in 1 .. MaxReserve, EnsureReserve(n) PROVE Invariant'
  <2>1. n \in Nat
    BY HashFileTableAssumption
  <2> QED BY <1>3, <2>1, EnsureReserveInv DEF EnsureReserve, Invariant, Wrapped
<1>4. CASE UNCHANGED vars
  BY <1>4 DEF vars, Invariant, Wrapped, IInv, TypeOK, Coupled, TailBlank,
              EntriesAreFiles, FilesHaveEntries, IndexSorted
<1> QED BY <1>1, <1>2, <1>3, <1>4 DEF Next

(* The index and the file table agree in every reachable state, whatever   *)
(* the hashes, the capacities and the width of an id, until the ids run    *)
(* out and the counter wraps.                                              *)
THEOREM IndexInvariant == Spec => []Invariant
<1>1. Init => Invariant
  BY InitInv DEF Invariant
<1> QED BY <1>1, StepInvariant, PTL DEF Spec

(* What the invariant says of the index: it stays sorted, no array is used *)
(* past its end before the ids run out, and every file is found under its hash.                   *)
LEMMA InvImplies == IInv => IndexSorted /\ AccessInBounds /\ EveryFileFound
<1> SUFFICES ASSUME IInv PROVE AccessInBounds /\ EveryFileFound
  BY DEF IInv
<1>1. AccessInBounds
  BY HashFileTableAssumption DEF IInv, TypeOK, Coupled, AccessInBounds
<1>2. EveryFileFound
  <2> SUFFICES ASSUME NEW id \in 1 .. ftAllocated - 1 PROVE Lookup(fileHash[id]) = id
    BY DEF EveryFileFound
  <2>1. PICK i \in 0 .. htAllocated - 1 : entry[i].hash = fileHash[id] /\ entry[i].fid = id
    BY DEF IInv, FilesHaveEntries
  <2>2. Lookup(entry[i].hash) = entry[i].fid
    BY LookupSpec
  <2> QED BY <2>1, <2>2
<1> QED BY <1>1, <1>2

(* The binary search finds its way in every reachable state: the entries   *)
(* are in strictly ascending order.                                        *)
THEOREM IndexStaysSorted == Spec => []IndexSorted
<1>1. Invariant => IndexSorted
  BY DEF Invariant, Wrapped, IInv
<1> QED BY <1>1, IndexInvariant, PTL

(* The extra element of an insertion and the entry of each new file are    *)
(* inside the tables' memory, except the entry of the last id there is,    *)
(* which is always outside.                                                *)
THEOREM OnlyLastFileOutOfBounds == Spec => []AccessInBounds
<1>1. Wrapped => AccessInBounds
  <2> SUFFICES ASSUME Wrapped PROVE AccessInBounds
    OBVIOUS
  <2>1. written = IdSpace - 1 /\ IdSpace - 1 >= ftCapacity
    BY HashFileTableAssumption DEF Wrapped
  <2> QED BY <2>1 DEF Wrapped, AccessInBounds
<1>2. Invariant => AccessInBounds
  BY <1>1, InvImplies DEF Invariant
<1> QED BY <1>2, IndexInvariant, PTL

(* Every file is found under the hash of its path.                         *)
THEOREM IndexCorrect == Spec => []EveryFileFound
<1>1. Wrapped => EveryFileFound
  BY DEF Wrapped, EveryFileFound
<1>2. Invariant => EveryFileFound
  BY <1>1, InvImplies DEF Invariant
<1> QED BY <1>2, IndexInvariant, PTL

-----------------------------------------------------------------------------
(* A swap of two places of an array. *)
LEMMA Swapping ==
  ASSUME NEW D, NEW V, NEW t \in [D -> V], NEW a \in D, NEW b \in D
  PROVE  /\ [t EXCEPT ![a] = t[b], ![b] = t[a]] \in [D -> V]
         /\ \A i \in D : [t EXCEPT ![a] = t[b], ![b] = t[a]][i] =
                           IF i = b THEN t[a] ELSE IF i = a THEN t[b] ELSE t[i]
OBVIOUS

(* f and g agree at n, and at m if they do at m + 1. *)
AgreeDownwards(f, g, n) ==
  \A m \in 0 .. n : (m = n \/ f[m + 1] = g[m + 1]) => f[m] = g[m]

(* Induction downwards: they agree everywhere. *)
LEMMA OnlyOne ==
  ASSUME NEW n \in Nat, NEW f, NEW g, AgreeDownwards(f, g, n)
  PROVE  \A m \in 0 .. n : f[m] = g[m]
<1> DEFINE T == {k \in 0 .. n : f[n - k] # g[n - k]}
<1> SUFFICES ASSUME NEW m \in 0 .. n, f[m] # g[m] PROVE FALSE
  OBVIOUS
<1>1. n - m \in T
  <2>1. n - (n - m) = m
    OBVIOUS
  <2> QED BY <2>1
<1>2. PICK k \in T : \A j \in T : k <= j
  <2>1. T \subseteq 0 .. n /\ 0 .. n \subseteq Nat
    OBVIOUS
  <2>2. T \in SUBSET Nat /\ T # {}
    <3> HIDE DEF T
    <3> QED BY <1>1, <2>1
  <2> HIDE DEF T
  <2> QED BY <2>2, LeastNat
<1>3. n - k \in 0 .. n /\ f[n - k] # g[n - k]
  BY <1>2
<1>4. n - k # n /\ f[n - k + 1] # g[n - k + 1]
  BY <1>3 DEF AgreeDownwards
<1>5. k - 1 \in 0 .. n /\ n - (k - 1) = n - k + 1
  BY <1>3, <1>4
<1>6. k - 1 \in T
  BY <1>3, <1>4, <1>5
<1> QED BY <1>2, <1>6

(* The element behind the last entry is at place p, and all between have   *)
(* moved one place up.                                                     *)
Rotated(tab, p) ==
  [i \in DOMAIN tab |-> IF i = p THEN tab[htAllocated + 1]
                        ELSE IF p < i /\ i <= htAllocated + 1 THEN tab[i - 1]
                        ELSE tab[i]]

(* The swap loop of Add does that, whatever the array and the place.       *)
LEMMA SwapLoopShifts ==
  ASSUME NEW c \in Nat, NEW V, NEW tab \in [0 .. c - 1 -> V],
         htAllocated \in Nat, htAllocated + 1 < c, NEW p \in 0 .. htAllocated
  PROVE  SwapLoop(tab, p) = Rotated(tab, p)
<1>0. PICK n \in Nat : n = htAllocated
  OBVIOUS
<1> DEFINE D == 0 .. c - 1
           Swap(t, a, b) == [t EXCEPT ![a] = t[b], ![b] = t[a]]
           Body(L) == [m \in 0 .. n + 1 |->
                         IF m = n + 1 THEN Swap(tab, m, m - 1)
                         ELSE IF m >= p + 1 THEN Swap(L[m + 1], m, m - 1)
                         ELSE L[m + 1]]
           Loop == CHOOSE L : L = Body(L)
           At(m) == IF m >= p + 1 THEN m ELSE p + 1
           Shifted(k) == [i \in D |-> IF i = k - 1 THEN tab[n + 1]
                                      ELSE IF k <= i /\ i <= n + 1 THEN tab[i - 1]
                                      ELSE tab[i]]
           Moved == [m \in 0 .. n + 1 |-> Shifted(At(m))]
<1>1. SwapLoop(tab, p) = Loop[1]
  BY <1>0 DEF SwapLoop
<1>a. p \in 0 .. n /\ n + 1 < c
  BY <1>0
<1>2. \A k \in 1 .. n + 1 : Shifted(k) \in [D -> V]
  BY <1>a
<1>3. Swap(tab, n + 1, n + 1 - 1) = Shifted(n + 1)
  <2>1. n + 1 \in D /\ n \in D /\ n + 1 - 1 = n
    BY <1>a
  <2>2. /\ Swap(tab, n + 1, n) \in [D -> V]
        /\ \A i \in D : Swap(tab, n + 1, n)[i] =
             IF i = n THEN tab[n + 1] ELSE IF i = n + 1 THEN tab[n] ELSE tab[i]
    BY <2>1, Swapping
  <2>3. \A i \in D : Swap(tab, n + 1, n)[i] = Shifted(n + 1)[i]
    BY <2>2
  <2>4. Swap(tab, n + 1, n) = Shifted(n + 1)
    BY <2>2, <2>3
  <2> QED BY <2>1, <2>4
<1>4. \A m \in p + 1 .. n : Swap(Shifted(m + 1), m, m - 1) = Shifted(m)
  <2> SUFFICES ASSUME NEW m \in p + 1 .. n PROVE Swap(Shifted(m + 1), m, m - 1) = Shifted(m)
    OBVIOUS
  <2> DEFINE t == Shifted(m + 1)
  <2>1. m \in D /\ m - 1 \in D /\ t \in [D -> V]
    BY <1>a, <1>2
  <2>2. t[m] = tab[n + 1] /\ t[m - 1] = tab[m - 1]
    BY <1>a, <2>1
  <2>3. \A i \in D : t[i] = IF i = m THEN tab[n + 1]
                            ELSE IF m + 1 <= i /\ i <= n + 1 THEN tab[i - 1] ELSE tab[i]
    OBVIOUS
  <2> HIDE DEF t
  <2>4. /\ Swap(t, m, m - 1) \in [D -> V]
        /\ \A i \in D : Swap(t, m, m - 1)[i] =
             IF i = m - 1 THEN t[m] ELSE IF i = m THEN t[m - 1] ELSE t[i]
    BY <2>1, Swapping
  <2>5. \A i \in D : Swap(t, m, m - 1)[i] = Shifted(m)[i]
    <3> HIDE DEF Swap
    <3> SUFFICES ASSUME NEW i \in D PROVE Swap(t, m, m - 1)[i] = Shifted(m)[i]
      OBVIOUS
    <3>1. Shifted(m)[i] = IF i = m - 1 THEN tab[n + 1]
                          ELSE IF m <= i /\ i <= n + 1 THEN tab[i - 1] ELSE tab[i]
      OBVIOUS
    <3>2. Swap(t, m, m - 1)[i] = IF i = m - 1 THEN tab[n + 1] ELSE IF i = m THEN tab[m - 1] ELSE t[i]
      BY <2>2, <2>4
    <3>3. CASE i < m - 1
      BY <2>3, <3>1, <3>2, <3>3
    <3>4. CASE i = m - 1 \/ i = m
      BY <3>1, <3>2, <3>4
    <3>5. CASE i > m
      BY <2>3, <3>1, <3>2, <3>5
    <3> QED BY <3>3, <3>4, <3>5
  <2>6. Swap(t, m, m - 1) = Shifted(m)
    BY <2>4, <2>5
  <2> QED BY <2>6 DEF t
<1>5. \A m \in 0 .. n : Moved[m] = IF m >= p + 1 THEN Swap(Moved[m + 1], m, m - 1) ELSE Moved[m + 1]
  <2> SUFFICES ASSUME NEW m \in 0 .. n
               PROVE  Moved[m] = IF m >= p + 1 THEN Swap(Moved[m + 1], m, m - 1) ELSE Moved[m + 1]
    OBVIOUS
  <2>1. Moved[m] = Shifted(At(m)) /\ Moved[m + 1] = Shifted(At(m + 1))
    OBVIOUS
  <2> HIDE DEF Shifted, Moved
  <2>2. CASE m >= p + 1
    <3>1. At(m) = m /\ At(m + 1) = m + 1
      BY <2>2
    <3> QED BY <2>1, <2>2, <3>1, <1>4
  <2>3. CASE ~(m >= p + 1)
    <3>1. At(m) = p + 1 /\ At(m + 1) = p + 1
      BY <2>3
    <3> QED BY <2>1, <2>3, <3>1
  <2> QED BY <2>2, <2>3
<1>6. Moved[n + 1] = Swap(tab, n + 1, n + 1 - 1)
  <2>1. n + 1 \in 0 .. n + 1 /\ At(n + 1) = n + 1
    BY <1>a
  <2>2. Moved[n + 1] = Shifted(At(n + 1))
    BY <2>1
  <2> HIDE DEF Moved, Swap, Shifted
  <2> QED BY <1>3, <2>1, <2>2
<1>7. Moved = Body(Moved)
  <2> HIDE DEF Swap
  <2>0. \A m \in 0 .. n : m \in 0 .. n + 1 /\ m # n + 1
    OBVIOUS
  <2>1. \A m \in 0 .. n + 1 : m = n + 1 \/ m \in 0 .. n
    OBVIOUS
  <2>2. \E S : Moved = [m \in 0 .. n + 1 |-> S[m]]
    <3>1. Moved = [m \in 0 .. n + 1 |-> Moved[m]]
      OBVIOUS
    <3> QED BY <3>1
  <2> HIDE DEF Moved
  <2>3. \A m \in 0 .. n : Moved[m] = Body(Moved)[m]
    BY <2>0, <1>5
  <2>4. Moved[n + 1] = Body(Moved)[n + 1]
    BY <1>6
  <2>5. \A m \in 0 .. n + 1 : Moved[m] = Body(Moved)[m]
    BY <2>1, <2>3, <2>4
  <2> QED BY <2>2, <2>5
<1>8. Loop = Body(Loop)
  <2> HIDE DEF Body, Moved
  <2> QED BY <1>7
<1>9. \A m \in 0 .. n + 1 : Loop[m] = Moved[m]
  <2>0. PICK q \in Nat : q = n + 1
    OBVIOUS
  <2> HIDE DEF Loop, Moved, Swap
  <2>1. \A m \in 0 .. q : Loop[m] = IF m = q THEN Swap(tab, m, m - 1)
                                    ELSE IF m >= p + 1 THEN Swap(Loop[m + 1], m, m - 1)
                                    ELSE Loop[m + 1]
    BY <1>8, <2>0
  <2>2. \A m \in 0 .. q : m # q => m \in 0 .. n
    BY <2>0
  <2>3. \A m \in 0 .. q : (m = q \/ Loop[m + 1] = Moved[m + 1]) => Loop[m] = Moved[m]
    BY <2>0, <2>1, <2>2, <1>5, <1>6
  <2> HIDE DEF Body
  <2>4. AgreeDownwards(Loop, Moved, q)
    BY <2>3 DEF AgreeDownwards
  <2>5. \A m \in 0 .. q : Loop[m] = Moved[m]
    BY <2>4, OnlyOne
  <2> QED BY <2>0, <2>5
<1>10. Moved[1] = Shifted(p + 1)
  <2>1. 1 \in 0 .. n + 1 /\ At(1) = p + 1
    BY <1>a
  <2> QED BY <2>1
<1>11. SwapLoop(tab, p) = Shifted(p + 1)
  <2>1. 1 \in 0 .. n + 1
    OBVIOUS
  <2> HIDE DEF Loop, Moved, Shifted
  <2> QED BY <1>1, <1>9, <1>10, <2>1
<1>12. p + 1 - 1 = p /\ \A i \in D : p + 1 <= i <=> p < i
  BY <1>a
<1> QED BY <1>0, <1>11, <1>12 DEF Rotated

(* The literal loop of swaps inserts as the model does, in every state.    *)
THEOREM SwapLoopIsInsertion == Spec => []SwapLoopInserts
<1>1. ASSUME Invariant PROVE SwapLoopInserts
  <2>1. /\ htAllocated \in Nat /\ htCapacity \in Nat
        /\ entry \in [0 .. htCapacity - 1 -> Entry]
    <3>1. CASE Wrapped
      BY <3>1 DEF Wrapped
    <3>2. CASE IInv
      BY <3>2 DEF IInv, TypeOK
    <3> QED BY <1>1, <3>1, <3>2 DEF Invariant
  <2>2. ASSUME htAllocated + 1 < htCapacity, NEW p \in 0 .. htAllocated, NEW new
        PROVE  [SwapLoop(entry, p) EXCEPT ![p] = new] = Inserted(entry, p, new)
    <3>1. SwapLoop(entry, p) = Rotated(entry, p)
      BY <2>1, <2>2, SwapLoopShifts
    <3>2. [Rotated(entry, p) EXCEPT ![p] = new] = Inserted(entry, p, new)
      BY DEF Rotated, Inserted
    <3> QED BY <3>1, <3>2
  <2> QED BY <2>2 DEF SwapLoopInserts
<1> QED BY <1>1, IndexInvariant, PTL

-----------------------------------------------------------------------------
(* The abstract map the index stands for. *)
MapOf == [h \in {g \in Hashes : Lookup(g) # 0} |-> Lookup(h)]

(* A hash is bound only to the file that has it, and every file's hash is  *)
(* bound to that file.                                                     *)
BoundToFiles ==
  \A h \in Hashes : Lookup(h) # 0 =>
    Lookup(h) \in 1 .. ftAllocated - 1 /\ fileHash[Lookup(h)] = h

FilesBound ==
  \A k \in 1 .. ftAllocated - 1, h \in Hashes : fileHash[k] = h => Lookup(h) = k

LEMMA Bindings == IInv => BoundToFiles /\ FilesBound
<1> SUFFICES ASSUME IInv PROVE BoundToFiles /\ FilesBound
  OBVIOUS
<1>1. ASSUME NEW h \in Hashes, Lookup(h) # 0
      PROVE  Lookup(h) \in 1 .. ftAllocated - 1 /\ fileHash[Lookup(h)] = h
  <2>1. PICK i \in 0 .. htAllocated - 1 : entry[i].hash = h
    BY <1>1, LookupSpec, HashFileTableAssumption
  <2>2. Lookup(h) = entry[i].fid
    BY <2>1, LookupSpec
  <2> QED BY <2>1, <2>2 DEF IInv, EntriesAreFiles
<1> QED BY <1>1, InvImplies DEF BoundToFiles, FilesBound, EveryFileFound

(* Allocating a file binds its hash to its id and disturbs no binding. *)
LEMMA AllocFileBinds ==
  ASSUME IInv, IInv', NEW h \in Hashes, AllocFile(h)
  PROVE  \A g \in Hashes : Lookup(g)' = IF g = h THEN ftAllocated ELSE Lookup(g)
<1>1. /\ ftAllocated \in Nat \ {0} /\ ftAllocated' = ftAllocated + 1
      /\ fileHash' = [i \in 1 .. ftAllocated |->
                        IF i = ftAllocated THEN h ELSE fileHash[i]]
      /\ Lookup(h) = 0
  BY DEF IInv, TypeOK, Coupled, AllocFile
<1>2. BoundToFiles /\ FilesBound
  BY Bindings
<1>3. BoundToFiles' /\ FilesBound'
  <2>1. IInv' => BoundToFiles' /\ FilesBound'
    BY Bindings, PTL
  <2> QED BY <2>1
<1>4. \A k \in 1 .. ftAllocated, g \in Hashes : fileHash'[k] = g => Lookup(g)' = k
  BY <1>1, <1>3 DEF FilesBound
<1>5. \A g \in Hashes : Lookup(g)' # 0 =>
        \E k \in 1 .. ftAllocated : fileHash'[k] = g
  <2>1. 1 .. ftAllocated' - 1 = 1 .. ftAllocated
    BY <1>1
  <2> QED BY <2>1, <1>3 DEF BoundToFiles
<1> SUFFICES ASSUME NEW g \in Hashes
             PROVE  Lookup(g)' = IF g = h THEN ftAllocated ELSE Lookup(g)
  OBVIOUS
<1>6. CASE g = h
  <2>1. fileHash'[ftAllocated] = g /\ ftAllocated \in 1 .. ftAllocated
    BY <1>1, <1>6
  <2> QED BY <2>1, <1>4, <1>6
<1>7. CASE g # h /\ Lookup(g) # 0
  <2>1. fileHash'[Lookup(g)] = g /\ Lookup(g) \in 1 .. ftAllocated
    BY <1>1, <1>2, <1>7 DEF BoundToFiles
  <2> QED BY <2>1, <1>4, <1>7
<1>8. CASE g # h /\ Lookup(g) = 0
  <2> SUFFICES ASSUME Lookup(g)' # 0 PROVE FALSE
    BY <1>8
  <2>1. PICK k \in 1 .. ftAllocated : fileHash'[k] = g
    BY <1>5
  <2>2. k \in 1 .. ftAllocated - 1 /\ fileHash[k] = g
    BY <2>1, <1>1, <1>8
  <2> QED BY <2>2, <1>2, <1>8 DEF FilesBound
<1> QED BY <1>6, <1>7, <1>8

(* Growing the tables changes no binding. *)
LEMMA EnsureReserveBinds ==
  ASSUME IInv, IInv', NEW n \in Nat, EnsureReserve(n)
  PROVE  \A g \in Hashes : Lookup(g)' = Lookup(g)
<1>1. UNCHANGED <<fileHash, ftAllocated>>
  BY DEF EnsureReserve
<1>2. BoundToFiles /\ FilesBound
  BY Bindings
<1>3. BoundToFiles' /\ FilesBound'
  <2>1. IInv' => BoundToFiles' /\ FilesBound'
    BY Bindings, PTL
  <2> QED BY <2>1
<1> SUFFICES ASSUME NEW g \in Hashes PROVE Lookup(g)' = Lookup(g)
  OBVIOUS
<1>4. CASE Lookup(g) # 0
  BY <1>1, <1>2, <1>3, <1>4 DEF BoundToFiles, FilesBound
<1>5. CASE Lookup(g)' # 0
  BY <1>1, <1>2, <1>3, <1>5 DEF BoundToFiles, FilesBound
<1> QED BY <1>4, <1>5

(* Spec implements PathIndex: for every set of hashes the sorted array, its *)
(* binary search and its growth behave as a map from hashes to files that  *)
(* only grows and never rebinds a hash.                                    *)
THEOREM IndexIsGrowingMap == Spec => ImplementsPathIndex
<1>1. Init => Index!Init
  <2> SUFFICES ASSUME Init PROVE MapOf = [h \in {RootHash} |-> 1]
    BY DEF Index!Init, MapOf
  <2>1. IInv
    BY InitInv
  <2>2. entry[0].hash = RootHash /\ entry[0].fid = 1 /\ htAllocated = 1
    BY HashFileTableAssumption DEF Init
  <2>3. Lookup(RootHash) = 1
    BY <2>1, <2>2, LookupSpec
  <2>4. \A h \in Hashes : h # RootHash => Lookup(h) = 0
    <3>1. \A i \in 0 .. htAllocated - 1 : entry[i].hash = RootHash
      BY <2>2
    <3> QED BY <2>1, <3>1, LookupSpec, HashFileTableAssumption
  <2>5. {g \in Hashes : Lookup(g) # 0} = {RootHash}
    <3>1. RootHash \in Hashes /\ Lookup(RootHash) # 0
      BY <2>3, HashFileTableAssumption
    <3> QED BY <2>4, <3>1
  <2> QED BY <2>3, <2>5 DEF MapOf
<1>2. Invariant /\ [Next]_vars => [Index!Next]_(MapOf)
  <2> SUFFICES ASSUME Invariant, [Next]_vars PROVE [Index!Next]_(MapOf)
    OBVIOUS
  <2>1. ASSUME NEW h \in Hashes, AllocFile(h) PROVE Index!Next
    <3> IInv
      BY <2>1 DEF AllocFile, Invariant, Wrapped
    <3> IInv'
      BY <2>1, AllocFileInv
    <3>1. \A g \in Hashes : Lookup(g)' = IF g = h THEN ftAllocated ELSE Lookup(g)
      BY <2>1, AllocFileBinds
    <3>2. /\ ftAllocated \in 1 .. FileLimit
          /\ Lookup(h) = 0
      BY <2>1, HashFileTableAssumption DEF AllocFile, IInv, TypeOK, Coupled
    <3>3. \A g \in Hashes : Lookup(g) # 0 => Lookup(g) # ftAllocated
      BY Bindings, <3>2 DEF BoundToFiles
    <3>4. DOMAIN MapOf = {g \in Hashes : Lookup(g) # 0}
      BY DEF MapOf
    <3>5. h \notin DOMAIN MapOf
      BY <3>2, <3>4
    <3>6. ftAllocated \notin {MapOf[g] : g \in DOMAIN MapOf}
      BY <3>3, <3>4 DEF MapOf
    <3>7. {g \in Hashes : Lookup(g)' # 0} = DOMAIN MapOf \cup {h}
      BY <3>1, <3>2, <3>4
    <3>8. MapOf' = [g \in DOMAIN MapOf \cup {h} |->
                      IF g = h THEN ftAllocated ELSE MapOf[g]]
      <4>1. MapOf' = [g \in DOMAIN MapOf \cup {h} |-> Lookup(g)']
        BY <3>7 DEF MapOf
      <4>2. \A g \in DOMAIN MapOf \cup {h} :
              Lookup(g)' = IF g = h THEN ftAllocated ELSE MapOf[g]
        BY <3>1, <3>4 DEF MapOf
      <4> QED BY <4>1, <4>2
    <3>9. Index!Bind(h, ftAllocated)
      BY <3>5, <3>6, <3>8 DEF Index!Bind, MapOf
    <3> QED BY <3>2, <3>9 DEF Index!Next
  <2>2. ASSUME NEW h \in Hashes, AllocLastFile(h) PROVE UNCHANGED MapOf
    <3>1. IInv
      BY <2>2 DEF AllocLastFile, Invariant, Wrapped
    <3>2. UNCHANGED <<entry, htAllocated>>
      BY <2>2, <3>1, AllocLastFileWraps
    <3> QED BY <3>2 DEF MapOf, Lookup, LowerBound
  <2>3. ASSUME NEW n \in 1 .. MaxReserve, EnsureReserve(n) PROVE UNCHANGED MapOf
    <3> IInv
      BY <2>3 DEF EnsureReserve, Invariant, Wrapped
    <3> IInv'
      BY <2>3, EnsureReserveInv, HashFileTableAssumption
    <3>1. \A g \in Hashes : Lookup(g)' = Lookup(g)
      BY <2>3, EnsureReserveBinds, HashFileTableAssumption
    <3> QED BY <3>1 DEF MapOf
  <2>4. CASE UNCHANGED vars
    BY <2>4 DEF vars, MapOf, Lookup, LowerBound
  <2> QED BY <2>1, <2>2, <2>3, <2>4 DEF Next
<1>3. Spec => []Invariant
  BY IndexInvariant
<1> QED BY <1>1, <1>2, <1>3, PTL DEF Spec, ImplementsPathIndex, Index!Spec, MapOf

-----------------------------------------------------------------------------
(* The table never shrinks, and the empty name is there from the start.    *)
StringsOK ==
  /\ capacity \in Nat /\ capacity >= InitialStrings
  /\ allocated \in 1 .. capacity
  /\ memory[0] = End
  /\ overrun \in BOOLEAN

(* Name n is in the part of the table in use, from place i on.             *)
Kept(i, n) ==
  /\ i \in Nat /\ i + Length[n] < allocated
  /\ Strings!Reads(i, n)

NamesKept == \A id \in 1 .. ftAllocated - 1 : Kept(nameAt[id], NameOf[fileHash[id]])

(* Once a name has overrun the table the last file is the one with it.     *)
LastNameLong ==
  ~crashed => Length[NameOf[fileHash[ftAllocated - 1]]] >= InitialStrings

NamesInvariant ==
  /\ Invariant
  /\ StringsOK
  /\ IF overrun THEN LastNameLong ELSE NamesKept

(* A name is stored behind the names in use, and moves none of them.       *)
LEMMA StoredKeeps ==
  ASSUME StringsOK, NEW n \in Names, Strings!AllocFits(n)
  PROVE  /\ StringsOK' /\ UNCHANGED overrun
         /\ \A m \in Names : \A i : Kept(i, m) => Kept(i, m)'
         /\ \A i : i = Strings!IndexOf(n) => Kept(i, n)'
<1> DEFINE L == Length[n]
<1>1. /\ Length \in [Names -> Nat] /\ L \in Nat \ {0}
      /\ InitialStrings \in Nat \ {0, 1}
  BY FileNamesAssumption DEF Strings!StringTableAssumption, Strings!AllocFits
<1>2. /\ capacity \in Nat /\ allocated \in 1 .. capacity
      /\ capacity >= InitialStrings
  BY DEF StringsOK
<1>3. /\ Strings!CapacityFor(n) \in Nat
      /\ Strings!CapacityFor(n) >= capacity
  BY <1>1, <1>2 DEF Strings!CapacityFor
<1>4. /\ memory' = Strings!Stored(n) /\ capacity' = Strings!CapacityFor(n)
      /\ allocated' = allocated + L + 1
      /\ allocated + L + 1 <= capacity'
      /\ UNCHANGED overrun
  BY <1>1, <1>2, <1>3 DEF Strings!AllocFits, Strings!Written
<1> HIDE DEF L
<1>5. \A i \in 0 .. capacity' - 1 :
        memory'[i] = IF i \in allocated .. allocated + L - 1 THEN <<n, i - allocated + 1>>
                     ELSE IF i = allocated + L THEN End
                     ELSE IF i < capacity THEN memory[i]
                     ELSE Junk
  BY <1>4 DEF Strings!Stored, L
<1>6. \A i \in 0 .. allocated - 1 : memory'[i] = memory[i]
  <2> SUFFICES ASSUME NEW i \in 0 .. allocated - 1 PROVE memory'[i] = memory[i]
    OBVIOUS
  <2>1. /\ i \in 0 .. capacity' - 1 /\ i < capacity
        /\ i \notin allocated .. allocated + L - 1 /\ i # allocated + L
    BY <1>1, <1>2, <1>3, <1>4
  <2> QED BY <2>1, <1>5
<1>7. StringsOK'
  <2>1. memory'[0] = End
    BY <1>2, <1>6 DEF StringsOK
  <2>2. allocated' \in 1 .. capacity' /\ capacity' >= InitialStrings /\ capacity' \in Nat
    BY <1>1, <1>2, <1>3, <1>4 DEF L
  <2> QED BY <2>1, <2>2, <1>4 DEF StringsOK
<1>8. ASSUME NEW m \in Names, NEW i, Kept(i, m)
      PROVE  Kept(i, m)'
  <2>1. /\ Length[m] \in Nat /\ i \in Nat /\ i + Length[m] < allocated
        /\ \A k \in 1 .. Length[m] : memory[i + k - 1] = <<m, k>>
        /\ memory[i + Length[m]] = End
    BY <1>1, <1>8 DEF Kept, Strings!Reads
  <2>2. i + Length[m] < allocated' /\ i < allocated'
    BY <1>1, <1>2, <1>4, <2>1 DEF L
  <2>3. i + Length[m] \in 0 .. allocated - 1
    BY <1>2, <2>1
  <2>4. \A k \in 1 .. Length[m] : i + k - 1 \in 0 .. allocated - 1
    BY <1>2, <2>1
  <2> QED BY <2>1, <2>2, <2>3, <2>4, <1>6 DEF Kept, Strings!Reads
<1>9. ASSUME NEW i, i = allocated PROVE Kept(i, n)'
  <2>1. allocated + L < allocated' /\ allocated < allocated'
    BY <1>1, <1>2, <1>4
  <2>2. \A k \in 1 .. L : memory'[allocated + k - 1] = <<n, k>>
    <3> SUFFICES ASSUME NEW k \in 1 .. L PROVE memory'[allocated + k - 1] = <<n, k>>
      OBVIOUS
    <3>1. /\ allocated + k - 1 \in 0 .. capacity' - 1
          /\ allocated + k - 1 \in allocated .. allocated + L - 1
          /\ (allocated + k - 1) - allocated + 1 = k
      BY <1>1, <1>2, <1>3, <1>4
    <3> QED BY <3>1, <1>5
  <2>3. memory'[allocated + L] = End
    <3>1. /\ allocated + L \in 0 .. capacity' - 1
          /\ allocated + L \notin allocated .. allocated + L - 1
      BY <1>1, <1>2, <1>3, <1>4
    <3> QED BY <3>1, <1>5
  <2> QED BY <2>1, <2>2, <2>3, <1>2, <1>9 DEF Kept, Strings!Reads, L
<1>10. Strings!IndexOf(n) = allocated
  BY <1>1 DEF Strings!IndexOf, L
<1> QED BY <1>4, <1>7, <1>8, <1>9, <1>10

(* The empty name is not stored: it is read at place 0.                    *)
LEMMA EmptyKept ==
  ASSUME StringsOK, NEW n \in Names, Length[n] = 0
  PROVE  Kept(0, n)
BY FileNamesAssumption DEF StringsOK, Kept, Strings!Reads, Strings!StringTableAssumption

(* The table doubles before it is full, so a name that is not longer than  *)
(* a new table always fits.                                                *)
LEMMA OverrunsIfLong ==
  ASSUME StringsOK, NEW n \in Names, Strings!AllocOverruns(n)
  PROVE  Length[n] >= InitialStrings
<1>1. /\ Length[n] \in Nat /\ capacity \in Nat /\ capacity >= InitialStrings
      /\ InitialStrings \in Nat /\ allocated \in 1 .. capacity
  BY FileNamesAssumption DEF StringsOK, Strings!StringTableAssumption
<1>2. allocated + Length[n] + 1 > Strings!CapacityFor(n)
  BY DEF Strings!AllocOverruns
<1>3. CASE allocated + Length[n] + 1 >= capacity
  <2>1. Strings!CapacityFor(n) = 2 * capacity
    BY <1>3 DEF Strings!CapacityFor
  <2> QED BY <1>1, <1>2, <2>1
<1>4. CASE ~(allocated + Length[n] + 1 >= capacity)
  <2>1. Strings!CapacityFor(n) = capacity
    BY <1>4 DEF Strings!CapacityFor
  <2> QED BY <1>1, <1>2, <1>4, <2>1
<1> QED BY <1>3, <1>4

LEMMA NamesInitInv == NamesInit => NamesInvariant
<1> SUFFICES ASSUME NamesInit PROVE NamesInvariant
  OBVIOUS
<1>1. Invariant
  BY InitInv DEF NamesInit, Invariant
<1>2. StringsOK /\ ~overrun
  <2>1. InitialStrings \in Nat \ {0, 1}
    BY FileNamesAssumption DEF Strings!StringTableAssumption
  <2>2. /\ memory = [i \in 0 .. InitialStrings - 1 |-> IF i = 0 THEN End ELSE Junk]
        /\ capacity = InitialStrings /\ allocated = 1 /\ overrun = FALSE
    BY DEF NamesInit, Strings!Init
  <2>3. 0 \in 0 .. InitialStrings - 1
    BY <2>1
  <2>4. memory[0] = End
    BY <2>2, <2>3
  <2>5. capacity \in Nat /\ capacity >= InitialStrings /\ allocated \in 1 .. capacity
    BY <2>1, <2>2
  <2> QED BY <2>2, <2>4, <2>5 DEF StringsOK
<1>3. NamesKept
  <2>1. /\ 1 .. ftAllocated - 1 = {1} /\ nameAt[1] = 0 /\ fileHash[1] = RootHash
        /\ RootHash \in Hashes
    BY HashFileTableAssumption DEF NamesInit, Init
  <2>2. Kept(0, NameOf[RootHash])
    BY <1>2, <2>1, EmptyKept, FileNamesAssumption
  <2> QED BY <2>1, <2>2 DEF NamesKept
<1> QED BY <1>1, <1>2, <1>3 DEF NamesInvariant

(* A new file's name is stored or is the empty one, and the names of the   *)
(* files there were are left where they are.                               *)
LEMMA AllocNewFileNames ==
  ASSUME NamesInvariant, NEW h \in Hashes, AllocNewFile(h)
  PROVE  NamesInvariant'
<1> DEFINE id == ftAllocated
           n  == NameOf[h]
<1>1. /\ ~overrun /\ NamesKept /\ StringsOK
      /\ n \in Names
  BY FileNamesAssumption DEF AllocNewFile, NamesInvariant
<1>2. IInv /\ [Next]_vars /\ Invariant
  BY DEF NamesInvariant, AllocNewFile, AllocFile, AllocLastFile, Next, Invariant, Wrapped
<1>3. Invariant'
  BY <1>2, StepInvariant
<1>4. /\ id \in Nat /\ id >= 2
      /\ fileHash \in [1 .. id - 1 -> Hashes]
  BY <1>2 DEF IInv, TypeOK, Coupled
<1>5. CASE AllocLastFile(h)
  <2>1. crashed' /\ 1 .. ftAllocated' - 1 = {}
    BY <1>2, <1>5, AllocLastFileWraps DEF Wrapped
  <2>2. StringsOK'
    <3>1. CASE Strings!AllocFits(n)
      BY <3>1, <1>1, StoredKeeps
    <3>2. CASE Strings!AllocEmpty(n) \/ Strings!AllocOverruns(n)
      BY <3>2, <1>1 DEF Strings!AllocEmpty, Strings!AllocOverruns, StringsOK
    <3> QED BY <3>1, <3>2 DEF AllocNewFile, Strings!Alloc
  <2> QED BY <2>1, <2>2, <1>3 DEF NamesInvariant, LastNameLong, NamesKept
<1>6. CASE AllocFile(h)
  <2>1. /\ ftAllocated' = id + 1
        /\ fileHash' = [i \in 1 .. id |-> IF i = id THEN h ELSE fileHash[i]]
        /\ nameAt' = [i \in 1 .. id |->
                        IF i = id THEN Strings!IndexOf(n) ELSE nameAt[i]]
    <3>1. ftAllocated' = id + 1
      BY <1>6 DEF AllocFile
    <3>2. 1 .. ftAllocated' - 1 = 1 .. id
      BY <3>1, <1>4
    <3> QED BY <1>6, <3>1, <3>2 DEF AllocFile, AllocNewFile
  <2>2. \A i \in 1 .. ftAllocated' - 1 :
          IF i = id THEN fileHash'[i] = h /\ nameAt'[i] = Strings!IndexOf(n)
          ELSE /\ i \in 1 .. id - 1 /\ fileHash'[i] = fileHash[i]
               /\ nameAt'[i] = nameAt[i]
               /\ NameOf[fileHash[i]] \in Names
    BY <2>1, <1>4, FileNamesAssumption
  <2>3. CASE Strings!AllocOverruns(n)
    <3>1. Length[n] >= InitialStrings
      BY <1>1, <2>3, OverrunsIfLong
    <3>2. StringsOK' /\ overrun'
      BY <1>1, <2>3 DEF Strings!AllocOverruns, StringsOK
    <3>3. fileHash'[ftAllocated' - 1] = h
      BY <2>1, <1>4
    <3> QED BY <1>3, <3>1, <3>2, <3>3 DEF NamesInvariant, LastNameLong
  <2>4. CASE Strings!AllocFits(n)
    <3>1. StringsOK' /\ ~overrun'
      BY <1>1, <2>4, StoredKeeps
    <3>2. \A m \in Names : \A i : Kept(i, m) => Kept(i, m)'
      BY <1>1, <2>4, StoredKeeps
    <3>3. \A i : i = Strings!IndexOf(n) => Kept(i, n)'
      BY <1>1, <2>4, StoredKeeps
    <3>4. ASSUME NEW i \in 1 .. ftAllocated' - 1
          PROVE  \A k, m : k = nameAt'[i] /\ m = NameOf[fileHash'[i]] => Kept(k, m)'
      BY <2>2, <3>2, <3>3, <1>1 DEF NamesKept
    <3>5. NamesKept'
      BY <3>4 DEF NamesKept, Kept, Strings!Reads
    <3> QED BY <1>3, <3>1, <3>5 DEF NamesInvariant
  <2>5. CASE Strings!AllocEmpty(n)
    <3>1. UNCHANGED <<memory, capacity, allocated, overrun>> /\ Length[n] = 0
      BY <2>5 DEF Strings!AllocEmpty
    <3>2. Strings!IndexOf(n) = 0 /\ Kept(0, n)
      BY <1>1, <3>1, EmptyKept DEF Strings!IndexOf
    <3>3. StringsOK' /\ ~overrun'
      BY <1>1, <3>1 DEF StringsOK
    <3>4. ASSUME NEW i \in 1 .. ftAllocated' - 1
          PROVE  Kept(nameAt'[i], NameOf[fileHash'[i]])
      BY <2>2, <3>2, <1>1 DEF NamesKept
    <3>5. NamesKept'
      BY <3>1, <3>4 DEF NamesKept, Kept, Strings!Reads
    <3> QED BY <1>3, <3>3, <3>5 DEF NamesInvariant
  <2> QED BY <2>3, <2>4, <2>5 DEF AllocNewFile, Strings!Alloc
<1> QED BY <1>5, <1>6 DEF AllocNewFile

(* Every step of FileNames keeps the names readable.                       *)
LEMMA StepNames == NamesInvariant /\ [NamesNext]_allVars => NamesInvariant'
<1> SUFFICES ASSUME NamesInvariant, [NamesNext]_allVars PROVE NamesInvariant'
  OBVIOUS
<1>1. ASSUME NEW h \in Hashes, AllocNewFile(h) PROVE NamesInvariant'
  BY <1>1, AllocNewFileNames
<1>2. ASSUME NEW n \in 1 .. MaxReserve, Reserve(n) PROVE NamesInvariant'
  <2>1. /\ Invariant'
        /\ UNCHANGED <<memory, capacity, allocated, overrun, nameAt, ftAllocated,
                       fileHash, crashed>>
    BY <1>2, StepInvariant DEF NamesInvariant, Reserve, EnsureReserve, Next
  <2> QED BY <2>1 DEF NamesInvariant, StringsOK, NamesKept, Kept, LastNameLong,
                      Strings!Reads
<1>3. CASE UNCHANGED allVars
  <2>1. Invariant'
    BY <1>3, StepInvariant DEF NamesInvariant, allVars
  <2> QED BY <2>1, <1>3 DEF allVars, vars, Strings!vars, NamesInvariant, StringsOK, NamesKept,
                            Kept, LastNameLong, Strings!Reads
<1> QED BY <1>1, <1>2, <1>3 DEF NamesNext

(* GetFileName returns the name each file was created with, through every  *)
(* growth of the table and for any names, until one as long as a new table *)
(* overruns it.                                                            *)
THEOREM NamesAreKept == NamesSpec => []NamesReadBack
<1>1. NamesInvariant => NamesReadBack
  BY DEF NamesInvariant, NamesReadBack, LastNameLong, NamesKept, Kept
<1> QED BY <1>1, NamesInitInv, StepNames, PTL DEF NamesSpec

(* The allocation of files with names is an allocation of files: what the  *)
(* theorems above say of the index holds of FileNames.                     *)
THEOREM NamesImplementIndex == NamesSpec => Spec
<1>1. NamesInit => Init
  BY DEF NamesInit
<1>2. [NamesNext]_allVars => [Next]_vars
  BY DEF NamesNext, AllocNewFile, Reserve, Next, allVars
<1> QED BY <1>1, <1>2, PTL DEF NamesSpec, Spec
=============================================================================
