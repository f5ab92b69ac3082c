-------------------------- MODULE FileTableProofs --------------------------
(***************************************************************************)
(* Proofs about FileTable for any set of paths, any containers and any     *)
(* size of the table.                                                      *)
(***************************************************************************)
EXTENDS FileTable, WellFoundedInduction, TLAPS

(* Every entry handed out holds a file of some path that is valid or       *)
(* deleted; the first one is the root directory.                           *)
EntriesKnown ==
  /\ \A id \in Ids : Known(id) /\ files[id].path \in Paths
  /\ files[1].path = Root /\ files[1].parent = 0 /\ files[1].next = 0

ParentLinks ==
  \A id \in Ids \ {1} :
    /\ files[id].parent \in Ids
    /\ files[id].parent < id
    /\ files[id].path # Root
    /\ files[files[id].parent].path = Parent(files[id].path)

(* The list of a directory holds its children only, in descending order of *)
(* their ids.                                                              *)
ListLinks ==
  \A id \in Ids :
    /\ files[id].first # 0 => /\ files[id].first \in Ids
                              /\ files[files[id].first].parent = id
    /\ files[id].next # 0 => /\ files[id].next \in Ids
                             /\ files[id].next < id
                             /\ files[files[id].next].parent = files[id].parent

(* Every file but the root is first in its directory or follows a sibling. *)
OnAList ==
  \A id \in Ids \ {1} :
    \/ files[files[id].parent].first = id
    \/ \E s \in Ids : s > id /\ files[s].next = id /\ files[s].parent = files[id].parent

IInv ==
  /\ TypeOK
  /\ EntriesKnown
  /\ OnePathOneFile
  /\ ParentLinks
  /\ ListLinks
  /\ OnAList

(* What a step does to the tree: every file keeps its path and its parent,  *)
(* and at most one is added, for a path that had none and whose parent's    *)
(* path has a file.                                                         *)
Grows ==
  /\ \A id \in Ids : /\ files'[id].path = files[id].path
                     /\ files'[id].parent = files[id].parent
  /\ \/ Ids' = Ids
     \/ \E p \in Paths, new \in FileIDs :
          /\ Ids' = Ids \cup {new}
          /\ files'[new].path = p
          /\ \A id \in Ids : files[id].path # p
          /\ \E id \in Ids : files[id].path = Parent(p)

-----------------------------------------------------------------------------
(* The constructor's state: the root directory alone. *)
LEMMA InitInv == Init => IInv
<1> SUFFICES ASSUME Init PROVE IInv
  OBVIOUS
<1> USE FileTableAssumption
<1>1. /\ MaxFiles \in Nat /\ MaxFiles >= 1
      /\ allocated = 2 /\ aborted = FALSE /\ 1 \in FileIDs
  BY DEF Init, FileIDs
<1>2. \A id \in Ids : id = 1
  BY <1>1 DEF Ids
<1>3. /\ files[1] = [Blank EXCEPT !.path = Root, !.valid = TRUE, !.directory = TRUE]
      /\ \A id \in FileIDs : id # 1 => files[id] = Blank
  BY <1>1 DEF Init
<1>4. Blank \in File /\ files[1] \in File
  <2>1. Blank \in File
    BY <1>1 DEF Blank, File
  <2> QED BY <2>1, <1>3 DEF File
<1>5. TypeOK
  <2>1. files \in [FileIDs -> File]
    BY <1>3, <1>4 DEF Init
  <2>2. allocated \in 2 .. MaxFiles + 1
    BY <1>1
  <2>3. aborted \in BOOLEAN
    BY <1>1
  <2> QED BY <2>1, <2>2, <2>3 DEF TypeOK
<1>6. /\ files[1].path = Root /\ files[1].parent = 0 /\ files[1].next = 0
      /\ files[1].first = 0 /\ files[1].valid
  BY <1>3 DEF Blank
<1>7. 1 \in Ids
  BY <1>1 DEF Ids
<1>8. EntriesKnown
  BY <1>2, <1>6, <1>7 DEF EntriesKnown, Known
<1>9. OnePathOneFile /\ ParentLinks /\ OnAList
  BY <1>2 DEF OnePathOneFile, ParentLinks, OnAList
<1>10. ListLinks
  BY <1>2, <1>6 DEF ListLinks
<1> QED BY <1>5, <1>8, <1>9, <1>10 DEF IInv

(* Looking a path up returns the file that has it, or 0 if there is none. *)
LEMMA LookupSpec ==
  ASSUME NEW p
  PROVE  \/ Lookup(p) \in Ids /\ files[Lookup(p)].path = p
         \/ Lookup(p) = 0 /\ \A id \in Ids : files[id].path # p
BY DEF Lookup

(* A step that keeps every link, every path and every known file keeps the *)
(* invariant.                                                              *)
LEMMA SameLinks ==
  ASSUME IInv, TypeOK', allocated' = allocated,
         \A id \in FileIDs :
           /\ files'[id].path = files[id].path
           /\ files'[id].parent = files[id].parent
           /\ files'[id].first = files[id].first
           /\ files'[id].next = files[id].next
           /\ files[id].valid \/ files[id].deleted => files'[id].valid \/ files'[id].deleted
  PROVE  IInv'
<1>1. Ids' = Ids /\ Ids \subseteq FileIDs /\ 1 \in FileIDs
  BY FileTableAssumption DEF Ids, FileIDs, IInv, TypeOK
<1>2. EntriesKnown'
  <2>1. \A id \in Ids : Known(id)' /\ files'[id].path \in Paths
    BY <1>1 DEF IInv, EntriesKnown, Known
  <2> QED BY <1>1, <2>1 DEF IInv, EntriesKnown
<1>3. OnePathOneFile'
  BY <1>1 DEF IInv, OnePathOneFile
<1>4. ParentLinks'
  BY <1>1 DEF IInv, ParentLinks
<1>5. ListLinks'
  BY <1>1 DEF IInv, ListLinks
<1>6. OnAList'
  BY <1>1 DEF IInv, OnAList, ParentLinks
<1> QED BY <1>2, <1>3, <1>4, <1>5, <1>6 DEF IInv

(* A new file becomes its parent's first child. *)
LEMMA AddNewInv ==
  ASSUME IInv, NEW p \in Paths \ {Root}, NEW dir \in BOOLEAN, NEW c \in ContainerIDs,
         NEW n \in ContainerFileIDs \cup {0}, AddNew(p, dir, c, n),
         NEW new, new = allocated
  PROVE  IInv' /\ Grows
<1> DEFINE pid == Lookup(Parent(p))
           f   == Made(NewFile(p, pid, c), dir, n)
<1>1. /\ allocated \in Nat /\ new \in FileIDs /\ new \notin Ids
      /\ Ids \subseteq FileIDs /\ 1 \in Ids /\ 0 \notin Ids
      /\ allocated' = allocated + 1
      /\ Ids' = Ids \cup {new}
      /\ \A id \in Ids : id \in Nat /\ id < new
  BY FileTableAssumption DEF AddNew, Room, IInv, TypeOK, Ids, FileIDs
<1>2. pid \in Ids /\ files[pid].path = Parent(p)
  BY LookupSpec, <1>1 DEF AddNew, Accepts, ValidDirectory
<1>3. \A id \in Ids : files[id].path # p
  BY LookupSpec, <1>1 DEF AddNew
<1>4. files' = [files EXCEPT ![new] = f, ![pid].first = new]
  BY DEF AddNew
<1> HIDE DEF pid
<1>5. files \in [FileIDs -> File] /\ files[pid].first \in 0 .. MaxFiles
  BY <1>1, <1>2 DEF IInv, TypeOK, File
<1>6. Blank \in File /\ Blank.first = 0
  BY FileTableAssumption DEF Blank, File
<1>7. /\ f \in File
      /\ f.path = p /\ f.parent = pid /\ f.first = 0 /\ f.next = files[pid].first /\ f.valid
  <2>1. p \in Paths \cup {NoPath} /\ pid \in 0 .. MaxFiles
    BY <1>1, <1>2, FileTableAssumption DEF FileIDs
  <2>2. /\ NewFile(p, pid, c) \in File
        /\ NewFile(p, pid, c).path = p
        /\ NewFile(p, pid, c).parent = pid
        /\ NewFile(p, pid, c).first = 0
        /\ NewFile(p, pid, c).next = files[pid].first
    <3> HIDE DEF f
    <3> QED BY <2>1, <1>5, <1>6 DEF NewFile, File
  <2>3. \A r \in File : /\ Made(r, dir, n) \in File
                        /\ Made(r, dir, n).path = r.path
                        /\ Made(r, dir, n).parent = r.parent
                        /\ Made(r, dir, n).first = r.first
                        /\ Made(r, dir, n).next = r.next
                        /\ Made(r, dir, n).valid
    <3> HIDE DEF f
    <3> QED BY DEF Made, File
  <2> QED BY <2>2, <2>3
<1> HIDE DEF f
<1>8. /\ files'[new] = f
      /\ files'[pid] = [files[pid] EXCEPT !.first = new]
      /\ \A id \in Ids : id # pid => files'[id] = files[id]
  BY <1>1, <1>2, <1>4, <1>5
<1>9. TypeOK'
  <2>1. [files[pid] EXCEPT !.first = new] \in File
    <3>1. new \in 0 .. MaxFiles
      BY <1>1, FileTableAssumption DEF FileIDs
    <3>2. files[pid] \in File
      BY <1>1, <1>2, <1>5
    <3> QED BY <3>1, <3>2 DEF File
  <2>2. files' \in [FileIDs -> File]
    BY <2>1, <1>1, <1>2, <1>4, <1>5, <1>7
  <2>3. allocated' \in 2 .. MaxFiles + 1 /\ aborted' \in BOOLEAN
    BY <1>1, FileTableAssumption DEF AddNew, Room, IInv, TypeOK
  <2> QED BY <2>2, <2>3 DEF TypeOK
<1>10. /\ files'[new].path = p /\ files'[new].parent = pid /\ files'[new].first = 0
       /\ files'[new].next = files[pid].first /\ files'[new].valid
  BY <1>7, <1>8
<1>11. \A id \in Ids :
         /\ files'[id].path = files[id].path
         /\ files'[id].parent = files[id].parent
         /\ files'[id].next = files[id].next
         /\ files'[id].valid = files[id].valid
         /\ files'[id].deleted = files[id].deleted
         /\ files'[id].first = IF id = pid THEN new ELSE files[id].first
  <2> SUFFICES ASSUME NEW id \in Ids
               PROVE  /\ files'[id].path = files[id].path
                      /\ files'[id].parent = files[id].parent
                      /\ files'[id].next = files[id].next
                      /\ files'[id].valid = files[id].valid
                      /\ files'[id].deleted = files[id].deleted
                      /\ files'[id].first = IF id = pid THEN new ELSE files[id].first
    OBVIOUS
  <2>1. files[id] \in File
    BY <1>1, <1>5
  <2> QED BY <2>1, <1>8 DEF File
<1>12. EntriesKnown'
  <2>1. \A id \in Ids : Known(id)'
    BY <1>1, <1>11 DEF IInv, EntriesKnown, Known
  <2>2. Known(new)'
    BY <1>1, <1>10 DEF Known
  <2> QED BY <2>1, <2>2, <1>1, <1>10, <1>11 DEF IInv, EntriesKnown
<1>13. OnePathOneFile'
  BY <1>1, <1>3, <1>10, <1>11 DEF IInv, OnePathOneFile
<1>14. ParentLinks'
  <2>1. \A id \in Ids \ {1} : /\ files'[id].parent \in Ids' /\ files'[id].parent < id
                              /\ files'[id].path # Root
                              /\ files'[files'[id].parent].path = Parent(files'[id].path)
    <3>1. \A id \in Ids \ {1} : /\ files[id].parent \in Ids /\ files[id].parent < id
                                /\ files[id].path # Root
                                /\ files[files[id].parent].path = Parent(files[id].path)
      BY DEF IInv, ParentLinks
    <3>2. \A id \in Ids \ {1} : /\ files'[id].parent = files[id].parent
                                /\ files'[id].path = files[id].path
                                /\ files'[files[id].parent].path = files[files[id].parent].path
      BY <3>1, <1>11
    <3> QED BY <3>1, <3>2, <1>1
  <2>2. /\ files'[new].parent \in Ids' /\ files'[new].parent < new
        /\ files'[new].path # Root
        /\ files'[files'[new].parent].path = Parent(files'[new].path)
    BY <1>1, <1>2, <1>10, <1>11
  <2> QED BY <2>1, <2>2, <1>1 DEF ParentLinks
<1>15. ListLinks'
  <2>1. \A id \in Ids :
          /\ files[id].first # 0 => /\ files[id].first \in Ids
                                    /\ files[files[id].first].parent = id
          /\ files[id].next # 0 => /\ files[id].next \in Ids
                                   /\ files[id].next < id
                                   /\ files[files[id].next].parent = files[id].parent
    BY DEF IInv, ListLinks
  <2>2. ASSUME NEW id \in Ids
        PROVE  files'[id].first # 0 => /\ files'[id].first \in Ids'
                                       /\ files'[files'[id].first].parent = id
    <3>1. CASE id = pid
      BY <3>1, <1>1, <1>10, <1>11
    <3>2. CASE id # pid
      <4>1. files'[id].first = files[id].first
        BY <3>2, <1>11
      <4>2. ASSUME files[id].first # 0
            PROVE  /\ files[id].first \in Ids
                   /\ files'[files[id].first].parent = id
        BY <4>2, <2>1, <1>11
      <4> QED BY <4>1, <4>2, <1>1
    <3> QED BY <3>1, <3>2
  <2>3. ASSUME NEW id \in Ids
        PROVE  files'[id].next # 0 => /\ files'[id].next \in Ids' /\ files'[id].next < id
                                      /\ files'[files'[id].next].parent = files'[id].parent
    <3>1. files'[id].next = files[id].next /\ files'[id].parent = files[id].parent
      BY <1>11
    <3>2. ASSUME files[id].next # 0
          PROVE  /\ files[id].next \in Ids /\ files[id].next < id
                 /\ files'[files[id].next].parent = files[id].parent
      BY <3>2, <2>1, <1>11
    <3> QED BY <3>1, <3>2, <1>1
  <2>4. files'[new].first = 0
    BY <1>10
  <2>5. files'[new].next # 0 => /\ files'[new].next \in Ids' /\ files'[new].next < new
                                /\ files'[files'[new].next].parent = files'[new].parent
    <3>1. files[pid].first # 0 =>
            /\ files[pid].first \in Ids
            /\ files'[files[pid].first].parent = pid
      BY <2>1, <1>2, <1>11
    <3> QED BY <3>1, <1>1, <1>10
  <2> QED BY <2>2, <2>3, <2>4, <2>5, <1>1 DEF ListLinks
<1>16. OnAList'
  <2>1. ASSUME NEW id \in Ids \ {1}
        PROVE  \/ files'[files'[id].parent].first = id
               \/ \E s \in Ids' : s > id /\ files'[s].next = id
                                         /\ files'[s].parent = files'[id].parent
    <3>1. files[id].parent \in Ids
      BY DEF IInv, ParentLinks
    <3>2. CASE \E s \in Ids : s > id /\ files[s].next = id /\ files[s].parent = files[id].parent
      BY <3>2, <1>1, <1>11
    <3>3. CASE files[files[id].parent].first = id /\ files[id].parent # pid
      BY <3>1, <3>3, <1>11
    <3>4. CASE files[files[id].parent].first = id /\ files[id].parent = pid
      <4>1. files'[new].next = id /\ files'[new].parent = files'[id].parent /\ new > id
        BY <3>4, <1>1, <1>10, <1>11
      <4> QED BY <4>1, <1>1
    <3> QED BY <3>2, <3>3, <3>4 DEF IInv, OnAList
  <2>2. files'[files'[new].parent].first = new
    BY <1>2, <1>10, <1>11
  <2> QED BY <2>1, <2>2, <1>1 DEF OnAList
<1>17. Grows
  BY <1>1, <1>2, <1>3, <1>10, <1>11 DEF Grows
<1> QED BY <1>9, <1>12, <1>13, <1>14, <1>15, <1>16, <1>17 DEF IInv

(* Rewriting one entry keeps the invariant if it keeps the entry's links    *)
(* and path and leaves it valid or deleted.                                 *)
LEMMA EntryInv ==
  ASSUME IInv, allocated' = allocated, aborted' \in BOOLEAN,
         NEW id \in Ids, NEW g \in File, files' = [files EXCEPT ![id] = g],
         g.path = files[id].path, g.parent = files[id].parent,
         g.first = files[id].first, g.next = files[id].next,
         g.valid \/ g.deleted
  PROVE  IInv' /\ Grows
<1>1. id \in FileIDs /\ files \in [FileIDs -> File] /\ allocated \in 2 .. MaxFiles + 1
  BY FileTableAssumption DEF IInv, TypeOK, Ids, FileIDs
<1>2. TypeOK'
  BY <1>1 DEF TypeOK
<1>3. files'[id] = g /\ \A k \in FileIDs : k # id => files'[k] = files[k]
  BY <1>1
<1>4. \A k \in FileIDs :
        /\ files'[k].path = files[k].path
        /\ files'[k].parent = files[k].parent
        /\ files'[k].first = files[k].first
        /\ files'[k].next = files[k].next
        /\ files[k].valid \/ files[k].deleted => files'[k].valid \/ files'[k].deleted
  <2> SUFFICES ASSUME NEW k \in FileIDs
               PROVE  /\ files'[k].path = files[k].path
                      /\ files'[k].parent = files[k].parent
                      /\ files'[k].first = files[k].first
                      /\ files'[k].next = files[k].next
                      /\ files[k].valid \/ files[k].deleted
                           => files'[k].valid \/ files'[k].deleted
    OBVIOUS
  <2>1. CASE k = id
    BY <2>1, <1>3
  <2>2. CASE k # id
    BY <2>2, <1>3
  <2> QED BY <2>1, <2>2
<1>5. Grows
  BY <1>4, FileTableAssumption DEF Grows, IInv, TypeOK, Ids, FileIDs
<1> QED BY <1>2, <1>4, <1>5, SameLinks

(* What PutOver makes of an entry. *)
LEMMA PutOverInv ==
  ASSUME IInv, NEW p \in Paths \ {Root}, NEW dir \in BOOLEAN, NEW c \in ContainerIDs,
         NEW n \in ContainerFileIDs \cup {0}, PutOver(p, dir, c, n)
  PROVE  IInv' /\ Grows
<1> DEFINE g(x) == Made([files[x] EXCEPT !.cid = c], dir, n)
<1>1. PICK x \in Ids : files' = [files EXCEPT ![x] = g(x)]
  BY LookupSpec DEF PutOver
<1>2. allocated' = allocated /\ aborted' \in BOOLEAN /\ files[x] \in File
  BY FileTableAssumption DEF PutOver, IInv, TypeOK, Ids, FileIDs
<1>3. /\ g(x).path = files[x].path /\ g(x).parent = files[x].parent
      /\ g(x).first = files[x].first /\ g(x).next = files[x].next
      /\ g(x).valid
  BY <1>2 DEF Made, File
<1>4. g(x) \in File
  BY <1>2 DEF Made, File
<1> HIDE DEF g
<1> QED BY <1>1, <1>2, <1>3, <1>4, EntryInv

(* What is left when an assertion stops the program. *)
LEMMA PutAbortsInv ==
  ASSUME IInv, NEW p \in Paths \ {Root}, NEW dir \in BOOLEAN, NEW c \in ContainerIDs,
         PutAborts(p, dir, c)
  PROVE  IInv' /\ Grows
<1> DEFINE g(x) == [files[x] EXCEPT !.cid = c, !.cfid = 0]
<1>1. PICK x \in Ids : /\ files' = [files EXCEPT ![x].cid = c, ![x].cfid = 0]
                       /\ files[x].valid
  BY LookupSpec DEF PutAborts, ValidFile, ValidDirectory
<1>2. /\ allocated' = allocated /\ aborted' \in BOOLEAN /\ files[x] \in File
      /\ x \in FileIDs /\ files \in [FileIDs -> File]
  BY FileTableAssumption DEF PutAborts, IInv, TypeOK, Ids, FileIDs
<1>3. files' = [files EXCEPT ![x] = g(x)]
  BY <1>1, <1>2
<1>4. /\ g(x).path = files[x].path /\ g(x).parent = files[x].parent
      /\ g(x).first = files[x].first /\ g(x).next = files[x].next
      /\ g(x).valid
  BY <1>1, <1>2 DEF File
<1>5. g(x) \in File
  BY <1>2 DEF File
<1> HIDE DEF g
<1> QED BY <1>2, <1>3, <1>4, <1>5, EntryInv

(* What registering an archive's entry makes of an entry that is there. *)
LEMMA RegisterOverInv ==
  ASSUME IInv, NEW p \in Paths \ {Root}, NEW dir \in BOOLEAN, NEW c \in ContainerIDs,
         NEW n \in ContainerFileIDs \cup {0}, RegisterOver(p, dir, c, n)
  PROVE  IInv' /\ Grows
<1> DEFINE g(x) == [files[x] EXCEPT !.cid = c, !.cfid = n, !.valid = TRUE,
                                    !.directory = @ \/ (dir /\ ~files[x].valid)]
<1>1. PICK x \in Ids :
        files' = IF ValidDirectory(x) THEN files
                 ELSE [files EXCEPT ![x].cid = c, ![x].cfid = n, ![x].valid = TRUE,
                                    ![x].directory = @ \/ (dir /\ ~files[x].valid)]
  BY LookupSpec DEF RegisterOver
<1>2. /\ allocated' = allocated /\ aborted' \in BOOLEAN /\ files[x] \in File
      /\ x \in FileIDs /\ files \in [FileIDs -> File]
  BY FileTableAssumption DEF RegisterOver, IInv, TypeOK, Ids, FileIDs
<1>3. CASE ValidDirectory(x)
  <2>1. files' = [files EXCEPT ![x] = files[x]] /\ files[x].valid
    BY <1>1, <1>2, <1>3 DEF ValidDirectory
  <2> QED BY <2>1, <1>2, EntryInv
<1>4. CASE ~ValidDirectory(x)
  <2>1. files' = [files EXCEPT ![x] = g(x)]
    BY <1>1, <1>2, <1>4
  <2>2. /\ g(x).path = files[x].path /\ g(x).parent = files[x].parent
        /\ g(x).first = files[x].first /\ g(x).next = files[x].next
        /\ g(x).valid
    BY <1>2 DEF File
  <2>3. g(x) \in File
    BY <1>2 DEF File
  <2> HIDE DEF g
  <2> QED BY <2>1, <2>2, <2>3, <1>2, EntryInv
<1> QED BY <1>3, <1>4

(* A deleted file keeps its place in the tree. *)
LEMMA DeleteInv ==
  ASSUME IInv, NEW x \in FileIDs, DeleteFile(x)
  PROVE  IInv' /\ Grows
<1>1. /\ x \in Ids /\ files' = [files EXCEPT ![x] = Deleted(files[x])]
      /\ allocated' = allocated /\ aborted' \in BOOLEAN /\ files[x] \in File
  BY FileTableAssumption DEF DeleteFile, Known, IInv, TypeOK, Ids, FileIDs
<1>2. /\ Deleted(files[x]) \in File
      /\ Deleted(files[x]).path = files[x].path
      /\ Deleted(files[x]).parent = files[x].parent
      /\ Deleted(files[x]).first = files[x].first
      /\ Deleted(files[x]).next = files[x].next
      /\ Deleted(files[x]).deleted
  BY <1>1 DEF Deleted, File
<1> QED BY <1>1, <1>2, EntryInv

(* Every step keeps the invariant. *)
LEMMA StepInv == IInv /\ [Next]_vars => IInv' /\ Grows
<1> SUFFICES ASSUME IInv, [Next]_vars PROVE IInv' /\ Grows
  OBVIOUS
<1>1. ASSUME NEW p \in Paths \ {Root}, NEW dir \in BOOLEAN, NEW c \in ContainerIDs,
             NEW n \in ContainerFileIDs \cup {0},
             \/ AddNew(p, dir, c, n)
             \/ PutOver(p, dir, c, n)
             \/ PutAborts(p, dir, c)
             \/ RegisterOver(p, dir, c, n)
      PROVE  IInv' /\ Grows
  BY <1>1, AddNewInv, PutOverInv, PutAbortsInv, RegisterOverInv
<1>2. ASSUME NEW id \in FileIDs,
             DeleteFile(id) \/ \E c \in ContainerIDs : DeleteOwned(id, c)
      PROVE  IInv' /\ Grows
  BY <1>2, DeleteInv DEF DeleteOwned
<1>3. CASE UNCHANGED vars
  BY <1>3 DEF vars, IInv, TypeOK, EntriesKnown, OnePathOneFile, ParentLinks, ListLinks,
              OnAList, Known, Ids, Grows
<1> QED BY <1>1, <1>2, <1>3 DEF Next

(* The table of files is well linked, whatever the containers do: the       *)
(* invariant of FileTable.cpp, for any number of files.                     *)
THEOREM FileTableInvariant == Spec => []IInv
BY InitInv, StepInv, PTL DEF Spec

(* A path has one file, so a client's file id and the index agree. *)
THEOREM PathsAreUnique == Spec => []OnePathOneFile
<1>1. IInv => OnePathOneFile
  BY DEF IInv
<1> QED BY <1>1, FileTableInvariant, PTL

(* The names on the way to the root spell the path of a file. *)
THEOREM ParentsSpellPaths == Spec => []ParentHoldsParentPath
<1>1. IInv => ParentHoldsParentPath
  BY DEF IInv, EntriesKnown, ParentLinks, ParentHoldsParentPath
<1> QED BY <1>1, FileTableInvariant, PTL

(* Going through a directory ends and shows only its children. *)
THEOREM EnumerationsAreSound == Spec => []EnumerationSound
<1>1. IInv => EnumerationSound
  BY DEF IInv, ListLinks, EnumerationSound, FirstChild, NextSibling, Known
<1> QED BY <1>1, FileTableInvariant, PTL

(* A non-empty set of naturals has a least element. *)
LEMMA LeastNat ==
  ASSUME NEW S \in SUBSET Nat, S # {}
  PROVE  \E n \in S : \A m \in S : n <= m
<1>1. PICK n \in S : \A m \in S : <<m, n>> \notin OpToRel(<, Nat)
  BY NatLessThanWellFounded, WFMin
<1>2. \A m \in S : ~(m < n)
  BY <1>1 DEF OpToRel
<1> QED BY <1>2

(* A set of files that holds a directory's first child and is closed under  *)
(* going on to the next sibling holds all its children: the largest child   *)
(* outside of it would be the first, or follow a larger one.                *)
LEMMA ChildrenReached == IInv => EnumerationComplete
<1> SUFFICES ASSUME IInv, NEW id \in Ids, NEW S \in SUBSET Ids,
                    FirstChild(id) # 0 => FirstChild(id) \in S,
                    \A s \in S : NextSibling(s) # 0 => NextSibling(s) \in S
             PROVE  {k \in Ids : files[k].parent = id} \subseteq S
  BY DEF EnumerationComplete
<1> DEFINE Missed == {k \in Ids : files[k].parent = id /\ k \notin S}
           Depths == {allocated - k : k \in Missed}
<1> SUFFICES ASSUME Missed # {} PROVE FALSE
  OBVIOUS
<1>1. allocated \in Nat /\ Ids \in SUBSET Nat /\ \A k \in Ids : 1 <= k /\ k < allocated
  BY FileTableAssumption DEF IInv, TypeOK, Ids
<1>2. Depths \in SUBSET Nat /\ Depths # {}
  BY <1>1
<1>3. PICK d \in Depths : \A e \in Depths : d <= e
  BY <1>2, LeastNat
<1>4. PICK k \in Missed : \A m \in Missed : m <= k
  <2>1. PICK k \in Missed : d = allocated - k
    BY <1>3
  <2>2. \A m \in Missed : d <= allocated - m
    BY <1>3
  <2> HIDE DEF Depths
  <2> QED BY <2>1, <2>2, <1>1
<1>5. k # 1 /\ Known(k)
  BY <1>1, <1>4 DEF IInv, EntriesKnown
<1>6. \/ files[id].first = k
      \/ \E s \in Ids : s > k /\ files[s].next = k /\ files[s].parent = id
  BY <1>4, <1>5 DEF IInv, OnAList
<1>7. CASE files[id].first = k
  BY <1>1, <1>4, <1>5, <1>7 DEF FirstChild
<1>8. CASE \E s \in Ids : s > k /\ files[s].next = k /\ files[s].parent = id
  <2>1. PICK s \in Ids : s > k /\ files[s].next = k /\ files[s].parent = id
    BY <1>8
  <2>2. s \in S
    BY <2>1, <1>1, <1>4
  <2>3. NextSibling(s) = k /\ k # 0
    BY <2>1, <1>1, <1>4, <1>5 DEF NextSibling
  <2> QED BY <2>2, <2>3, <1>4
<1> QED BY <1>6, <1>7, <1>8

(* Going through a directory misses no child, deleted ones included, for    *)
(* any number of files and any history of registrations.                    *)
THEOREM EnumerationsAreComplete == Spec => []EnumerationComplete
BY ChildrenReached, FileTableInvariant, PTL

(* Both: what HandleEnumerateChildren shows of a directory.                *)
THEOREM EnumerationsAreExact == Spec => []EnumerationExact
BY EnumerationsAreSound, EnumerationsAreComplete, PTL DEF EnumerationExact

(* A known file stays known, under the same path, in the same directory. *)
THEOREM FilesStayKnown == Spec => KnownForever
<1>1. IInv /\ IInv' /\ Grows =>
        \A id \in FileIDs : Known(id) =>
          /\ Known(id)'
          /\ files'[id].path = files[id].path
          /\ files'[id].parent = files[id].parent
  BY DEF IInv, EntriesKnown, Known, Grows
<1>2. IInv /\ [Next]_vars =>
        [\A id \in FileIDs : Known(id) =>
          /\ Known(id)'
          /\ files'[id].path = files[id].path
          /\ files'[id].parent = files[id].parent]_vars
  BY <1>1, StepInv
<1> QED BY <1>2, FileTableInvariant, PTL DEF Spec, KnownForever

(* A walk over the whole tree visits every file. *)
LEMMA AllListed == IInv => Listed = Ids
<1> SUFFICES ASSUME IInv, NEW S \in SUBSET Ids, 1 \in S,
                    \A s \in S : /\ FirstChild(s) # 0 => FirstChild(s) \in S
                                 /\ NextSibling(s) # 0 => NextSibling(s) \in S
             PROVE  Ids \subseteq S
  BY DEF Listed
<1>1. Ids \in SUBSET Nat
  BY DEF Ids
<1> DEFINE Missed == Ids \ S
<1> SUFFICES ASSUME Missed # {} PROVE FALSE
  OBVIOUS
<1>2. PICK k \in Missed : \A m \in Missed : k <= m
  BY <1>1, LeastNat
<1>3. files[k].parent \in Ids /\ files[k].parent < k
  BY <1>2 DEF IInv, ParentLinks
<1>4. files[k].parent \in S
  <2>1. files[k].parent \in Missed => k <= files[k].parent
    BY <1>2
  <2>2. k \in Nat /\ files[k].parent \in Nat
    BY <1>1, <1>2, <1>3
  <2>3. files[k].parent \notin Missed
    <3> HIDE DEF Missed
    <3> QED BY <2>1, <2>2, <1>3
  <2> QED BY <2>3, <1>3
<1>5. {m \in Ids : files[m].parent = files[k].parent} \subseteq S
  BY <1>3, <1>4, ChildrenReached DEF EnumerationComplete
<1> QED BY <1>2, <1>5

(* The linked entries implement a tree of paths that only grows, each path  *)
(* appearing below one that is shown already.                               *)
THEOREM FilesFormTree == Spec => ImplementsPathTree
<1>1. Init => Tree!Init
  <2> SUFFICES ASSUME Init PROVE {files[id].path : id \in Listed} = {Root}
    BY DEF Tree!Init
  <2>1. Ids = {1} /\ files[1].path = Root
    BY InitInv DEF Init, Ids, IInv, EntriesKnown
  <2> QED BY <2>1, InitInv, AllListed
<1> DEFINE Whole == Listed = Ids
<1>2. IInv' => Whole'
  <2>1. IInv => Whole
    BY AllListed
  <2> HIDE DEF Whole
  <2> QED BY <2>1, PTL
<1>3. IInv /\ IInv' /\ Grows => [Tree!Next]_{files[id].path : id \in Listed}
  <2> SUFFICES ASSUME IInv, IInv', Grows
               PROVE  [Tree!Next]_{files[id].path : id \in Listed}
    OBVIOUS
  <2>1. Listed = Ids /\ Listed' = Ids'
    BY <1>2, AllListed
  <2>2. \A id \in Ids : files'[id].path = files[id].path
    BY DEF Grows
  <2>3. CASE Ids' = Ids
    BY <2>1, <2>2, <2>3
  <2>4. CASE \E p \in Paths, new \in FileIDs :
               /\ Ids' = Ids \cup {new}
               /\ files'[new].path = p
               /\ \A id \in Ids : files[id].path # p
               /\ \E id \in Ids : files[id].path = Parent(p)
    <3>1. PICK p \in Paths, new \in FileIDs :
               /\ Ids' = Ids \cup {new}
               /\ files'[new].path = p
               /\ \A id \in Ids : files[id].path # p
               /\ \E id \in Ids : files[id].path = Parent(p)
      BY <2>4
    <3>2. /\ p \notin {files[id].path : id \in Listed}
          /\ Parent(p) \in {files[id].path : id \in Listed}
      BY <3>1, <2>1
    <3>3. {files'[id].path : id \in Listed'} = {files[id].path : id \in Listed} \cup {p}
      BY <3>1, <2>1, <2>2
    <3> QED BY <3>2, <3>3 DEF Tree!Next, Tree!Appear
  <2> QED BY <2>3, <2>4 DEF Grows
<1>4. IInv /\ [Next]_vars => [Tree!Next]_{files[id].path : id \in Listed}
  BY <1>3, StepInv
<1> QED BY <1>1, <1>4, FileTableInvariant, PTL DEF Spec, ImplementsPathTree, Tree!Spec
=============================================================================
