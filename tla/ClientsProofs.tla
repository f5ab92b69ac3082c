--------------------------- MODULE ClientsProofs ---------------------------
(***************************************************************************)
(* Proofs about StarVFS and Clients for any paths, contents, number of     *)
(* mounts, size of the containers, handles and texts.                      *)
(*                                                                         *)
(* The first part is about StarVFS alone: every file is routed to its own  *)
(* entry, the file table is used only through the operations of FileTable, *)
(* and a mount shows what it has registered.  Clients implements StarVFS,  *)
(* so all that holds under reads and writes too; the second part adds the  *)
(* invariant that ties the table of a folder to its disk.                  *)
(***************************************************************************)
EXTENDS Clients, SequenceTheorems, TLAPS

(***************************************************************************)
(* StarVFS                                                                 *)
(***************************************************************************)
(* Only the first entry of an archive is the root directory. *)
EntryPaths ==
  \A c \in DOMAIN containers : \A i \in DOMAIN Entries(c) :
    Entries(c)[i].path # FT!Root \/ (containers[c].kind = "archive" /\ i = 1)

(* The list of containers is no longer than the ids handed out, and every  *)
(* owner in the file table is on it.                                       *)
Numbered ==
  /\ Len(containers) <= interfaces
  /\ \A id \in FT!Ids : files[id].cid <= Len(containers)

(* The container that is about to load has the last id, under which nothing *)
(* is registered yet; the loops stay on entries of a mounted container.     *)
CallSound ==
  /\ call.op = "reload" =>
       /\ call.cid = interfaces /\ call.cid >= 1
       /\ \A id \in FT!Ids : files[id].cid # call.cid
  /\ call.op \in {"folder", "archive"} =>
       /\ call.cid \in DOMAIN containers
       /\ containers[call.cid].kind = call.op
       /\ call.at >= 1 /\ (call.op = "archive" => call.at # 1)
  /\ call.op = "force" =>
       /\ call.cid \in DOMAIN containers
       /\ call.path \in Paths \ {FT!Root}
       /\ call.at \in 1 .. Len(call.path)
       /\ Len(Entries(call.cid)) >= 1
       /\ Entries(call.cid)[Len(Entries(call.cid))].path = call.path

IInv ==
  /\ TypeOK
  /\ EntryPaths
  /\ Numbered
  /\ CallSound
  /\ Routed

(* No file changes its path or its place in its container. *)
Keeps(id) ==
  /\ id \in FT!Ids
  /\ files'[id].path = files[id].path
  /\ files'[id].cid = files[id].cid
  /\ files'[id].cfid = files[id].cfid

(* What registering path p as file n of container c changes. *)
Touches(p, c, n) ==
  \A id \in FT!Ids' :
    \/ Keeps(id)
    \/ files'[id].path = p /\ files'[id].cid = c /\ files'[id].cfid \in {0, n}

(* No entry of a container is lost or gets another path. *)
Growing ==
  /\ DOMAIN containers \subseteq DOMAIN containers'
  /\ \A c \in DOMAIN containers : \A i \in DOMAIN containers[c].entries :
       /\ i \in DOMAIN containers'[c].entries
       /\ containers'[c].entries[i].path = containers[c].entries[i].path

-----------------------------------------------------------------------------
LEMMA Ids == FT!TypeOK => FT!Ids \subseteq FT!FileIDs /\ allocated \in Nat
BY StarVFSAssumption DEF FT!TypeOK, FT!Ids, FT!FileIDs

LEMMA LookupSpec ==
  ASSUME NEW p
  PROVE  \/ FT!Lookup(p) \in FT!Ids /\ files[FT!Lookup(p)].path = p
         \/ FT!Lookup(p) = 0 /\ \A id \in FT!Ids : files[id].path # p
BY DEF FT!Lookup

LEMMA AddNewEffect ==
  ASSUME FT!TypeOK, NEW p \in Paths, NEW dir \in BOOLEAN, NEW c \in 1 .. MaxMounts,
         NEW n \in 0 .. MaxEntries, FT!AddNew(p, dir, c, n)
  PROVE  FT!TypeOK' /\ Touches(p, c, n)
<1> DEFINE pid == FT!Lookup(FT!Parent(p))
           new == FT!Made(FT!NewFile(p, pid, c), dir, n)
<1>1. /\ pid \in FT!Ids /\ FT!Ids \subseteq FT!FileIDs
      /\ allocated \in FT!FileIDs /\ allocated \notin FT!Ids
      /\ FT!Ids' = FT!Ids \cup {allocated} /\ aborted' \in BOOLEAN
      /\ allocated' \in 2 .. MaxFiles + 1
  <2>1. /\ pid \in FT!Ids /\ allocated <= MaxFiles
        /\ allocated' = allocated + 1 /\ aborted' = aborted
    BY DEF FT!AddNew, FT!Accepts, FT!ValidDirectory, FT!Room
  <2>2. MaxFiles \in Nat /\ allocated \in 2 .. MaxFiles + 1 /\ aborted \in BOOLEAN
    BY StarVFSAssumption DEF FT!TypeOK
  <2> HIDE DEF pid
  <2>3. allocated \in FT!FileIDs /\ allocated \notin FT!Ids /\ FT!Ids' = FT!Ids \cup {allocated}
    BY <2>1, <2>2 DEF FT!Ids, FT!FileIDs
  <2> QED BY <2>1, <2>2, <2>3, Ids
<1>2. files' = [files EXCEPT ![allocated] = new, ![pid].first = allocated]
  BY DEF FT!AddNew
<1>3. files[pid].first \in 0 .. MaxFiles /\ files[pid] \in FT!File
  BY <1>1 DEF FT!TypeOK, FT!File
<1> HIDE DEF pid
<1>4. new \in FT!File /\ new.path = p /\ new.cid = c /\ new.cfid = n
  <2> HIDE DEF new
  <2>1. /\ pid \in 0 .. MaxFiles /\ 0 \in 0 .. MaxFiles
        /\ c \in 1 .. MaxMounts \cup {0} /\ n \in 1 .. MaxEntries \cup {0}
        /\ 0 \in 1 .. MaxMounts \cup {0} /\ 0 \in 1 .. MaxEntries \cup {0}
    BY <1>1, StarVFSAssumption DEF FT!FileIDs
  <2>2. FT!Blank \in FT!File
    BY <2>1 DEF FT!Blank, FT!File
  <2> DEFINE r == FT!NewFile(p, pid, c)
  <2>3. r \in FT!File /\ r.path = p /\ r.cid = c
    BY <2>1, <2>2, <1>3 DEF FT!NewFile, FT!File
  <2> HIDE DEF r
  <2>4. /\ FT!Made(r, dir, n) \in FT!File /\ FT!Made(r, dir, n).path = r.path
        /\ FT!Made(r, dir, n).cid = r.cid /\ FT!Made(r, dir, n).cfid = n
    BY <2>1, <2>3 DEF FT!Made, FT!File
  <2> QED BY <2>3, <2>4 DEF new, r
<1> HIDE DEF new
<1>5. [files[pid] EXCEPT !.first = allocated] \in FT!File
  BY <1>1, <1>3 DEF FT!File, FT!FileIDs
<1>6. /\ files' \in [FT!FileIDs -> FT!File]
      /\ files'[allocated] = new
      /\ \A id \in FT!Ids : files'[id] = IF id = pid THEN [files[pid] EXCEPT !.first = allocated]
                                         ELSE files[id]
  BY <1>1, <1>2, <1>3, <1>4, <1>5 DEF FT!TypeOK
<1>7. \A id \in FT!Ids : Keeps(id)
  BY <1>3, <1>6 DEF Keeps, FT!File
<1>8. FT!TypeOK'
  BY <1>1, <1>6 DEF FT!TypeOK, FT!FileIDs, FT!File
<1> QED BY <1>1, <1>4, <1>6, <1>7, <1>8 DEF Touches

(* An entry is changed but keeps its path: it goes to a container, or stays *)
(* where it was.                                                            *)
LEMMA EntryEffect ==
  ASSUME FT!TypeOK, NEW id \in FT!Ids, NEW f \in FT!File, files' = [files EXCEPT ![id] = f],
         f.path = files[id].path, allocated' = allocated, aborted' \in BOOLEAN,
         NEW c, NEW n,
         \/ f.cid = c /\ f.cfid \in {0, n}
         \/ f.cid = files[id].cid /\ f.cfid = files[id].cfid
  PROVE  FT!TypeOK' /\ Touches(files[id].path, c, n)
<1>1. /\ FT!Ids' = FT!Ids /\ id \in FT!FileIDs /\ FT!Ids \subseteq FT!FileIDs
      /\ allocated' \in 2 .. MaxFiles + 1
  BY Ids DEF FT!Ids, FT!TypeOK
<1>2. /\ files' \in [FT!FileIDs -> FT!File]
      /\ \A k \in FT!Ids : files'[k] = IF k = id THEN f ELSE files[k]
  BY <1>1 DEF FT!TypeOK
<1>3. FT!TypeOK'
  BY <1>1, <1>2 DEF FT!TypeOK, FT!FileIDs, FT!File
<1> QED BY <1>1, <1>2, <1>3 DEF Touches, Keeps

LEMMA PutOverEffect ==
  ASSUME FT!TypeOK, NEW p \in Paths, NEW dir \in BOOLEAN, NEW c \in 1 .. MaxMounts,
         NEW n \in 0 .. MaxEntries, FT!PutOver(p, dir, c, n)
  PROVE  FT!TypeOK' /\ Touches(p, c, n)
<1> DEFINE id == FT!Lookup(p)
           f  == FT!Made([files[id] EXCEPT !.cid = c], dir, n)
<1>1. id \in FT!Ids /\ files[id].path = p /\ files[id] \in FT!File
  BY LookupSpec, Ids DEF FT!PutOver, FT!TypeOK
<1>2. f \in FT!File /\ f.path = p /\ f.cid = c /\ f.cfid = n
  <2>1. c \in 1 .. MaxMounts \cup {0} /\ n \in 1 .. MaxEntries \cup {0}
    BY StarVFSAssumption
  <2> HIDE DEF id
  <2> QED BY <1>1, <2>1 DEF FT!Made, FT!File
<1>3. files' = [files EXCEPT ![id] = f] /\ allocated' = allocated /\ aborted' \in BOOLEAN
  BY DEF FT!PutOver, FT!TypeOK
<1> HIDE DEF f, id
<1> QED BY <1>1, <1>2, <1>3, EntryEffect

LEMMA PutAbortsEffect ==
  ASSUME FT!TypeOK, NEW p \in Paths, NEW dir \in BOOLEAN, NEW c \in 1 .. MaxMounts,
         FT!PutAborts(p, dir, c)
  PROVE  FT!TypeOK' /\ Touches(p, c, 0)
<1> DEFINE id == FT!Lookup(p)
           f  == [files[id] EXCEPT !.cid = c, !.cfid = 0]
<1>1. id \in FT!Ids /\ files[id].path = p /\ files[id] \in FT!File /\ id \in FT!FileIDs
  BY LookupSpec, Ids DEF FT!PutAborts, FT!TypeOK
<1>2. f \in FT!File /\ f.path = p /\ f.cid = c /\ f.cfid = 0
  BY <1>1 DEF FT!File
<1>3. files' = [files EXCEPT ![id] = f] /\ allocated' = allocated /\ aborted' \in BOOLEAN
  BY <1>1 DEF FT!PutAborts, FT!TypeOK
<1> HIDE DEF f, id
<1> QED BY <1>1, <1>2, <1>3, EntryEffect

LEMMA RegisterOverEffect ==
  ASSUME FT!TypeOK, NEW p \in Paths, NEW dir \in BOOLEAN, NEW c \in 1 .. MaxMounts,
         NEW n \in 0 .. MaxEntries, FT!RegisterOver(p, dir, c, n)
  PROVE  FT!TypeOK' /\ Touches(p, c, n)
<1> DEFINE id == FT!Lookup(p)
           g  == [files[id] EXCEPT !.cid = c, !.cfid = n, !.valid = TRUE,
                                   !.directory = @ \/ (dir /\ ~files[id].valid)]
           f  == IF FT!ValidDirectory(id) THEN files[id] ELSE g
<1>1. /\ id \in FT!Ids /\ files[id].path = p /\ files[id] \in FT!File /\ id \in FT!FileIDs
      /\ files[id].directory \in BOOLEAN /\ files[id].valid \in BOOLEAN
  BY LookupSpec, Ids DEF FT!RegisterOver, FT!TypeOK, FT!File
<1>2. g \in FT!File /\ g.path = p /\ g.cid = c /\ g.cfid = n
  <2>1. (files[id].directory \/ (dir /\ ~files[id].valid)) \in BOOLEAN
    BY <1>1
  <2> DEFINE d == files[id].directory \/ (dir /\ ~files[id].valid)
  <2>2. g = [files[id] EXCEPT !.cid = c, !.cfid = n, !.valid = TRUE, !.directory = d]
    OBVIOUS
  <2> HIDE DEF d, g
  <2>3. d \in BOOLEAN
    BY <2>1 DEF d
  <2>4. c \in 1 .. MaxMounts \cup {0} /\ n \in 1 .. MaxEntries \cup {0}
    BY StarVFSAssumption
  <2> HIDE DEF id
  <2> QED BY <1>1, <2>2, <2>3, <2>4 DEF FT!File
<1>3. allocated' = allocated /\ aborted' \in BOOLEAN /\ files \in [FT!FileIDs -> FT!File]
  BY DEF FT!RegisterOver, FT!TypeOK
<1>4. files' = IF FT!ValidDirectory(id) THEN files ELSE [files EXCEPT ![id] = g]
  BY <1>1, <1>3 DEF FT!RegisterOver
<1> HIDE DEF g
<1>5. files' = [files EXCEPT ![id] = f]
  BY <1>1, <1>3, <1>4
<1>6. /\ f \in FT!File /\ f.path = p
      /\ \/ f.cid = c /\ f.cfid = n
         \/ f.cid = files[id].cid /\ f.cfid = files[id].cfid
  BY <1>1, <1>2
<1> HIDE DEF f, id
<1> QED BY <1>1, <1>3, <1>5, <1>6, EntryEffect

LEMMA DeleteEffect ==
  ASSUME FT!TypeOK, NEW id \in FT!FileIDs, FT!DeleteFile(id)
  PROVE  FT!TypeOK' /\ \A k \in FT!Ids' : Keeps(k)
<1>1. id \in FT!Ids /\ files[id] \in FT!File
  BY DEF FT!DeleteFile, FT!Known, FT!TypeOK
<1> DEFINE f == FT!Deleted(files[id])
<1>2. /\ f \in FT!File /\ f.path = files[id].path
      /\ f.cid = files[id].cid /\ f.cfid = files[id].cfid
  BY <1>1 DEF FT!Deleted, FT!File
<1>3. files' = [files EXCEPT ![id] = f] /\ allocated' = allocated /\ aborted' \in BOOLEAN
  BY <1>1 DEF FT!DeleteFile, FT!TypeOK
<1> HIDE DEF f
<1>4. FT!TypeOK'
  BY <1>1, <1>2, <1>3, EntryEffect
<1>5. FT!Ids' = FT!Ids /\ FT!Ids \subseteq FT!FileIDs
  BY <1>3, Ids DEF FT!Ids
<1>6. \A k \in FT!Ids : Keeps(k)
  BY <1>2, <1>3, <1>5 DEF Keeps, FT!TypeOK
<1> QED BY <1>4, <1>5, <1>6

-----------------------------------------------------------------------------
(* All operations that give a path a file or an owner, in one lemma. *)
LEMMA Registers ==
  ASSUME FT!TypeOK, NEW p \in Paths \ {FT!Root}, NEW dir \in BOOLEAN,
         NEW c \in 1 .. MaxMounts, NEW n \in 0 .. MaxEntries,
         \/ FT!AddNew(p, dir, c, n)
         \/ FT!PutOver(p, dir, c, n)
         \/ FT!PutAborts(p, dir, c)
         \/ FT!RegisterOver(p, dir, c, n)
  PROVE  FT!TypeOK' /\ Touches(p, c, n) /\ FT!Next
<1>1. n \in 1 .. MaxEntries \cup {0}
  BY StarVFSAssumption
<1>2. FT!Next
  BY <1>1 DEF FT!Next
<1>3. CASE FT!PutAborts(p, dir, c)
  BY <1>2, <1>3, PutAbortsEffect DEF Touches
<1> QED BY <1>2, <1>3, AddNewEffect, PutOverEffect, RegisterOverEffect

LEMMA FilesStay ==
  ASSUME FT!TypeOK, UNCHANGED <<files, allocated, aborted>>
  PROVE  /\ FT!TypeOK' /\ FT!Ids' = FT!Ids /\ \A id \in FT!Ids' : Keeps(id)
         /\ UNCHANGED FT!vars
BY DEF FT!TypeOK, FT!FileIDs, FT!File, FT!Ids, Keeps, FT!vars

(* A container gets other entries or is closed. *)
LEMMA ContainerChanges ==
  ASSUME containers \in Seq(Container), NEW c \in DOMAIN containers, NEW d \in Container,
         containers' = [containers EXCEPT ![c] = d]
  PROVE  /\ containers' \in Seq(Container)
         /\ Len(containers') = Len(containers) /\ DOMAIN containers' = DOMAIN containers
         /\ \A k \in DOMAIN containers : containers'[k] = IF k = c THEN d ELSE containers[k]
BY ExceptSeq

(* What is routed stays routed if the files that change are routed to an   *)
(* entry of their path.                                                    *)
LEMMA StaysRouted ==
  ASSUME IInv, Growing, NEW p, NEW c, NEW n, Touches(p, c, n),
         n # 0 => /\ c \in DOMAIN containers' /\ n \in DOMAIN containers'[c].entries
                  /\ containers'[c].entries[n].path = p
  PROVE  Routed'
<1> SUFFICES ASSUME NEW id \in FT!Ids', files'[id].cfid # 0
             PROVE  /\ files'[id].cid \in DOMAIN containers'
                    /\ files'[id].cfid \in DOMAIN containers'[files'[id].cid].entries
                    /\ containers'[files'[id].cid].entries[files'[id].cfid].path = files'[id].path
  BY DEF Routed, Entries
<1>1. CASE Keeps(id)
  BY <1>1 DEF Keeps, Growing, IInv, Routed, Entries
<1>2. CASE files'[id].path = p /\ files'[id].cid = c /\ files'[id].cfid \in {0, n}
  BY <1>2
<1> QED BY <1>1, <1>2 DEF Touches

(* A mounted container registers one of its entries, or a directory under   *)
(* no entry, or nothing.                                                    *)
LEMMA EntryRegistered ==
  ASSUME IInv, UNCHANGED <<interfaces, containers>>, FT!TypeOK',
         NEW p, NEW c \in DOMAIN containers, NEW n, Touches(p, c, n),
         n # 0 => n \in DOMAIN Entries(c) /\ Entries(c)[n].path = p
  PROVE  Routed' /\ EntryPaths' /\ Numbered'
<1>1. Growing
  BY DEF Growing
<1>2. Routed'
  BY <1>1, StaysRouted DEF Entries
<1>3. EntryPaths'
  BY DEF IInv, EntryPaths, Entries
<1>4. c <= Len(containers)
  BY DEF IInv, TypeOK, Numbered
<1>5. Numbered'
  BY <1>4 DEF IInv, Numbered, Touches, Keeps
<1> QED BY <1>2, <1>3, <1>5

(* Nothing is required of a call that has ended. *)
LEMMA Ended ==
  ASSUME call' \in {Idle, Stopped}
  PROVE  CallSound' /\ call' \in Call
<1>1. call'.op \in {"idle", "stopped"}
  BY DEF Idle, Stopped
<1>2. call' \in Call
  BY StarVFSAssumption DEF Idle, Stopped, Call
<1> QED BY <1>1, <1>2 DEF CallSound

-----------------------------------------------------------------------------
LEMMA MountRefusedInv ==
  ASSUME IInv, MountRefused
  PROVE  IInv' /\ UNCHANGED FT!vars
<1>1. /\ FT!TypeOK' /\ FT!Ids' = FT!Ids /\ \A id \in FT!Ids' : Keeps(id)
      /\ UNCHANGED FT!vars
  BY FilesStay DEF MountRefused, IInv, TypeOK
<1>2. CallSound' /\ call' \in Call
  BY Ended DEF MountRefused
<1>3. interfaces' \in 0 .. MaxMounts /\ interfaces \in Nat /\ Len(containers) \in Nat
  BY StarVFSAssumption DEF MountRefused, IInv, TypeOK
<1>4. TypeOK'
  BY <1>1, <1>2, <1>3 DEF MountRefused, IInv, TypeOK, Entries
<1>5. \A id \in FT!Ids : files[id].cid \in Nat
  BY Ids, StarVFSAssumption DEF IInv, TypeOK, FT!TypeOK, FT!File
<1>6. Numbered'
  BY <1>1, <1>3, <1>5 DEF MountRefused, IInv, Numbered
<1>7. EntryPaths' /\ Routed'
  BY <1>1 DEF MountRefused, IInv, EntryPaths, Routed, Entries
<1> QED BY <1>1, <1>2, <1>4, <1>6, <1>7 DEF IInv

LEMMA MountAddedInv ==
  ASSUME IInv, NEW kind \in Kinds, MountAdded(kind)
  PROVE  IInv' /\ UNCHANGED FT!vars
<1> DEFINE d == [kind |-> kind, entries |-> << >>, open |-> TRUE]
<1>1. /\ FT!TypeOK' /\ FT!Ids' = FT!Ids /\ \A id \in FT!Ids' : Keeps(id)
      /\ UNCHANGED FT!vars
  BY FilesStay DEF MountAdded, IInv, TypeOK
<1>2. /\ interfaces' = interfaces + 1 /\ interfaces' \in 1 .. MaxMounts
      /\ interfaces \in Nat /\ Len(containers) \in Nat
  BY StarVFSAssumption DEF MountAdded, IInv, TypeOK
<1>3. d \in Container
  BY DEF Container
<1>4. /\ containers' \in Seq(Container) /\ Len(containers') = Len(containers) + 1
      /\ DOMAIN containers' = 1 .. Len(containers) + 1
      /\ \A c \in DOMAIN containers : containers'[c] = containers[c]
      /\ containers'[Len(containers) + 1] = d
  BY <1>3, AppendProperties DEF MountAdded, IInv, TypeOK
<1>5. \A c \in DOMAIN containers' : c \in DOMAIN containers \/ c = Len(containers) + 1
  BY <1>2, <1>4 DEF IInv, TypeOK
<1>6. call' = [op |-> "reload", cid |-> interfaces', at |-> 0, path |-> FT!Root]
  BY DEF MountAdded, Idle
<1>7. call' \in Call
  BY <1>2, <1>6, StarVFSAssumption DEF Call
<1>8. \A c \in DOMAIN containers' : Len(containers'[c].entries) <= MaxEntries
  BY <1>4, <1>5, StarVFSAssumption DEF IInv, TypeOK, Entries
<1>9. TypeOK'
  BY <1>1, <1>2, <1>4, <1>7, <1>8 DEF IInv, TypeOK, Entries
<1>10. \A id \in FT!Ids : /\ files[id].cid \in Nat
                            /\ files[id].cid <= Len(containers) /\ files[id].cid <= interfaces
  BY <1>2, Ids, StarVFSAssumption DEF IInv, TypeOK, FT!TypeOK, FT!File, Numbered
<1>11. Numbered'
  BY <1>1, <1>2, <1>4, <1>10 DEF IInv, Numbered, Keeps
<1>12. EntryPaths'
  BY <1>4, <1>5 DEF IInv, EntryPaths, Entries
<1>13. CallSound'
  BY <1>1, <1>2, <1>6, <1>10 DEF CallSound, Keeps
<1>14. Routed'
  <2>1. Growing
    BY <1>4, <1>5 DEF Growing, IInv, TypeOK
  <2>2. Touches(FT!Root, 0, 0)
    BY <1>1 DEF Touches
  <2> QED BY <2>1, <2>2, StaysRouted
<1> QED BY <1>1, <1>9, <1>11, <1>12, <1>13, <1>14 DEF IInv

(* Steps that leave the containers alone and whose call ends. *)
LEMMA CallEnds ==
  ASSUME IInv, UNCHANGED <<files, allocated, aborted, interfaces, containers>>,
         call' \in {Idle, Stopped}
  PROVE  IInv' /\ UNCHANGED FT!vars
<1>1. /\ FT!TypeOK' /\ FT!Ids' = FT!Ids /\ \A id \in FT!Ids' : Keeps(id)
      /\ UNCHANGED FT!vars
  BY FilesStay DEF IInv, TypeOK
<1>2. CallSound' /\ call' \in Call
  BY Ended
<1>3. TypeOK'
  BY <1>1, <1>2 DEF IInv, TypeOK, Entries
<1>4. EntryPaths' /\ Routed' /\ Numbered'
  BY <1>1 DEF IInv, EntryPaths, Routed, Numbered, Entries
<1> QED BY <1>1, <1>2, <1>3, <1>4 DEF IInv

LEMMA CloseContainerInv ==
  ASSUME IInv, NEW c \in DOMAIN containers, CloseContainer(c)
  PROVE  IInv' /\ UNCHANGED FT!vars
<1> DEFINE d == [containers[c] EXCEPT !.open = FALSE]
<1>1. /\ FT!TypeOK' /\ FT!Ids' = FT!Ids /\ \A id \in FT!Ids' : Keeps(id)
      /\ UNCHANGED FT!vars
  BY FilesStay DEF CloseContainer, IInv, TypeOK
<1>2. containers \in Seq(Container) /\ containers[c] \in Container
  BY DEF IInv, TypeOK
<1>3. /\ d \in Container /\ d.entries = containers[c].entries
      /\ d.kind = containers[c].kind
  BY <1>2 DEF Container
<1>4. containers' = [containers EXCEPT ![c] = d]
  BY DEF CloseContainer
<1> HIDE DEF d
<1>5. /\ containers' \in Seq(Container)
      /\ Len(containers') = Len(containers) /\ DOMAIN containers' = DOMAIN containers
      /\ \A k \in DOMAIN containers : /\ containers'[k].entries = containers[k].entries
                                      /\ containers'[k].kind = containers[k].kind
  BY <1>2, <1>3, <1>4, ContainerChanges
<1>6. CallSound' /\ call' \in Call
  BY Ended DEF CloseContainer
<1>7. TypeOK'
  BY <1>1, <1>5, <1>6 DEF CloseContainer, IInv, TypeOK, Entries
<1>8. Numbered'
  BY <1>1, <1>5 DEF CloseContainer, IInv, Numbered
<1>9. EntryPaths'
  BY <1>5 DEF IInv, EntryPaths, Entries
<1>10. Routed'
  BY <1>1, <1>5 DEF IInv, Routed, Entries, Keeps
<1> QED BY <1>1, <1>6, <1>7, <1>8, <1>9, <1>10 DEF IInv

(* What a container reads when it is mounted. *)
LEMMA ReloadInv ==
  ASSUME IInv, NEW content \in Contents \cup {<< >>}, Reload(content)
  PROVE  IInv' /\ UNCHANGED FT!vars
<1> DEFINE c  == call.cid
           es == IF containers[c].kind = "archive"
                 THEN <<[path |-> FT!Root, dir |-> TRUE]>> \o content ELSE content
           d  == [containers[c] EXCEPT !.entries = es]
<1>1. /\ FT!TypeOK' /\ FT!Ids' = FT!Ids /\ \A id \in FT!Ids' : Keeps(id)
      /\ UNCHANGED FT!vars
  BY FilesStay DEF Reload, IInv, TypeOK
<1>2. /\ containers \in Seq(Container) /\ c \in DOMAIN containers /\ c = interfaces
      /\ containers[c] \in Container /\ containers[c].kind \in Kinds
  <2>1. c \in Nat /\ c >= 1 /\ c <= Len(containers) /\ c = interfaces
    BY StarVFSAssumption DEF Reload, IInv, TypeOK, CallSound, Call
  <2>2. containers \in Seq(Container)
    BY DEF IInv, TypeOK
  <2>3. c \in DOMAIN containers /\ containers[c] \in Container
    BY <2>1, <2>2
  <2> QED BY <2>1, <2>2, <2>3 DEF Container
<1>3. /\ content \in Seq(Entry) /\ Len(content) + 1 <= MaxEntries /\ Len(content) \in Nat
      /\ \A i \in 1 .. Len(content) : content[i].path # FT!Root
  <2>1. CASE content \in Contents
    <3>1. content \in Seq(Entry) /\ WellFormed(content) /\ Len(content) < MaxEntries
      BY <2>1, StarVFSAssumption
    <3>2. \A i \in DOMAIN content : content[i].path # FT!Root
      BY <3>1 DEF WellFormed
    <3>3. Len(content) \in Nat /\ DOMAIN content = 1 .. Len(content)
      BY <3>1
    <3>4. MaxEntries \in Nat
      BY StarVFSAssumption
    <3> QED BY <3>1, <3>2, <3>3, <3>4
  <2>2. CASE content = << >>
    <3>1. MaxEntries \in Nat \ {0}
      BY StarVFSAssumption
    <3> QED BY <2>2, <3>1
  <2> QED BY <2>1, <2>2
<1>4. /\ es \in Seq(Entry) /\ Len(es) <= MaxEntries
      /\ \A i \in DOMAIN es : es[i].path # FT!Root \/ (containers[c].kind = "archive" /\ i = 1)
  <2> DEFINE top == [path |-> FT!Root, dir |-> TRUE]
  <2>1. <<top>> \in Seq(Entry) /\ Len(<<top>>) = 1
    BY StarVFSAssumption DEF Entry
  <2>2. CASE containers[c].kind = "archive"
    <3> HIDE DEF top
    <3>1. /\ es = <<top>> \o content
          /\ es \in Seq(Entry) /\ Len(es) = 1 + Len(content)
          /\ \A i \in 1 .. 1 + Len(content) : i # 1 => es[i] = content[i - 1]
      BY <1>3, <2>1, <2>2, ConcatProperties DEF top
    <3> HIDE DEF es
    <3>2. \A i \in DOMAIN es : i # 1 => i - 1 \in 1 .. Len(content)
      BY <1>3, <3>1
    <3> QED BY <1>3, <2>2, <3>1, <3>2, StarVFSAssumption
  <2>3. CASE containers[c].kind # "archive"
    BY <1>3, <2>3, StarVFSAssumption
  <2> QED BY <2>2, <2>3
<1>5. containers' = [containers EXCEPT ![c] = d]
  BY DEF Reload
<1> HIDE DEF es
<1>6. d \in Container /\ d.entries = es /\ d.kind = containers[c].kind
  BY <1>2, <1>4 DEF Container
<1> HIDE DEF d
<1>7. /\ containers' \in Seq(Container)
      /\ Len(containers') = Len(containers) /\ DOMAIN containers' = DOMAIN containers
      /\ \A k \in DOMAIN containers : containers'[k] = IF k = c THEN d ELSE containers[k]
  BY <1>2, <1>5, <1>6, ContainerChanges
<1>8. \/ call' = Idle
      \/ /\ d.kind \in {"folder", "archive"} /\ call'.op = d.kind /\ call'.cid = c
         /\ call'.at \in {1, 2} /\ (d.kind = "archive" => call'.at = 2)
         /\ call' \in Call
  <2>1. call \in Call
    BY DEF IInv, TypeOK
  <2>2. CASE containers[c].kind = "folder"
    BY <1>6, <2>1, <2>2 DEF Reload, Call
  <2>3. CASE containers[c].kind = "archive"
    BY <1>6, <2>1, <2>3 DEF Reload, Call
  <2>4. CASE containers[c].kind = "virtual"
    BY <2>4 DEF Reload
  <2> QED BY <1>2, <2>2, <2>3, <2>4 DEF Kinds
<1>9. CallSound' /\ call' \in Call
  <2>1. CASE call' = Idle
    BY <2>1, Ended
  <2>2. CASE call' # Idle
    BY <1>2, <1>7, <1>8, <2>2 DEF CallSound
  <2> QED BY <2>1, <2>2
<1>10. TypeOK'
  BY <1>1, <1>4, <1>6, <1>7, <1>9 DEF Reload, IInv, TypeOK, Entries
<1>11. EntryPaths'
  BY <1>4, <1>6, <1>7 DEF IInv, EntryPaths, Entries
<1>12. Numbered'
  BY <1>1, <1>7 DEF Reload, IInv, Numbered
<1>13. Routed'
  <2>1. \A id \in FT!Ids : files[id].cid # c
    BY DEF Reload, IInv, CallSound
  <2> QED BY <1>1, <1>7, <2>1 DEF IInv, Routed, Entries, Keeps
<1> QED BY <1>1, <1>9, <1>10, <1>11, <1>12, <1>13 DEF IInv

(* The entry a loop of a mount registers. *)
LEMMA CurrentEntry ==
  ASSUME IInv, call.op \in {"folder", "archive"}, HasCurrent
  PROVE  /\ call.cid \in DOMAIN containers /\ call.cid \in 1 .. MaxMounts
         /\ call.at \in DOMAIN Entries(call.cid) /\ call.at \in 1 .. MaxEntries
         /\ Current.path \in Paths \ {FT!Root} /\ Current.dir \in BOOLEAN
         /\ Current = Entries(call.cid)[call.at]
<1>1. /\ call.cid \in DOMAIN containers /\ containers[call.cid].kind = call.op
      /\ call.at \in Nat /\ call.at >= 1 /\ (call.op = "archive" => call.at # 1)
  BY DEF IInv, CallSound, TypeOK, Call
<1>2. /\ containers \in Seq(Container) /\ Len(containers) <= interfaces
      /\ interfaces \in 0 .. MaxMounts
  BY DEF IInv, TypeOK, Numbered
<1>3. Entries(call.cid) \in Seq(Entry) /\ Len(Entries(call.cid)) <= MaxEntries
  <2>1. containers[call.cid] \in Container
    BY <1>1, <1>2
  <2>2. Len(containers[call.cid].entries) <= MaxEntries
    BY <1>1 DEF IInv, TypeOK, Entries
  <2> QED BY <2>1, <2>2 DEF Container, Entries
<1>4. call.cid \in 1 .. MaxMounts
  BY <1>1, <1>2, StarVFSAssumption
<1>5. call.at \in DOMAIN Entries(call.cid) /\ call.at \in 1 .. MaxEntries
  BY <1>1, <1>2, <1>3, StarVFSAssumption DEF HasCurrent
<1>6. Current \in Entry /\ Current.path # FT!Root
  BY <1>1, <1>3, <1>5 DEF IInv, EntryPaths, Current
<1> QED BY <1>1, <1>4, <1>5, <1>6 DEF Entry, Current

(* The loop goes on to the next entry. *)
LEMMA NextEntrySound ==
  ASSUME IInv, UNCHANGED containers, NextEntry,
         call.op \in {"folder", "archive"} \/ (call.op = "force" /\ call.at < Len(call.path))
  PROVE  CallSound' /\ call' \in Call
<1>1. /\ call \in Call /\ call.at \in Nat
      /\ call' = [call EXCEPT !.at = call.at + 1]
  BY DEF IInv, TypeOK, Call, NextEntry
<1>2. /\ call'.op = call.op /\ call'.cid = call.cid /\ call'.path = call.path
      /\ call'.at = call.at + 1 /\ call' \in Call
  BY <1>1 DEF Call
<1>3. CASE call.op \in {"folder", "archive"}
  BY <1>1, <1>2, <1>3 DEF IInv, CallSound
<1>4. CASE call.op = "force" /\ call.at < Len(call.path)
  <2>1. call.path \in Seq(Names)
    BY <1>4, StarVFSAssumption DEF IInv, CallSound
  <2>2. call'.at \in 1 .. Len(call'.path)
    BY <1>1, <1>2, <1>4, <2>1
  <2> QED BY <1>2, <1>4, <2>2 DEF IInv, CallSound, Entries
<1> QED BY <1>2, <1>3, <1>4

(* Putting the parts together, for the steps that leave the containers. *)
LEMMA Together ==
  ASSUME IInv, UNCHANGED <<interfaces, containers>>, FT!TypeOK',
         CallSound' /\ call' \in Call, Routed' /\ EntryPaths' /\ Numbered'
  PROVE  IInv'
<1>1. TypeOK'
  BY DEF IInv, TypeOK, Entries
<1> QED BY <1>1 DEF IInv

LEMMA RegisterFolderEntryInv ==
  ASSUME IInv, RegisterFolderEntry
  PROVE  IInv' /\ (FT!Next \/ UNCHANGED FT!vars)
<1> DEFINE c == call.cid
           n == call.at
<1>1. /\ c \in DOMAIN containers /\ c \in 1 .. MaxMounts
      /\ n \in DOMAIN Entries(c) /\ n \in 0 .. MaxEntries
      /\ Current.path \in Paths \ {FT!Root} /\ Current.dir \in BOOLEAN
      /\ Entries(c)[n].path = Current.path
  BY CurrentEntry, StarVFSAssumption DEF RegisterFolderEntry
<1>2. FT!TypeOK /\ UNCHANGED <<interfaces, containers>>
  BY DEF IInv, TypeOK, RegisterFolderEntry
<1>3. \/ UNCHANGED <<files, allocated, aborted>>
      \/ FT!AddNew(Current.path, Current.dir, c, n)
      \/ FT!PutOver(Current.path, Current.dir, c, n)
      \/ FT!PutAborts(Current.path, Current.dir, c)
  BY DEF RegisterFolderEntry
<1>4. FT!TypeOK' /\ Touches(Current.path, c, n) /\ (FT!Next \/ UNCHANGED FT!vars)
  <2>1. CASE UNCHANGED <<files, allocated, aborted>>
    BY <1>2, <2>1, FilesStay DEF Touches
  <2>2. CASE ~UNCHANGED <<files, allocated, aborted>>
    BY <1>1, <1>2, <1>3, <2>2, Registers
  <2> QED BY <2>1, <2>2
<1>5. Routed' /\ EntryPaths' /\ Numbered'
  BY <1>1, <1>2, <1>4, EntryRegistered
<1>6. CallSound' /\ call' \in Call
  BY NextEntrySound, Ended DEF RegisterFolderEntry
<1> QED BY <1>2, <1>4, <1>5, <1>6, Together

LEMMA RegisterArchiveEntryInv ==
  ASSUME IInv, RegisterArchiveEntry
  PROVE  IInv' /\ (FT!Next \/ UNCHANGED FT!vars)
<1> DEFINE c == call.cid
           n == call.at
<1>1. /\ c \in DOMAIN containers /\ c \in 1 .. MaxMounts
      /\ n \in DOMAIN Entries(c) /\ n \in 0 .. MaxEntries
      /\ Current.path \in Paths \ {FT!Root} /\ Current.dir \in BOOLEAN
      /\ Entries(c)[n].path = Current.path
  BY CurrentEntry, StarVFSAssumption DEF RegisterArchiveEntry
<1>2. FT!TypeOK /\ UNCHANGED <<interfaces, containers>>
  BY DEF IInv, TypeOK, RegisterArchiveEntry
<1>3. \/ UNCHANGED <<files, allocated, aborted>>
      \/ FT!AddNew(Current.path, Current.dir, c, n)
      \/ FT!RegisterOver(Current.path, Current.dir, c, n)
  BY DEF RegisterArchiveEntry
<1>4. FT!TypeOK' /\ Touches(Current.path, c, n) /\ (FT!Next \/ UNCHANGED FT!vars)
  <2>1. CASE UNCHANGED <<files, allocated, aborted>>
    BY <1>2, <2>1, FilesStay DEF Touches
  <2>2. CASE ~UNCHANGED <<files, allocated, aborted>>
    BY <1>1, <1>2, <1>3, <2>2, Registers
  <2> QED BY <2>1, <2>2
<1>5. Routed' /\ EntryPaths' /\ Numbered'
  BY <1>1, <1>2, <1>4, EntryRegistered
<1>6. CallSound' /\ call' \in Call
  BY NextEntrySound, Ended DEF RegisterArchiveEntry
<1> QED BY <1>2, <1>4, <1>5, <1>6, Together

(* An entry is added behind a container's others. *)
LEMMA EntryAdded ==
  ASSUME IInv, NEW c \in DOMAIN containers, NEW e \in Entry, e.path # FT!Root,
         Len(Entries(c)) < MaxEntries,
         containers' = [containers EXCEPT ![c].entries = Append(@, e)]
  PROVE  /\ containers' \in Seq(Container)
         /\ \A k \in DOMAIN containers' : Len(containers'[k].entries) <= MaxEntries
         /\ EntryPaths' /\ Growing
         /\ Len(containers') = Len(containers) /\ DOMAIN containers' = DOMAIN containers
         /\ Len(containers'[c].entries) = Len(Entries(c)) + 1
         /\ containers'[c].entries[Len(Entries(c)) + 1] = e
         /\ Len(Entries(c)) + 1 \in DOMAIN containers'[c].entries
<1> DEFINE es == Append(containers[c].entries, e)
           d  == [containers[c] EXCEPT !.entries = es]
<1>1. containers \in Seq(Container) /\ containers[c] \in Container
  BY DEF IInv, TypeOK
<1>2. containers[c].entries \in Seq(Entry)
  BY <1>1 DEF Container
<1>3. Len(containers[c].entries) < MaxEntries
  BY DEF Entries
<1>4. /\ es \in Seq(Entry) /\ Len(es) = Len(containers[c].entries) + 1
      /\ \A i \in DOMAIN containers[c].entries : i \in DOMAIN es /\ es[i] = containers[c].entries[i]
      /\ \A i \in DOMAIN es : i \in DOMAIN containers[c].entries \/ i = Len(es)
      /\ es[Len(es)] = e /\ Len(es) <= MaxEntries /\ Len(es) \in DOMAIN es
  <2> HIDE DEF es
  <2>1. /\ es \in Seq(Entry) /\ Len(es) = Len(containers[c].entries) + 1
        /\ \A i \in 1 .. Len(containers[c].entries) : es[i] = containers[c].entries[i]
        /\ es[Len(containers[c].entries) + 1] = e
    BY <1>2, AppendProperties DEF es
  <2> DEFINE old == containers[c].entries
  <2>2. /\ Len(old) \in Nat /\ DOMAIN old = 1 .. Len(old)
        /\ Len(es) \in Nat /\ DOMAIN es = 1 .. Len(es) /\ Len(es) = Len(old) + 1
    BY <1>2, <2>1
  <2>3. Len(es) <= MaxEntries /\ Len(es) \in DOMAIN es
    BY <1>3, <2>2, StarVFSAssumption
  <2>4. /\ \A i \in DOMAIN old : i \in DOMAIN es
        /\ \A i \in DOMAIN es : i \in DOMAIN old \/ i = Len(es)
    BY <2>2
  <2> QED BY <2>1, <2>2, <2>3, <2>4
<1>5. containers' = [containers EXCEPT ![c] = d]
  OBVIOUS
<1> HIDE DEF es
<1>6. d \in Container /\ d.entries = es /\ d.kind = containers[c].kind
  BY <1>1, <1>4 DEF Container
<1> HIDE DEF d
<1>7. /\ containers' \in Seq(Container)
      /\ Len(containers') = Len(containers) /\ DOMAIN containers' = DOMAIN containers
      /\ \A k \in DOMAIN containers : containers'[k] = IF k = c THEN d ELSE containers[k]
  BY <1>1, <1>5, <1>6, ContainerChanges
<1>8. \A k \in DOMAIN containers' : Len(containers'[k].entries) <= MaxEntries
  BY <1>4, <1>6, <1>7 DEF IInv, TypeOK, Entries
<1>9. EntryPaths'
  <2> SUFFICES ASSUME NEW k \in DOMAIN containers', NEW i \in DOMAIN containers'[k].entries
               PROVE  \/ containers'[k].entries[i].path # FT!Root
                      \/ containers'[k].kind = "archive" /\ i = 1
    BY DEF EntryPaths, Entries
  <2>1. CASE k = c /\ i = Len(es)
    BY <1>4, <1>6, <1>7, <2>1
  <2>2. CASE ~(k = c /\ i = Len(es))
    <3>1. /\ k \in DOMAIN containers /\ i \in DOMAIN containers[k].entries
          /\ containers'[k].entries[i] = containers[k].entries[i]
          /\ containers'[k].kind = containers[k].kind
      BY <1>4, <1>6, <1>7, <2>2
    <3> QED BY <3>1 DEF IInv, EntryPaths, Entries
  <2> QED BY <2>1, <2>2
<1>10. Growing
  BY <1>4, <1>6, <1>7 DEF Growing
<1> QED BY <1>4, <1>6, <1>7, <1>8, <1>9, <1>10 DEF Entries

LEMMA CreateInv ==
  ASSUME IInv, NEW p \in Paths \ {FT!Root}, NEW dir \in BOOLEAN, Create(p, dir)
  PROVE  IInv' /\ FT!Next
<1> DEFINE base == FT!Lookup(FT!Parent(p))
           c    == files[base].cid
           n    == files[base].cfid
           q    == Append(Entries(c)[n].path, p[Len(p)])
           new  == NewEntryID(c)
           e    == [path |-> q, dir |-> dir]
<1>1. /\ base \in FT!Ids /\ c \in DOMAIN containers /\ n \in DOMAIN Entries(c)
      /\ new <= MaxEntries
  BY DEF Create, FT!ValidDirectory
<1>2. containers \in Seq(Container) /\ containers[c] \in Container /\ c \in 1 .. MaxMounts
  <2>1. containers \in Seq(Container) /\ Len(containers) <= interfaces /\ interfaces <= MaxMounts
    BY StarVFSAssumption DEF IInv, TypeOK, Numbered
  <2> QED BY <1>1, <2>1, StarVFSAssumption DEF IInv, TypeOK
<1>3. Entries(c) \in Seq(Entry) /\ n # 0
  BY <1>1, <1>2 DEF Container, Entries
<1>4. Entries(c)[n].path = FT!Parent(p)
  <2>1. files[base].path = FT!Parent(p)
    BY <1>1, LookupSpec, Ids DEF IInv, TypeOK, FT!Ids
  <2>2. Entries(c)[n].path = files[base].path
    BY <1>1, <1>3 DEF IInv, Routed
  <2> QED BY <2>1, <2>2
<1>5. q = p
  <2>1. p \in Seq(Names) /\ p # << >>
    BY StarVFSAssumption DEF FT!Root
  <2>2. Append(SubSeq(p, 1, Len(p) - 1), p[Len(p)]) = p
    BY <2>1
  <2> QED BY <1>4, <2>2 DEF FT!Parent
<1> HIDE DEF q
<1>6. e \in Entry /\ e.path # FT!Root /\ e.path = p /\ Len(Entries(c)) < MaxEntries
  BY <1>1, <1>3, <1>5, StarVFSAssumption DEF Entry, NewEntryID
<1>7. containers' = [containers EXCEPT ![c].entries = Append(@, e)]
  BY DEF Create, q
<1> HIDE DEF e
<1>8. /\ containers' \in Seq(Container)
      /\ \A k \in DOMAIN containers' : Len(containers'[k].entries) <= MaxEntries
      /\ EntryPaths' /\ Growing
      /\ Len(containers') = Len(containers) /\ DOMAIN containers' = DOMAIN containers
      /\ new \in DOMAIN containers'[c].entries /\ containers'[c].entries[new] = e
  BY <1>1, <1>6, <1>7, EntryAdded DEF NewEntryID
<1>9. new \in 0 .. MaxEntries
  BY <1>1, <1>3, StarVFSAssumption DEF NewEntryID
<1>10. \/ FT!AddNew(p, dir, c, new) \/ FT!PutOver(p, dir, c, new)
       \/ FT!PutAborts(p, dir, c)
  BY <1>5 DEF Create, q
<1> HIDE DEF new
<1>11. FT!TypeOK' /\ Touches(p, c, new) /\ FT!Next
  <2>1. FT!TypeOK
    BY DEF IInv, TypeOK
  <2> HIDE DEF c
  <2> QED BY <1>2, <1>9, <1>10, <2>1, Registers
<1>12. Routed'
  <2> HIDE DEF c, n
  <2> QED BY <1>1, <1>6, <1>8, <1>11, StaysRouted
<1>13. interfaces' = interfaces /\ c <= Len(containers)
  BY <1>1, <1>2 DEF Create, IInv, TypeOK
<1>14. Numbered'
  BY <1>8, <1>11, <1>13 DEF IInv, Numbered, Touches, Keeps
<1>15. CallSound' /\ call' \in Call
  BY Ended DEF Create
<1>16. TypeOK'
  BY <1>8, <1>11, <1>13, <1>15 DEF IInv, TypeOK, Entries
<1> QED BY <1>8, <1>11, <1>12, <1>14, <1>15, <1>16 DEF IInv

LEMMA DeleteFileInv ==
  ASSUME IInv, NEW id \in FT!FileIDs, DeleteFile(id)
  PROVE  IInv' /\ FT!Next
<1>1. UNCHANGED <<interfaces, containers>> /\ call = Idle /\ call' = call
      /\ FT!DeleteFile(id)
  BY DEF DeleteFile, FT!DeleteFile
<1>2. FT!TypeOK' /\ (\A k \in FT!Ids' : Keeps(k))
  BY <1>1, DeleteEffect DEF IInv, TypeOK
<1>3. FT!Next
  BY <1>1 DEF FT!Next
<1>4. CallSound' /\ call' \in Call
  BY <1>1, Ended
<1>5. Numbered' /\ EntryPaths'
  BY <1>1, <1>2 DEF IInv, Numbered, EntryPaths, Entries, Keeps
<1>6. Routed'
  BY <1>1, <1>2 DEF IInv, Routed, Entries, Keeps
<1> QED BY <1>1, <1>2, <1>3, <1>4, <1>5, <1>6, Together

LEMMA AddVirtualInv ==
  ASSUME IInv, NEW c \in DOMAIN containers, NEW p \in Paths \ {FT!Root}, AddVirtual(c, p)
  PROVE  IInv' /\ UNCHANGED FT!vars
<1> DEFINE e == [path |-> p, dir |-> FALSE]
<1>1. /\ FT!TypeOK' /\ FT!Ids' = FT!Ids /\ \A id \in FT!Ids' : Keeps(id)
      /\ UNCHANGED FT!vars
  BY FilesStay DEF AddVirtual, IInv, TypeOK
<1>2. e \in Entry /\ e.path # FT!Root /\ e.path = p /\ Len(Entries(c)) < MaxEntries
  BY DEF Entry, AddVirtual
<1>3. containers' = [containers EXCEPT ![c].entries = Append(@, e)]
  BY DEF AddVirtual
<1> HIDE DEF e
<1>4. /\ containers' \in Seq(Container)
      /\ \A k \in DOMAIN containers' : Len(containers'[k].entries) <= MaxEntries
      /\ EntryPaths' /\ Growing
      /\ Len(containers') = Len(containers) /\ DOMAIN containers' = DOMAIN containers
      /\ Len(containers'[c].entries) = Len(Entries(c)) + 1
      /\ containers'[c].entries[Len(Entries(c)) + 1] = e
  BY <1>2, <1>3, EntryAdded
<1>5. Routed'
  <2>1. Touches(FT!Root, 0, 0)
    BY <1>1 DEF Touches
  <2> QED BY <1>4, <2>1, StaysRouted
<1>6. /\ containers \in Seq(Container) /\ containers[c] \in Container
      /\ c \in 0 .. MaxMounts
  <2>1. /\ containers \in Seq(Container) /\ Len(containers) <= interfaces
        /\ interfaces \in 0 .. MaxMounts
    BY DEF IInv, TypeOK, Numbered
  <2> QED BY <2>1, StarVFSAssumption
<1>7. Len(Entries(c)) \in Nat
  BY <1>6 DEF Container, Entries
<1>8. p \in Seq(Names) /\ p # << >>
  BY StarVFSAssumption DEF FT!Root
<1>9. call' = [op |-> "force", cid |-> c, at |-> 1, path |-> p] /\ 1 \in 1 .. Len(p)
  BY <1>8 DEF AddVirtual
<1>10. call' \in Call
  BY <1>6, <1>9 DEF Call
<1>11. CallSound'
  BY <1>2, <1>4, <1>7, <1>9 DEF CallSound, Entries
<1>12. TypeOK'
  BY <1>1, <1>4, <1>10 DEF AddVirtual, IInv, TypeOK, Entries
<1>13. Numbered'
  BY <1>1, <1>4 DEF AddVirtual, IInv, Numbered
<1> QED BY <1>1, <1>4, <1>5, <1>11, <1>12, <1>13 DEF IInv

LEMMA ForceDirectoryInv ==
  ASSUME IInv, ForceDirectory
  PROVE  IInv' /\ (FT!Next \/ UNCHANGED FT!vars)
<1> DEFINE p == SubSeq(call.path, 1, call.at)
           c == call.cid
<1>1. /\ c \in DOMAIN containers /\ call.path \in Paths
      /\ call.at \in 1 .. Len(call.path) /\ call.at < Len(call.path)
  BY DEF IInv, CallSound, ForceDirectory
<1>2. c \in 1 .. MaxMounts /\ FT!TypeOK /\ UNCHANGED <<interfaces, containers>>
  <2>1. containers \in Seq(Container) /\ Len(containers) <= interfaces /\ interfaces \in 0 .. MaxMounts
    BY DEF IInv, TypeOK, Numbered
  <2>2. c \in 1 .. MaxMounts
    BY <1>1, <2>1, StarVFSAssumption
  <2> QED BY <2>2 DEF IInv, TypeOK, ForceDirectory
<1>3. p \in Paths \ {FT!Root}
  <2>1. call.path \in Seq(Names) /\ p \in Paths
    BY <1>1, StarVFSAssumption
  <2>2. Len(p) = call.at /\ Len(FT!Root) = 0
    BY <1>1, <2>1 DEF FT!Root
  <2> QED BY <1>1, <2>1, <2>2
<1>4. UNCHANGED <<files, allocated, aborted>> \/ FT!AddNew(p, TRUE, c, 0)
  BY DEF ForceDirectory
<1> HIDE DEF p
<1>5. FT!TypeOK' /\ Touches(p, c, 0) /\ (FT!Next \/ UNCHANGED FT!vars)
  <2>1. CASE UNCHANGED <<files, allocated, aborted>>
    BY <1>2, <2>1, FilesStay DEF Touches
  <2>2. CASE ~UNCHANGED <<files, allocated, aborted>>
    <3>1. 0 \in 0 .. MaxEntries /\ TRUE \in BOOLEAN
      BY StarVFSAssumption
    <3> QED BY <1>2, <1>3, <1>4, <2>2, <3>1, Registers
  <2> QED BY <2>1, <2>2
<1>6. Routed' /\ EntryPaths' /\ Numbered'
  BY <1>1, <1>2, <1>5, EntryRegistered
<1>7. CallSound' /\ call' \in Call
  BY <1>1, NextEntrySound, Ended DEF ForceDirectory
<1> QED BY <1>2, <1>5, <1>6, <1>7, Together

LEMMA ForceFileInv ==
  ASSUME IInv, ForceFile
  PROVE  IInv' /\ (FT!Next \/ UNCHANGED FT!vars)
<1> DEFINE p == call.path
           c == call.cid
           n == InternalID(c)
<1>1. /\ c \in DOMAIN containers /\ p \in Paths \ {FT!Root}
      /\ Len(Entries(c)) >= 1 /\ Entries(c)[Len(Entries(c))].path = p
  BY DEF IInv, CallSound, ForceFile
<1>2. c \in 1 .. MaxMounts /\ FT!TypeOK /\ UNCHANGED <<interfaces, containers>>
  <2>1. containers \in Seq(Container) /\ Len(containers) <= interfaces /\ interfaces \in 0 .. MaxMounts
    BY DEF IInv, TypeOK, Numbered
  <2>2. c \in 1 .. MaxMounts
    BY <1>1, <2>1, StarVFSAssumption
  <2> QED BY <2>2 DEF IInv, TypeOK, ForceFile
<1>3. n \in DOMAIN Entries(c) /\ n \in 0 .. MaxEntries /\ Entries(c)[n].path = p
  <2>1. containers \in Seq(Container) /\ Len(Entries(c)) <= MaxEntries
    BY <1>1 DEF IInv, TypeOK, Entries
  <2>2. containers[c] \in Container
    BY <1>1, <2>1
  <2>3. Entries(c) \in Seq(Entry)
    BY <2>2 DEF Container, Entries
  <2> QED BY <1>1, <2>1, <2>3, StarVFSAssumption DEF InternalID
<1>4. UNCHANGED <<files, allocated, aborted>> \/ FT!AddNew(p, FALSE, c, n)
  BY DEF ForceFile
<1> HIDE DEF n
<1>5. FT!TypeOK' /\ Touches(p, c, n) /\ (FT!Next \/ UNCHANGED FT!vars)
  <2>1. CASE UNCHANGED <<files, allocated, aborted>>
    BY <1>2, <2>1, FilesStay DEF Touches
  <2>2. CASE ~UNCHANGED <<files, allocated, aborted>>
    BY <1>1, <1>2, <1>3, <1>4, <2>2, Registers
  <2> QED BY <2>1, <2>2
<1>6. Routed' /\ EntryPaths' /\ Numbered'
  BY <1>1, <1>2, <1>3, <1>5, EntryRegistered
<1>7. CallSound' /\ call' \in Call
  BY Ended DEF ForceFile
<1> QED BY <1>2, <1>5, <1>6, <1>7, Together

-----------------------------------------------------------------------------
LEMMA InitInv == Init => IInv
<1> SUFFICES ASSUME Init PROVE IInv
  OBVIOUS
<1>1. /\ MaxFiles \in Nat /\ MaxFiles >= 1 /\ allocated = 2 /\ aborted = FALSE
      /\ interfaces = 0 /\ containers = << >> /\ call = Idle
  BY StarVFSAssumption DEF Init, FT!Init
<1>2. FT!Ids = {1} /\ 1 \in FT!FileIDs
  BY <1>1 DEF FT!Ids, FT!FileIDs
<1> DEFINE top == [FT!Blank EXCEPT !.path = FT!Root, !.valid = TRUE, !.directory = TRUE]
<1>3. files = [id \in FT!FileIDs |-> IF id = 1 THEN top ELSE FT!Blank]
  BY DEF Init, FT!Init
<1>4. /\ FT!Blank \in FT!File /\ top \in FT!File
      /\ top.cid = 0 /\ top.cfid = 0
  <2> HIDE DEF top
  <2>1. FT!Blank \in FT!File /\ FT!Blank.cid = 0 /\ FT!Blank.cfid = 0
    BY <1>1 DEF FT!Blank, FT!File
  <2>2. FT!Root \in Paths \cup {NoPath}
    BY StarVFSAssumption
  <2> QED BY <2>1, <2>2 DEF top, FT!File
<1> HIDE DEF top
<1>5. FT!TypeOK
  <2>1. files \in [FT!FileIDs -> FT!File]
    BY <1>3, <1>4
  <2>2. allocated \in 2 .. MaxFiles + 1
    BY <1>1
  <2>3. aborted \in BOOLEAN
    BY <1>1
  <2> QED BY <2>1, <2>2, <2>3 DEF FT!TypeOK
<1>6. TypeOK
  <2>1. call \in Call
    BY <1>1, StarVFSAssumption DEF Idle, Call
  <2> QED BY <1>1, <1>5, <2>1, StarVFSAssumption DEF TypeOK
<1>7. files[1].cid = 0 /\ files[1].cfid = 0
  BY <1>2, <1>3, <1>4
<1>8. EntryPaths /\ Numbered /\ Routed
  BY <1>1, <1>2, <1>7 DEF EntryPaths, Numbered, Routed
<1>9. CallSound
  BY <1>1 DEF CallSound, Idle
<1> QED BY <1>6, <1>8, <1>9 DEF IInv

(* Every step keeps the invariant, and is a step of the file table or none. *)
LEMMA StepInv == IInv /\ [Next]_vars => IInv' /\ [FT!Next]_(FT!vars)
<1> SUFFICES ASSUME IInv, [Next]_vars PROVE IInv' /\ [FT!Next]_(FT!vars)
  OBVIOUS
<1>1. CASE UNCHANGED vars
  <2>1. UNCHANGED FT!vars
    BY <1>1 DEF vars, FT!vars
  <2>2. FT!TypeOK' /\ FT!Ids' = FT!Ids /\ \A id \in FT!Ids' : Keeps(id)
    BY <1>1, FilesStay DEF vars, IInv, TypeOK
  <2>3. CallSound' /\ call' \in Call
    BY <1>1, <2>2 DEF vars, IInv, TypeOK, CallSound, Entries, Keeps
  <2>4. Routed' /\ EntryPaths' /\ Numbered'
    BY <1>1, <2>2 DEF vars, IInv, Routed, EntryPaths, Numbered, Entries
  <2>5. IInv'
    BY <1>1, <2>2, <2>3, <2>4, Together DEF vars
  <2> QED BY <2>1, <2>5
<1>2. CASE MountRefused
  BY <1>2, MountRefusedInv
<1>3. ASSUME NEW kind \in Kinds, MountAdded(kind) PROVE IInv' /\ [FT!Next]_(FT!vars)
  BY <1>3, MountAddedInv
<1>4. ASSUME NEW c \in DOMAIN containers, CloseContainer(c)
      PROVE  IInv' /\ [FT!Next]_(FT!vars)
  BY <1>4, CloseContainerInv
<1>5. ASSUME NEW p \in Paths \ {FT!Root}, NEW dir \in BOOLEAN, Create(p, dir)
      PROVE  IInv' /\ [FT!Next]_(FT!vars)
  BY <1>5, CreateInv
<1>6. ASSUME NEW id \in FT!FileIDs, DeleteFile(id) PROVE IInv' /\ [FT!Next]_(FT!vars)
  BY <1>6, DeleteFileInv
<1>7. ASSUME NEW c \in DOMAIN containers, NEW p \in Paths \ {FT!Root}, AddVirtual(c, p)
      PROVE  IInv' /\ [FT!Next]_(FT!vars)
  BY <1>7, AddVirtualInv
<1>8. CASE ReloadAsserts \/ ReloadFails \/ MountSucceeds
  BY <1>8, CallEnds DEF ReloadAsserts, ReloadFails, MountSucceeds
<1>9. ASSUME NEW content \in Contents \cup {<< >>}, Reload(content)
      PROVE  IInv' /\ [FT!Next]_(FT!vars)
  BY <1>9, ReloadInv
<1>10. CASE RegisterFolderEntry
  BY <1>10, RegisterFolderEntryInv
<1>11. CASE RegisterArchiveEntry
  BY <1>11, RegisterArchiveEntryInv
<1>12. CASE ForceDirectory
  BY <1>12, ForceDirectoryInv
<1>13. CASE ForceFile
  BY <1>13, ForceFileInv
<1> QED
  BY <1>1, <1>2, <1>3, <1>4, <1>5, <1>6, <1>7, <1>8, <1>9, <1>10, <1>11, <1>12, <1>13
  DEF Next, Begin, Step

(* The invariant of mounting, however many containers and files there are. *)
THEOREM StarVFSInvariant == Spec => []IInv
BY InitInv, StepInv, PTL DEF Spec

(* Whatever is mounted over what, closed, created, deleted and registered   *)
(* again: the content a file id leads to is the entry of the file's path.   *)
THEOREM EveryFileIsRouted == Spec => []Routed
<1>1. IInv => Routed
  BY DEF IInv
<1> QED BY <1>1, StarVFSInvariant, PTL

(* Mounts and clients use the file table only through FileTableInterface,   *)
(* so that what FileTableProofs proves of the table holds of it here.       *)
THEOREM UsesFileTable == Spec => ImplementsFileTable
<1>1. Init => FT!Init
  BY DEF Init
<1> QED BY <1>1, StepInv, StarVFSInvariant, PTL DEF Spec, ImplementsFileTable, FT!Spec

-----------------------------------------------------------------------------
(* The file keeps its path, its owner and its flags. *)
Same(id) ==
  /\ files'[id].path = files[id].path
  /\ files'[id].cid = files[id].cid
  /\ files'[id].cfid = files[id].cfid
  /\ files'[id].valid = files[id].valid
  /\ files'[id].directory = files[id].directory
  /\ files'[id].deleted = files[id].deleted

(* The file of path p is id: it is new, or the only one that changes.      *)
Only(p, id) ==
  /\ FT!Ids' = FT!Ids \cup {id}
  /\ files'[id].path = p
  /\ IF id \in FT!Ids THEN files[id].path = p ELSE \A k \in FT!Ids : files[k].path # p
  /\ \A k \in FT!Ids \ {id} : Same(k)

(* File id is now a valid one, entry n of container c. *)
Entered(id, dir, c, n) ==
  /\ files'[id].cid = c /\ files'[id].cfid = n
  /\ files'[id].valid /\ files'[id].directory = dir /\ ~files'[id].deleted

LEMMA AddNewExact ==
  ASSUME FT!TypeOK, NEW p, NEW dir, NEW c, NEW n, FT!AddNew(p, dir, c, n)
  PROVE  Only(p, allocated) /\ Entered(allocated, dir, c, n) /\ allocated \notin FT!Ids
<1> DEFINE pid == FT!Lookup(FT!Parent(p))
           new == FT!Made(FT!NewFile(p, pid, c), dir, n)
<1>1. /\ pid \in FT!Ids /\ FT!Ids \subseteq FT!FileIDs
      /\ allocated \in FT!FileIDs /\ allocated \notin FT!Ids
      /\ FT!Ids' = FT!Ids \cup {allocated}
  BY Ids, StarVFSAssumption
     DEF FT!AddNew, FT!Accepts, FT!ValidDirectory, FT!Room, FT!TypeOK, FT!Ids, FT!FileIDs
<1>2. files' = [files EXCEPT ![allocated] = new, ![pid].first = allocated]
  BY DEF FT!AddNew
<1>3. /\ new.path = p /\ new.cid = c /\ new.cfid = n
      /\ new.valid /\ new.directory = dir /\ ~new.deleted
  BY DEF FT!Made, FT!NewFile, FT!Blank
<1>4. \A k \in FT!Ids : files[k].path # p
  BY LookupSpec DEF FT!AddNew, FT!Ids
<1> HIDE DEF pid, new
<1>5. /\ files'[allocated] = new
      /\ \A k \in FT!Ids : files'[k] = IF k = pid THEN [files[pid] EXCEPT !.first = allocated]
                                       ELSE files[k]
  BY <1>1, <1>2 DEF FT!TypeOK
<1>6. \A k \in FT!Ids : Same(k)
  BY <1>1, <1>5 DEF Same, FT!TypeOK, FT!File
<1> QED BY <1>1, <1>3, <1>4, <1>5, <1>6 DEF Only, Entered

(* An entry is changed in place. *)
LEMMA EntryExact ==
  ASSUME FT!TypeOK, NEW id \in FT!Ids, NEW f, files' = [files EXCEPT ![id] = f],
         f.path = files[id].path, allocated' = allocated
  PROVE  Only(files[id].path, id) /\ files'[id] = f
<1>1. FT!Ids' = FT!Ids /\ id \in FT!FileIDs /\ FT!Ids \subseteq FT!FileIDs
  BY Ids DEF FT!Ids
<1>2. \A k \in FT!Ids : files'[k] = IF k = id THEN f ELSE files[k]
  BY <1>1 DEF FT!TypeOK
<1> QED BY <1>1, <1>2 DEF Only, Same

LEMMA PutOverExact ==
  ASSUME FT!TypeOK, NEW p, NEW dir, NEW c, NEW n, FT!PutOver(p, dir, c, n)
  PROVE  /\ Only(p, FT!Lookup(p)) /\ Entered(FT!Lookup(p), dir, c, n)
         /\ FT!Lookup(p) \in FT!Ids
<1> DEFINE id == FT!Lookup(p)
           f  == FT!Made([files[id] EXCEPT !.cid = c], dir, n)
<1>1. id \in FT!Ids /\ files[id].path = p /\ files[id] \in FT!File
  BY LookupSpec, Ids DEF FT!PutOver, FT!TypeOK
<1>2. f.path = p /\ f.cid = c /\ f.cfid = n /\ f.valid /\ f.directory = dir /\ ~f.deleted
  <2> HIDE DEF id
  <2> QED BY <1>1 DEF FT!Made, FT!File
<1>3. files' = [files EXCEPT ![id] = f] /\ allocated' = allocated
  BY DEF FT!PutOver
<1> HIDE DEF f, id
<1>4. Only(p, id) /\ files'[id] = f
  BY <1>1, <1>2, <1>3, EntryExact
<1>5. Entered(id, dir, c, n)
  BY <1>2, <1>4 DEF Entered
<1> QED BY <1>1, <1>4, <1>5 DEF id

LEMMA PutAbortsExact ==
  ASSUME FT!TypeOK, NEW p, NEW dir, NEW c, FT!PutAborts(p, dir, c)
  PROVE  /\ Only(p, FT!Lookup(p)) /\ FT!Lookup(p) \in FT!Ids
         /\ files'[FT!Lookup(p)].directory = files[FT!Lookup(p)].directory
         /\ files'[FT!Lookup(p)].cid = c /\ files'[FT!Lookup(p)].cfid = 0
<1> DEFINE id == FT!Lookup(p)
           f  == [files[id] EXCEPT !.cid = c, !.cfid = 0]
<1>1. id \in FT!Ids /\ files[id].path = p /\ files[id] \in FT!File /\ id \in FT!FileIDs
  BY LookupSpec, Ids DEF FT!PutAborts, FT!TypeOK
<1>2. f.path = p /\ f.cid = c /\ f.cfid = 0 /\ f.directory = files[id].directory
  BY <1>1 DEF FT!File
<1>3. files' = [files EXCEPT ![id] = f] /\ allocated' = allocated
  BY <1>1 DEF FT!PutAborts, FT!TypeOK
<1> HIDE DEF f, id
<1>4. Only(p, id) /\ files'[id] = f
  <2>1. f.path = files[id].path
    BY <1>1, <1>2
  <2>2. Only(files[id].path, id) /\ files'[id] = f
    BY <1>1, <1>3, <2>1, EntryExact
  <2> QED BY <1>1, <2>2
<1> QED BY <1>1, <1>2, <1>4 DEF id

LEMMA RegisterOverExact ==
  ASSUME FT!TypeOK, NEW p, NEW dir, NEW c, NEW n, FT!RegisterOver(p, dir, c, n)
  PROVE  /\ Only(p, FT!Lookup(p)) /\ FT!Lookup(p) \in FT!Ids
         /\ IF FT!ValidDirectory(FT!Lookup(p)) THEN Same(FT!Lookup(p))
            ELSE /\ files'[FT!Lookup(p)].cid = c /\ files'[FT!Lookup(p)].cfid = n
                 /\ files'[FT!Lookup(p)].valid
<1> DEFINE id == FT!Lookup(p)
           g  == [files[id] EXCEPT !.cid = c, !.cfid = n, !.valid = TRUE,
                                   !.directory = @ \/ (dir /\ ~files[id].valid)]
           f  == IF FT!ValidDirectory(id) THEN files[id] ELSE g
<1>1. /\ id \in FT!Ids /\ files[id].path = p /\ files[id] \in FT!File /\ id \in FT!FileIDs
  BY LookupSpec, Ids DEF FT!RegisterOver, FT!TypeOK
<1>2. g.path = p /\ g.cid = c /\ g.cfid = n /\ g.valid
  <2> HIDE DEF id
  <2> QED BY <1>1 DEF FT!File
<1>3. allocated' = allocated /\ files \in [FT!FileIDs -> FT!File]
  BY DEF FT!RegisterOver, FT!TypeOK
<1>4. files' = IF FT!ValidDirectory(id) THEN files ELSE [files EXCEPT ![id] = g]
  BY <1>1, <1>3 DEF FT!RegisterOver
<1> HIDE DEF g
<1>5. files' = [files EXCEPT ![id] = f] /\ f.path = p
  BY <1>1, <1>2, <1>3, <1>4
<1> HIDE DEF f, id
<1>6. Only(p, id) /\ files'[id] = f
  BY <1>1, <1>3, <1>5, EntryExact
<1>7. CASE FT!ValidDirectory(id)
  BY <1>1, <1>4, <1>6, <1>7 DEF Same, id
<1>8. CASE ~FT!ValidDirectory(id)
  BY <1>1, <1>2, <1>6, <1>8 DEF f, id
<1> QED BY <1>7, <1>8

LEMMA DeleteExact ==
  ASSUME FT!TypeOK, NEW id, FT!DeleteFile(id)
  PROVE  /\ id \in FT!Ids /\ Only(files[id].path, id)
         /\ ~files'[id].valid /\ files'[id].deleted
         /\ files'[id].directory = files[id].directory
         /\ files'[id].cid = files[id].cid /\ files'[id].cfid = files[id].cfid
<1>1. id \in FT!Ids /\ files[id] \in FT!File
  BY Ids DEF FT!DeleteFile, FT!Known, FT!TypeOK
<1> DEFINE f == FT!Deleted(files[id])
<1>2. /\ f.path = files[id].path /\ ~f.valid /\ f.deleted
      /\ f.directory = files[id].directory
      /\ f.cid = files[id].cid /\ f.cfid = files[id].cfid
  BY <1>1 DEF FT!Deleted, FT!File
<1>3. files' = [files EXCEPT ![id] = f] /\ allocated' = allocated
  BY DEF FT!DeleteFile
<1> HIDE DEF f
<1>4. Only(files[id].path, id) /\ files'[id] = f
  BY <1>1, <1>2, <1>3, EntryExact
<1> QED BY <1>1, <1>2, <1>4

-----------------------------------------------------------------------------
(* No two files have one path, and the first one is the root directory,    *)
(* which can be deleted but becomes no file.                               *)
PathsUnique ==
  /\ FT!OnePathOneFile
  /\ files[1].path = FT!Root /\ files[1].directory

LEMMA RootId == FT!TypeOK => 1 \in FT!Ids
BY DEF FT!TypeOK, FT!Ids

(* Lookup finds the one file of a path. *)
LEMMA LookupOf ==
  ASSUME PathsUnique, NEW id \in FT!Ids, NEW p, files[id].path = p
  PROVE  FT!Lookup(p) = id
BY LookupSpec DEF PathsUnique, FT!OnePathOneFile, FT!Lookup

LEMMA OnlyKeepsUnique ==
  ASSUME FT!TypeOK, PathsUnique, NEW p \in Paths, NEW id, Only(p, id),
         id = 1 => files'[1].directory
  PROVE  PathsUnique'
<1>1. \A k \in FT!Ids : files'[k].path = files[k].path
  BY DEF Only, Same
<1>2. FT!OnePathOneFile'
  <2> SUFFICES ASSUME NEW i \in FT!Ids', NEW j \in FT!Ids', files'[i].path = files'[j].path
               PROVE  i = j
    BY DEF FT!OnePathOneFile
  <2>1. CASE i \in FT!Ids /\ j \in FT!Ids
    BY <1>1, <2>1 DEF PathsUnique, FT!OnePathOneFile
  <2>2. CASE i \notin FT!Ids
    BY <1>1, <2>2 DEF Only
  <2>3. CASE j \notin FT!Ids
    BY <1>1, <2>3 DEF Only
  <2> QED BY <2>1, <2>2, <2>3
<1>3. files'[1].path = FT!Root /\ files'[1].directory
  <2>1. CASE id = 1
    BY <1>1, <2>1, RootId DEF PathsUnique
  <2>2. CASE id # 1
    BY <1>1, <2>2, RootId DEF PathsUnique, Only, Same
  <2> QED BY <2>1, <2>2
<1> QED BY <1>2, <1>3 DEF PathsUnique

(* The file table keeps to this whatever is done with it. *)
LEMMA PathsStayUnique ==
  ASSUME FT!TypeOK, PathsUnique, [FT!Next]_(FT!vars)
  PROVE  PathsUnique'
<1>1. ASSUME NEW p \in Paths \ {FT!Root}, NEW dir \in BOOLEAN, NEW c \in 1 .. MaxMounts,
             NEW n \in 1 .. MaxEntries \cup {0},
             \/ FT!AddNew(p, dir, c, n) \/ FT!PutOver(p, dir, c, n)
             \/ FT!PutAborts(p, dir, c) \/ FT!RegisterOver(p, dir, c, n)
      PROVE  PathsUnique'
  <2>1. PICK id : Only(p, id)
    BY <1>1, AddNewExact, PutOverExact, PutAbortsExact, RegisterOverExact
  <2>2. id # 1
    BY <2>1, RootId DEF Only, PathsUnique
  <2> QED BY <2>1, <2>2, OnlyKeepsUnique
<1>2. ASSUME NEW id \in FT!FileIDs, FT!DeleteFile(id)
      PROVE  PathsUnique'
  <2>1. id \in FT!Ids /\ Only(files[id].path, id) /\ files'[id].directory = files[id].directory
    BY <1>2, DeleteExact
  <2>2. id = 1 => files'[1].directory
    BY <2>1 DEF PathsUnique
  <2>3. FT!OnePathOneFile'
    <3>1. FT!Ids' = FT!Ids /\ \A k \in FT!Ids : files'[k].path = files[k].path
      BY <2>1 DEF Only, Same
    <3> QED BY <3>1 DEF PathsUnique, FT!OnePathOneFile
  <2>4. files'[1].path = FT!Root /\ files'[1].directory
    BY <2>1, <2>2, RootId DEF PathsUnique, Only, Same
  <2> QED BY <2>3, <2>4 DEF PathsUnique
<1>3. ASSUME NEW id \in FT!FileIDs, NEW c \in 1 .. MaxMounts, FT!DeleteOwned(id, c)
      PROVE  PathsUnique'
  BY <1>2, <1>3 DEF FT!DeleteOwned
<1>4. CASE UNCHANGED FT!vars
  BY <1>4 DEF FT!vars, PathsUnique, FT!OnePathOneFile, FT!Ids
<1> QED BY <1>1, <1>2, <1>3, <1>4 DEF FT!Next

(* What is known after one file changed: every other path has its old file. *)
LEMMA OtherLookups ==
  ASSUME PathsUnique, PathsUnique', NEW p, NEW id, Only(p, id), NEW q, q # p
  PROVE  /\ FT!Lookup(q)' = FT!Lookup(q)
         /\ FT!Lookup(q) # 0 => FT!Lookup(q) \in FT!Ids /\ Same(FT!Lookup(q))
<1>1. CASE FT!Lookup(q) # 0
  <2> DEFINE k == FT!Lookup(q)
  <2>1. k \in FT!Ids /\ files[k].path = q
    BY <1>1, LookupSpec
  <2>2. k # id /\ k \in FT!Ids' /\ Same(k)
    BY <2>1 DEF Only
  <2> HIDE DEF k
  <2>3. files'[k].path = q
    BY <2>1, <2>2 DEF Same
  <2>4. \A j \in FT!Ids' : files'[j].path = q <=> j = k
    BY <2>2, <2>3 DEF PathsUnique, FT!OnePathOneFile
  <2>5. FT!Lookup(q)' = k
    BY <2>2, <2>4 DEF FT!Lookup
  <2> QED BY <2>1, <2>2, <2>5 DEF k
<1>2. CASE FT!Lookup(q) = 0
  <2>1. \A k \in FT!Ids : files[k].path # q
    BY <1>2, LookupSpec DEF FT!Ids
  <2>2. \A k \in FT!Ids' : files'[k].path # q
    BY <2>1 DEF Only, Same
  <2>3. FT!Lookup(q)' = 0
    BY <2>2 DEF FT!Lookup
  <2> QED BY <1>2, <2>3
<1> QED BY <1>1, <1>2

LEMMA OwnLookup ==
  ASSUME PathsUnique', NEW p, NEW id, Only(p, id)
  PROVE  FT!Lookup(p)' = id
<1>1. id \in FT!Ids' /\ files'[id].path = p
  BY DEF Only
<1>2. \A j \in FT!Ids' : files'[j].path = p <=> j = id
  BY <1>1 DEF PathsUnique, FT!OnePathOneFile
<1> QED BY <1>1, <1>2 DEF FT!Lookup

-----------------------------------------------------------------------------
(* A container that is being mounted has one entry per path; a folder lists *)
(* a directory before what is in it.                                        *)
Loaded ==
  /\ call.op = "folder" => WellFormed(Entries(call.cid))
  /\ call.op = "archive" =>
       \A i, j \in DOMAIN Entries(call.cid) :
         Entries(call.cid)[i].path = Entries(call.cid)[j].path => i = j

(* Entry i of a folder shows under its path, or has no file and the root   *)
(* directory is deleted.                                                   *)
FolderShown(c, i) ==
  LET e  == Entries(c)[i]
      id == FT!Lookup(e.path)
  IN  \/ /\ id # 0 /\ files[id].cid = c /\ files[id].cfid = i
         /\ files[id].valid /\ files[id].directory = e.dir
      \/ id = 0 /\ ~files[1].valid

(* Entry i of an archive shows, or a directory that was there does.        *)
ArchiveShown(c, i) ==
  LET id == FT!Lookup(Entries(c)[i].path)
  IN  \/ FT!ValidDirectory(id)
      \/ id # 0 /\ files[id].cid = c /\ files[id].cfid = i /\ files[id].valid

EntriesShown ==
  /\ call.op = "folder" => \A i \in 1 .. call.at - 1 : FolderShown(call.cid, i)
  /\ call.op = "archive" => \A i \in 2 .. call.at - 1 : ArchiveShown(call.cid, i)

MountInv == IInv /\ PathsUnique /\ Loaded /\ EntriesShown

LEMMA ShownStays ==
  ASSUME FT!TypeOK, PathsUnique, PathsUnique', UNCHANGED containers,
         NEW p \in Paths \ {FT!Root}, NEW id, Only(p, id),
         NEW c, NEW i, Entries(c)[i].path # p
  PROVE  /\ FolderShown(c, i) => FolderShown(c, i)'
         /\ ArchiveShown(c, i) => ArchiveShown(c, i)'
<1> DEFINE q == Entries(c)[i].path
           k == FT!Lookup(q)
<1>1. /\ FT!Lookup(q)' = FT!Lookup(q)
      /\ k # 0 => k \in FT!Ids /\ Same(k)
  BY OtherLookups DEF Entries
<1>2. files'[1].valid = files[1].valid
  <2>1. id # 1
    BY RootId DEF Only, PathsUnique
  <2> QED BY <2>1, RootId DEF Only, Same
<1>3. FT!Ids \subseteq FT!Ids' /\ 0 \notin FT!Ids
  BY DEF Only, FT!Ids
<1>4. Entries(c)' = Entries(c)
  BY DEF Entries
<1>5. FolderShown(c, i) => FolderShown(c, i)'
  BY <1>1, <1>2, <1>4 DEF FolderShown, Same
<1>6. ArchiveShown(c, i) => ArchiveShown(c, i)'
  BY <1>1, <1>3, <1>4 DEF ArchiveShown, FT!ValidDirectory, Same
<1> QED BY <1>5, <1>6

(* The directory of the entry a folder registers shows already, unless the *)
(* root directory is deleted: no entry is refused before that.             *)
LEMMA RefusedEntry ==
  ASSUME MountInv, call.op = "folder", HasCurrent, Refused(Current.path)
  PROVE  FolderShown(call.cid, call.at)
<1> DEFINE c == call.cid
           n == call.at
           q == FT!Parent(Current.path)
<1>1. /\ n \in DOMAIN Entries(c) /\ Current = Entries(c)[n]
      /\ n \in Nat /\ FT!TypeOK /\ PathsUnique
  BY CurrentEntry DEF MountInv, IInv, TypeOK
<1>2. ~FT!ValidDirectory(FT!Lookup(q)) /\ FT!Lookup(Current.path) = 0
  BY DEF Refused, FT!Accepts
<1>3. q = FT!Root \/ \E j \in 1 .. n - 1 : Entries(c)[j] = [path |-> q, dir |-> TRUE]
  BY <1>1 DEF MountInv, Loaded, WellFormed
<1>4. ~files[1].valid
  <2>1. CASE q = FT!Root
    <3>1. FT!Lookup(q) = 1 /\ 1 \in FT!Ids /\ files[1].directory
      BY <1>1, <2>1, RootId, LookupOf DEF PathsUnique
    <3> QED BY <1>2, <3>1 DEF FT!ValidDirectory
  <2>2. CASE \E j \in 1 .. n - 1 : Entries(c)[j] = [path |-> q, dir |-> TRUE]
    <3>1. PICK j \in 1 .. n - 1 : Entries(c)[j].path = q /\ Entries(c)[j].dir
      BY <2>2
    <3>2. FolderShown(c, j)
      BY DEF MountInv, EntriesShown
    <3>3. FT!Lookup(q) # 0 => FT!Lookup(q) \in FT!Ids
      BY LookupSpec
    <3> QED BY <1>2, <3>1, <3>2, <3>3 DEF FolderShown, FT!ValidDirectory
  <2> QED BY <1>3, <2>1, <2>2
<1> QED BY <1>1, <1>2, <1>4 DEF FolderShown

(* What the folder's loop registers shows, and hides nothing it registered. *)
LEMMA FolderEntryShows ==
  ASSUME MountInv, RegisterFolderEntry, PathsUnique'
  PROVE  EntriesShown' /\ Loaded'
<1>0. PICK c, n, p : c = call.cid /\ n = call.at /\ p = Current.path
  OBVIOUS
<1>1. /\ c \in DOMAIN containers /\ n \in DOMAIN Entries(c) /\ n \in Nat
      /\ p \in Paths \ {FT!Root} /\ Current = Entries(c)[n] /\ n \in 1 .. MaxEntries
      /\ call.op = "folder" /\ HasCurrent
      /\ UNCHANGED containers /\ FT!TypeOK /\ PathsUnique
  BY <1>0, CurrentEntry DEF MountInv, IInv, TypeOK, RegisterFolderEntry
<1>2. CASE call' = Stopped
  BY <1>2 DEF Stopped, Idle, EntriesShown, Loaded
<1>3. CASE NextEntry /\ call' # Stopped
  <2>1. call'.op = "folder" /\ call'.cid = c /\ call'.at = n + 1
    BY <1>0, <1>1, <1>3 DEF NextEntry, MountInv, IInv, TypeOK, Call
  <2>2. Loaded'
    BY <1>0, <1>1, <2>1 DEF MountInv, Loaded, Entries, WellFormed
  <2>3. \A i \in 1 .. n - 1 : FolderShown(c, i) /\ Entries(c)[i].path # p
    BY <1>0, <1>1 DEF MountInv, EntriesShown, Loaded, WellFormed
  <2>4. \A i \in 1 .. n : FolderShown(c, i)'
    <3>1. CASE UNCHANGED <<files, allocated, aborted>> /\ Refused(p)
      <4>1. FolderShown(c, n)
        BY <1>0, <1>1, <3>1, RefusedEntry
      <4>2. \A i \in 1 .. n : FolderShown(c, i)
        BY <2>3, <4>1, <1>0, <1>1
      <4>3. \A i : FT!Lookup(Entries(c)[i].path)' = FT!Lookup(Entries(c)[i].path)
        BY <1>1, <3>1 DEF Entries, FT!Lookup, FT!Ids
      <4>4. Entries(c)' = Entries(c)
        BY <1>1 DEF Entries
      <4> QED BY <3>1, <4>2, <4>3, <4>4 DEF FolderShown
    <3>2. CASE FT!AddNew(p, Current.dir, c, n) \/ FT!PutOver(p, Current.dir, c, n)
      <4>1. PICK id : /\ Only(p, id) /\ Entered(id, Current.dir, c, n) /\ id # 0
        <5>1. allocated # 0 /\ 0 \notin FT!Ids
          BY <1>0, <1>1 DEF FT!TypeOK, FT!Ids
        <5> QED BY <1>0, <1>1, <3>2, <5>1, AddNewExact, PutOverExact
      <4>2. \A i \in 1 .. n - 1 : FolderShown(c, i)'
        BY <1>0, <1>1, <2>3, <4>1, ShownStays
      <4>3. /\ Entries(c)' = Entries(c) /\ Entries(c)'[n].path = p
            /\ Entries(c)'[n].dir = Current.dir
        BY <1>0, <1>1 DEF Entries
      <4>4. FT!Lookup(Entries(c)[n].path)' = id
        BY <4>1, <4>3, OwnLookup DEF FT!Lookup
      <4>5. FolderShown(c, n)'
        BY <4>1, <4>3, <4>4 DEF FolderShown, Entered
      <4> QED BY <1>0, <1>1, <4>2, <4>5
    <3> QED BY <1>0, <1>1, <1>3, <3>1, <3>2 DEF RegisterFolderEntry
  <2> QED BY <1>0, <1>1, <2>1, <2>2, <2>4 DEF EntriesShown
<1> QED BY <1>2, <1>3 DEF RegisterFolderEntry

(* The same for an archive, whose mount ends at the first refusal.         *)
LEMMA ArchiveEntryShows ==
  ASSUME MountInv, RegisterArchiveEntry, PathsUnique'
  PROVE  EntriesShown' /\ Loaded'
<1>0. PICK c, n, p : c = call.cid /\ n = call.at /\ p = Current.path
  OBVIOUS
<1>1. /\ c \in DOMAIN containers /\ n \in DOMAIN Entries(c) /\ n \in Nat
      /\ p \in Paths \ {FT!Root} /\ Current = Entries(c)[n] /\ n \in 1 .. MaxEntries
      /\ call.op = "archive" /\ HasCurrent
      /\ UNCHANGED containers /\ FT!TypeOK /\ PathsUnique
  BY <1>0, CurrentEntry DEF MountInv, IInv, TypeOK, RegisterArchiveEntry
<1>2. CASE call' = Idle
  BY <1>2 DEF Idle, EntriesShown, Loaded
<1>3. CASE NextEntry /\ call' # Idle
  <2>1. call'.op = "archive" /\ call'.cid = c /\ call'.at = n + 1
    BY <1>0, <1>1, <1>3 DEF NextEntry, MountInv, IInv, TypeOK, Call
  <2>2. Loaded'
    BY <1>0, <1>1, <2>1 DEF MountInv, Loaded, Entries
  <2>3. \A i \in 2 .. n - 1 : ArchiveShown(c, i) /\ Entries(c)[i].path # p
    <3>1. Entries(c) \in Seq(Entry)
      <4>1. containers[c] \in Container
        BY <1>1 DEF MountInv, IInv, TypeOK
      <4> QED BY <4>1 DEF Container, Entries
    <3>2. \A i \in 2 .. n - 1 : i \in DOMAIN Entries(c) /\ i # n
      BY <1>0, <1>1, <3>1
    <3> QED BY <1>0, <1>1, <3>2 DEF MountInv, EntriesShown, Loaded
  <2>4. PICK id : /\ Only(p, id) /\ id # 0
                  /\ \/ files'[id].cid = c /\ files'[id].cfid = n /\ files'[id].valid
                     \/ id \in FT!Ids /\ FT!ValidDirectory(id) /\ Same(id)
    <3>1. CASE FT!AddNew(p, Current.dir, c, n)
      <4>1. allocated # 0
        BY <1>0, <1>1 DEF FT!TypeOK
      <4> QED BY <1>0, <1>1, <3>1, <4>1, AddNewExact DEF Entered
    <3>2. CASE FT!RegisterOver(p, Current.dir, c, n)
      <4>1. 0 \notin FT!Ids
        BY DEF FT!Ids
      <4> QED BY <1>0, <1>1, <3>2, <4>1, RegisterOverExact
    <3> QED BY <1>0, <1>1, <1>3, <3>1, <3>2 DEF RegisterArchiveEntry
  <2>5. \A i \in 2 .. n - 1 : ArchiveShown(c, i)'
    BY <1>0, <1>1, <2>3, <2>4, ShownStays
  <2>6. Entries(c)' = Entries(c) /\ Entries(c)'[n].path = p
    BY <1>0, <1>1 DEF Entries
  <2>7. FT!Lookup(Entries(c)[n].path)' = id
    BY <2>4, <2>6, OwnLookup DEF FT!Lookup
  <2>8. ArchiveShown(c, n)'
    <3>1. id \in FT!Ids'
      BY <2>4 DEF Only
    <3> QED BY <2>4, <2>6, <2>7, <3>1 DEF ArchiveShown, FT!ValidDirectory, Same
  <2>9. \A i \in 2 .. n : ArchiveShown(c, i)'
    BY <1>0, <1>1, <2>5, <2>8
  <2> QED BY <1>0, <1>1, <2>1, <2>2, <2>9 DEF EntriesShown
<1> QED BY <1>2, <1>3 DEF RegisterArchiveEntry

(* What a container reads has one entry per path, directories first.       *)
LEMMA ReloadLoads ==
  ASSUME MountInv, NEW content \in Contents \cup {<< >>}, Reload(content)
  PROVE  EntriesShown' /\ Loaded'
<1>0. PICK c : c = call.cid
  OBVIOUS
<1>1. /\ c \in DOMAIN containers /\ call \in Call
      /\ containers[c].kind \in Kinds
  <2>1. c \in Nat /\ c >= 1 /\ c <= Len(containers)
    BY <1>0, StarVFSAssumption DEF Reload, MountInv, IInv, TypeOK, CallSound, Call
  <2>2. containers \in Seq(Container) /\ call \in Call
    BY DEF MountInv, IInv, TypeOK
  <2>3. c \in DOMAIN containers /\ containers[c] \in Container
    BY <2>1, <2>2
  <2> QED BY <2>2, <2>3 DEF Container
<1>2. content \in Seq(Entry) /\ WellFormed(content)
  <2>1. CASE content \in Contents
    BY <2>1, StarVFSAssumption
  <2>2. CASE content = << >>
    BY <2>2 DEF WellFormed
  <2> QED BY <2>1, <2>2
<1> DEFINE es == IF containers[c].kind = "archive"
                 THEN <<[path |-> FT!Root, dir |-> TRUE]>> \o content ELSE content
           d  == [containers[c] EXCEPT !.entries = es]
<1>3. Entries(c)' = es
  <2>1. containers' = [containers EXCEPT ![c] = d]
    BY <1>0 DEF Reload
  <2>2. containers[c] \in Container
    BY <1>1 DEF MountInv, IInv, TypeOK
  <2> HIDE DEF es
  <2>3. d.entries = es
    BY <2>2 DEF Container
  <2> HIDE DEF d
  <2>4. containers'[c] = d
    BY <1>1, <2>1 DEF MountInv, IInv, TypeOK
  <2> QED BY <2>3, <2>4 DEF Entries
<1>4. CASE containers[c].kind = "folder"
  <2>1. Entries(c)' = content
    BY <1>3, <1>4
  <2>2. call' = [call EXCEPT !.op = "folder", !.at = 1]
    BY <1>0, <1>4 DEF Reload
  <2>3. call'.op = "folder" /\ call'.cid = c /\ call'.at = 1
    BY <1>0, <1>1, <2>2 DEF Call
  <2>4. Loaded'
    BY <1>2, <2>1, <2>3 DEF Loaded, WellFormed, Entries
  <2> QED BY <2>3, <2>4 DEF EntriesShown
<1>5. CASE containers[c].kind = "archive"
  <2> DEFINE top == [path |-> FT!Root, dir |-> TRUE]
  <2>0. call' = [call EXCEPT !.op = "archive", !.at = 2]
    BY <1>0, <1>5 DEF Reload
  <2>1. /\ es = <<top>> \o content
        /\ call'.op = "archive" /\ call'.cid = c /\ call'.at = 2
    BY <1>0, <1>1, <1>5, <2>0 DEF Call
  <2>2. <<top>> \in Seq(Entry) /\ Len(<<top>>) = 1 /\ <<top>>[1] = top /\ top.path = FT!Root
    BY StarVFSAssumption DEF Entry
  <2> HIDE DEF top, es
  <2>3. /\ es \in Seq(Entry) /\ Len(es) = 1 + Len(content)
        /\ es[1] = top
        /\ \A i \in 1 .. 1 + Len(content) : i # 1 => es[i] = content[i - 1]
    BY <1>2, <2>1, <2>2, ConcatProperties
  <2>4. \A i, j \in DOMAIN es : i < j => es[i].path # es[j].path
    <3> SUFFICES ASSUME NEW i \in DOMAIN es, NEW j \in DOMAIN es, i < j
                 PROVE  es[i].path # es[j].path
      OBVIOUS
    <3>1. /\ i \in Nat /\ j \in Nat /\ j - 1 \in DOMAIN content /\ es[j] = content[j - 1]
          /\ i # 1 => /\ i - 1 \in 1 .. (j - 1) - 1 /\ es[i] = content[i - 1]
          /\ i = 1 => es[i] = top
      BY <1>2, <2>3
    <3>2. CASE i = 1
      BY <1>2, <2>2, <3>1, <3>2 DEF WellFormed
    <3>3. CASE i # 1
      BY <1>2, <3>1, <3>3 DEF WellFormed
    <3> QED BY <3>2, <3>3
  <2>5. \A i, j \in DOMAIN es : es[i].path = es[j].path => i = j
    BY <2>3, <2>4
  <2>6. Loaded'
    BY <1>3, <2>1, <2>5 DEF Loaded, Entries
  <2> QED BY <2>1, <2>6 DEF EntriesShown
<1>6. CASE containers[c].kind = "virtual"
  <2>1. call' = Idle
    <3>1. call' = CASE containers[c].kind = "folder"  -> [call EXCEPT !.op = containers[c].kind, !.at = 1]
                    [] containers[c].kind = "archive" -> [call EXCEPT !.op = containers[c].kind, !.at = 2]
                    [] containers[c].kind = "virtual" -> Idle
      BY <1>0 DEF Reload
    <3> QED BY <1>6, <3>1
  <2> QED BY <2>1 DEF Idle, EntriesShown, Loaded
<1> QED BY <1>1, <1>4, <1>5, <1>6 DEF Kinds

LEMMA MountStep == MountInv /\ [Next]_vars => MountInv'
<1> SUFFICES ASSUME MountInv, [Next]_vars PROVE MountInv'
  OBVIOUS
<1>1. IInv' /\ PathsUnique' /\ call \in Call
  BY StepInv, PathsStayUnique DEF MountInv, IInv, TypeOK
<1> SUFFICES EntriesShown' /\ Loaded'
  BY <1>1 DEF MountInv
<1>2. CASE call'.op \notin {"folder", "archive"}
  BY <1>2 DEF EntriesShown, Loaded
<1>3. CASE UNCHANGED vars
  <2>1. PICK c : c = call.cid
    OBVIOUS
  <2>2. \A i : /\ FolderShown(c, i) => FolderShown(c, i)'
               /\ ArchiveShown(c, i) => ArchiveShown(c, i)'
    BY <1>3 DEF vars, FolderShown, ArchiveShown, Entries, FT!Lookup, FT!Ids, FT!ValidDirectory
  <2>3. EntriesShown'
    BY <1>3, <2>1, <2>2 DEF vars, MountInv, EntriesShown
  <2>4. Loaded'
    BY <1>3 DEF vars, MountInv, Loaded, Entries
  <2> QED BY <2>3, <2>4
<1>4. CASE Begin \/ ReloadAsserts \/ ReloadFails \/ MountSucceeds
  <2>1. CASE call' \in {call, Idle, Stopped} /\ (call' = call => call = Idle)
    BY <1>2, <2>1 DEF Idle, Stopped
  <2>2. ASSUME NEW kind \in Kinds, MountAdded(kind)
        PROVE  EntriesShown' /\ Loaded'
    BY <1>2, <2>2 DEF MountAdded, Idle
  <2>3. ASSUME NEW c \in DOMAIN containers, NEW p, AddVirtual(c, p)
        PROVE  EntriesShown' /\ Loaded'
    BY <1>2, <2>3 DEF AddVirtual
  <2>4. ASSUME NEW p, NEW dir, Create(p, dir) PROVE EntriesShown' /\ Loaded'
    BY <2>1, <2>4 DEF Create
  <2>5. CASE ReloadAsserts \/ ReloadFails \/ MountSucceeds \/ MountRefused
    <3>1. call' \in {call, Idle, Stopped} /\ (call' = call => call = Idle)
      <4>1. CASE ReloadAsserts
        BY <4>1 DEF ReloadAsserts, Idle, Stopped
      <4>2. CASE ReloadFails \/ MountSucceeds
        BY <4>2 DEF ReloadFails, MountSucceeds
      <4>3. CASE MountRefused
        BY <4>3 DEF MountRefused
      <4> QED BY <2>5, <4>1, <4>2, <4>3
    <3> QED BY <2>1, <3>1
  <2>6. ASSUME NEW c, CloseContainer(c) \/ DeleteFile(c) PROVE EntriesShown' /\ Loaded'
    BY <2>1, <2>6 DEF CloseContainer, DeleteFile
  <2> QED BY <1>4, <2>2, <2>3, <2>4, <2>5, <2>6 DEF Begin
<1>5. CASE ForceDirectory \/ ForceFile
  <2>1. call' \in {Idle, Stopped} \/ (call.op = "force" /\ call' = [call EXCEPT !.at = @ + 1])
    BY <1>5 DEF ForceDirectory, ForceFile, NextEntry
  <2>2. call'.op \in {"idle", "stopped", "force"}
    BY <1>1, <2>1 DEF Idle, Stopped, Call
  <2> QED BY <1>2, <2>2
<1>6. ASSUME NEW content \in Contents \cup {<< >>}, Reload(content)
      PROVE  EntriesShown' /\ Loaded'
  BY <1>6, ReloadLoads
<1>7. CASE RegisterFolderEntry
  BY <1>1, <1>7, FolderEntryShows
<1>8. CASE RegisterArchiveEntry
  BY <1>1, <1>8, ArchiveEntryShows
<1> QED BY <1>3, <1>4, <1>5, <1>6, <1>7, <1>8 DEF Next, Step

LEMMA MountInit == Init => MountInv
<1> SUFFICES ASSUME Init PROVE MountInv
  OBVIOUS
<1>1. IInv /\ FT!TypeOK /\ 1 \in FT!FileIDs
  BY InitInv, StarVFSAssumption DEF IInv, TypeOK, FT!FileIDs
<1>2. FT!Ids = {1}
  BY DEF Init, FT!Init, FT!Ids
<1>3. files[1] = [FT!Blank EXCEPT !.path = FT!Root, !.valid = TRUE, !.directory = TRUE]
  BY <1>1 DEF Init, FT!Init
<1>4. PathsUnique
  BY <1>2, <1>3 DEF PathsUnique, FT!OnePathOneFile, FT!Blank
<1>5. EntriesShown /\ Loaded
  BY DEF Init, Idle, EntriesShown, Loaded
<1> QED BY <1>1, <1>4, <1>5 DEF MountInv

(* While a mount goes on, every entry it has come to shows under its path   *)
(* as what it is, however many entries and earlier mounts there are.        *)
THEOREM MountedEntriesShow == Spec => []RegisteredSoFar
<1>1. MountInv => RegisteredSoFar
  BY DEF MountInv, EntriesShown, FolderShown, ArchiveShown, RegisteredSoFar
<1> QED BY <1>1, MountInit, MountStep, PTL DEF Spec

(***************************************************************************)
(* Clients                                                                 *)
(***************************************************************************)
(* An entry of the file table that holds no file is blank. *)
Unused == \A id \in FT!FileIDs \ FT!Ids : files[id] = FT!Blank

(* A folder's file in the table is of the kind its entry is of. *)
SameKind ==
  \A id \in FT!Ids :
    files[id].cfid # 0 /\ containers[files[id].cid].kind = "folder"
    => files[id].directory = Entries(files[id].cid)[files[id].cfid].dir

(* A folder has the directory of path p among its entries. *)
UnderOwn(c, p) ==
  \/ FT!Parent(p) = FT!Root
  \/ \E j \in DOMAIN Entries(c) : Entries(c)[j].path = FT!Parent(p) /\ Entries(c)[j].dir

FoldersClosed ==
  \A c \in DOMAIN containers : containers[c].kind = "folder" =>
    \A i \in DOMAIN Entries(c) : UnderOwn(c, Entries(c)[i].path)

(* What is on the disk is an entry of the folder, of that kind. *)
DiskListed ==
  \A c \in Mounts :
    /\ disk[c][FT!Root] = Directory
    /\ \A p \in Paths \ {FT!Root} : disk[c][p] # Nothing =>
         /\ c \in DOMAIN containers
         /\ \E i \in DOMAIN Entries(c) :
              Entries(c)[i].path = p /\ (Entries(c)[i].dir <=> disk[c][p] = Directory)

OnDisk(c, p, dir) == IF dir THEN disk[c][p] = Directory ELSE disk[c][p] \in Text

(* When an assertion stops the program, the entry it was about is not on    *)
(* the disk, but no file leads to it either.                                *)
Held(c, i) ==
  call # Stopped \/ \E id \in FT!Ids : files[id].cid = c /\ files[id].cfid = i

(* An entry of a folder is on the disk unless its kind has changed; below a *)
(* directory of the disk there is something for each of the entries.        *)
EntriesOnDisk ==
  \A c \in DOMAIN containers : containers[c].kind = "folder" =>
    \A i \in DOMAIN Entries(c) : Held(c, i) =>
      /\ Rekinded(c, Entries(c)[i].path) \/ OnDisk(c, Entries(c)[i].path, Entries(c)[i].dir)
      /\ disk[c][FT!Parent(Entries(c)[i].path)] = Directory
         => disk[c][Entries(c)[i].path] # Nothing

(* The container that is being mounted is open; it has no file behind the  *)
(* entry the loop has come to, and a folder's texts are as scanned.        *)
Mounting ==
  /\ call.op = "reload" /\ call.cid \in DOMAIN containers =>
       containers[call.cid].open /\ Entries(call.cid) = << >>
  /\ call.op \in {"folder", "archive"} => containers[call.cid].open
  /\ call.op = "force" => containers[call.cid].kind = "virtual"
  /\ call.op \in {"folder", "archive"} =>
       \A id \in FT!Ids : files[id].cid = call.cid => files[id].cfid < call.at
  /\ call.op = "folder" =>
       \A i \in DOMAIN Entries(call.cid) : ~Entries(call.cid)[i].dir =>
         disk[call.cid][Entries(call.cid)[i].path] = Mounted(call.cid, i)

(* The file a client is about to get. *)
Making ==
  creating # Nobody =>
    LET f == files[creating.id]
    IN  /\ creating.id \in FT!Ids /\ f.valid /\ f.path = creating.path
        /\ f.cid \in DOMAIN containers /\ containers[f.cid].kind = "folder"
        /\ containers[f.cid].open /\ f.cfid # 0
        /\ f.directory \/ Spoiled(creating.id) \/ disk[f.cid][f.path] = Empty

ClientsInv ==
  /\ MountInv
  /\ ClientsTypeOK
  /\ Unused /\ SameKind /\ FoldersClosed
  /\ DiskListed /\ EntriesOnDisk
  /\ Mounting /\ Making

-----------------------------------------------------------------------------
(* A client's step is a step of StarVFS, or changes nothing in its tables. *)
LEMMA ClientStepIsStep == [ClientsNext]_clientVars => [Next]_vars
<1> SUFFICES ASSUME [ClientsNext]_clientVars PROVE [Next]_vars
  OBVIOUS
<1>1. CASE QuietCall \/ QuietStep
  <2>1. FT!FileIDs = 1 .. MaxFiles
    BY DEF FT!FileIDs
  <2> QED BY <1>1, <2>1 DEF QuietCall, QuietStep, Next, Begin, Step
<1>2. CASE RegisterEntry
  BY <1>2 DEF RegisterEntry, Next, Step
<1>3. CASE ForceVirtual
  BY <1>3 DEF ForceVirtual, Next, Step
<1>4. CASE \E content \in Contents \cup {<< >>} : ReloadFrom(content)
  BY <1>4 DEF ReloadFrom, Next, Step
<1>5. CASE \E c \in DOMAIN containers, p \in Registered, keeper \in {"owned", "watched"} :
             AddObject(c, p, keeper)
  BY <1>5, ClientsAssumption DEF AddObject, Next, Begin
<1>6. CASE \E h \in Handles, entry \in Created : CreateNew(h, entry.path, entry.dir)
  <2>1. PICK entry \in Created : Create(entry.path, entry.dir)
    BY <1>6 DEF CreateNew
  <2>2. entry.path \in Paths \ {FT!Root} /\ entry.dir \in BOOLEAN
    BY ClientsAssumption DEF Entry
  <2> QED BY <2>1, <2>2 DEF Next, Begin
<1>7. CASE \/ \E mode \in Modes : OpenCreated(mode)
           \/ \E c \in Mounts, n \in 1 .. MaxEntries : Expire(c, n)
           \/ \E h \in Handles, id \in 2 .. MaxFiles, mode \in Modes : OpenExisting(h, id, mode)
           \/ \E h \in Handles, text \in Texts : Write(h, text)
           \/ \E h \in Handles : Read(h) \/ Close(h)
           \/ UNCHANGED clientVars
  BY <1>7 DEF OpenCreated, Expire, OpenExisting, Write, Read, Close, clientVars, vars
<1> QED BY <1>1, <1>2, <1>3, <1>4, <1>5, <1>6, <1>7 DEF ClientsNext, CallStep

(* Reads, writes and the rest keep to what StarVFS promises, so every file  *)
(* is routed to its own content and the table is used only as FileTable     *)
(* says.                                                                    *)
THEOREM ClientsImplementStarVFS == ClientsSpec => Spec
<1>1. ClientsInit => Init
  BY DEF ClientsInit
<1> QED BY <1>1, ClientStepIsStep, PTL DEF ClientsSpec, Spec

-----------------------------------------------------------------------------
(* What the state is made of. *)
LEMMA Parts ==
  ASSUME ClientsInv
  PROVE  /\ FT!TypeOK /\ PathsUnique /\ IInv /\ TypeOK /\ call \in Call
         /\ containers \in Seq(Container) /\ Len(containers) \in Nat
         /\ DOMAIN containers = 1 .. Len(containers) /\ DOMAIN containers \subseteq Mounts
         /\ \A c \in DOMAIN containers :
              /\ containers[c] \in Container /\ containers[c].entries \in Seq(Entry)
              /\ DOMAIN containers[c].entries \subseteq 1 .. MaxEntries
              /\ \A i \in DOMAIN containers[c].entries :
                   containers[c].entries[i].path \in Paths /\ containers[c].entries[i].dir \in BOOLEAN
              /\ containers[c].kind = "folder" =>
                   \A i \in DOMAIN containers[c].entries : containers[c].entries[i].path # FT!Root
<1>1. /\ FT!TypeOK /\ PathsUnique /\ IInv /\ TypeOK /\ call \in Call
      /\ containers \in Seq(Container)
  BY DEF ClientsInv, MountInv, IInv, TypeOK
<1>2. Len(containers) \in Nat /\ DOMAIN containers = 1 .. Len(containers)
  BY <1>1
<1>3. DOMAIN containers \subseteq Mounts
  BY <1>1, <1>2, StarVFSAssumption DEF IInv, Numbered, TypeOK, Mounts
<1>4. ASSUME NEW c \in DOMAIN containers
      PROVE  /\ containers[c] \in Container /\ containers[c].entries \in Seq(Entry)
             /\ DOMAIN containers[c].entries \subseteq 1 .. MaxEntries
             /\ \A i \in DOMAIN containers[c].entries :
                   containers[c].entries[i].path \in Paths /\ containers[c].entries[i].dir \in BOOLEAN
             /\ containers[c].kind = "folder" =>
                  \A i \in DOMAIN containers[c].entries : containers[c].entries[i].path # FT!Root
  <2>0. containers[c] \in Container
    BY <1>1
  <2>1. containers[c] \in Container /\ containers[c].entries \in Seq(Entry)
    BY <2>0 DEF Container
  <2>2. Len(containers[c].entries) <= MaxEntries
    BY <1>1 DEF TypeOK
  <2>3. DOMAIN containers[c].entries \subseteq 1 .. MaxEntries
    BY <2>1, <2>2, StarVFSAssumption
  <2>4. \A i \in DOMAIN containers[c].entries : containers[c].entries[i] \in Entry
    BY <2>1
  <2>5. containers[c].kind = "folder" =>
          \A i \in DOMAIN containers[c].entries : containers[c].entries[i].path # FT!Root
    BY <1>1 DEF IInv, EntryPaths, Entries
  <2> QED BY <2>1, <2>3, <2>4, <2>5 DEF Entry
<1> QED BY <1>1, <1>2, <1>3, <1>4

LEMMA FileParts ==
  ASSUME ClientsInv, NEW id \in FT!FileIDs
  PROVE  /\ files[id] \in FT!File /\ FT!FileIDs = 1 .. MaxFiles
         /\ files[id].cid \in 0 .. MaxMounts /\ files[id].cfid \in 0 .. MaxEntries
         /\ id \notin FT!Ids => ~files[id].valid /\ files[id].cid = 0 /\ files[id].cfid = 0
<1>1. files[id] \in FT!File /\ FT!FileIDs = 1 .. MaxFiles
  BY Parts DEF FT!TypeOK, FT!FileIDs
<1>2. files[id].cid \in 0 .. MaxMounts /\ files[id].cfid \in 0 .. MaxEntries
  <2>1. files[id].cid \in (1 .. MaxMounts) \cup {0} /\ files[id].cfid \in (1 .. MaxEntries) \cup {0}
    BY <1>1 DEF FT!File
  <2> QED BY <2>1, StarVFSAssumption
<1> QED BY <1>1, <1>2 DEF ClientsInv, Unused, FT!Blank

(* A file that its container knows leads to the container's entry of its path. *)
LEMMA RoutedFile ==
  ASSUME ClientsInv, NEW id \in FT!Ids, NEW c, NEW n,
         files[id].cid = c, files[id].cfid = n, n # 0
  PROVE  /\ c \in DOMAIN containers /\ n \in DOMAIN containers[c].entries
         /\ containers[c].entries[n].path = files[id].path
BY Parts DEF IInv, Routed, Entries

(* A container gets one more entry and is otherwise as it was. *)
Gains(c, e, new) ==
  /\ DOMAIN containers' = DOMAIN containers /\ Len(containers') = Len(containers)
  /\ \A k \in DOMAIN containers : /\ containers'[k].kind = containers[k].kind
                                  /\ containers'[k].open = containers[k].open
                                  /\ k # c => containers'[k].entries = containers[k].entries
  /\ new \notin DOMAIN containers[c].entries /\ new # 0
  /\ DOMAIN containers'[c].entries = DOMAIN containers[c].entries \cup {new}
  /\ \A i \in DOMAIN containers[c].entries :
       containers'[c].entries[i] = containers[c].entries[i]
  /\ containers'[c].entries[new] = e

LEMMA Appended ==
  ASSUME ClientsInv, NEW c \in DOMAIN containers, NEW e \in Entry, NEW new,
         new = Len(containers[c].entries) + 1,
         containers' = [containers EXCEPT ![c].entries = Append(@, e)]
  PROVE  Gains(c, e, new)
<1> DEFINE old == containers[c].entries
           es  == Append(old, e)
           d   == [containers[c] EXCEPT !.entries = es]
<1>1. /\ containers \in Seq(Container) /\ containers[c] \in Container /\ old \in Seq(Entry)
  BY Parts
<1>2. containers' = [containers EXCEPT ![c] = d]
  OBVIOUS
<1>3. /\ es \in Seq(Entry) /\ Len(es) = Len(old) + 1
      /\ \A i \in 1 .. Len(old) : es[i] = old[i]
      /\ es[Len(old) + 1] = e
  <2> HIDE DEF old
  <2> QED BY <1>1, AppendProperties
<1> HIDE DEF es
<1>4. /\ d \in Container /\ d.entries = es /\ d.kind = containers[c].kind
      /\ d.open = containers[c].open
  BY <1>1, <1>3 DEF Container
<1> HIDE DEF d
<1>5. /\ Len(containers') = Len(containers) /\ DOMAIN containers' = DOMAIN containers
      /\ \A k \in DOMAIN containers : containers'[k] = IF k = c THEN d ELSE containers[k]
  BY <1>1, <1>2, <1>4, ContainerChanges
<1>6. /\ DOMAIN old = 1 .. Len(old) /\ Len(old) \in Nat
      /\ DOMAIN es = 1 .. Len(old) + 1
  BY <1>1, <1>3
<1> HIDE DEF old
<1>7. /\ new \notin DOMAIN old /\ new # 0 /\ DOMAIN es = DOMAIN old \cup {new}
  BY <1>6 DEF old
<1> QED BY <1>3, <1>4, <1>5, <1>6, <1>7 DEF old, Gains

(* What CreateNew and CreateDirectory do: the container of the directory    *)
(* gets an entry for the path the client asked for.                         *)
CreatedBy(p, dir, base, c, new) ==
  /\ c \in DOMAIN containers /\ c \in Mounts
  /\ containers[c].open /\ containers[c].kind = "folder"
  /\ base \in FT!Ids /\ files[base].directory /\ files[base].cfid # 0
  /\ files[base].cfid \in DOMAIN containers[c].entries
  /\ containers[c].entries[files[base].cfid].path = FT!Parent(p)
  /\ Append(Entries(c)[files[base].cfid].path, p[Len(p)]) = p
  /\ new = Len(containers[c].entries) + 1 /\ new \in 1 .. MaxEntries
  /\ containers' = [containers EXCEPT ![c].entries = Append(@, [path |-> p, dir |-> dir])]
  /\ \/ FT!AddNew(p, dir, c, new) /\ UNCHANGED call
     \/ FT!PutOver(p, dir, c, new) /\ UNCHANGED call
     \/ FT!PutAborts(p, dir, c) /\ call' = Stopped
  /\ call = Idle /\ UNCHANGED interfaces

LEMMA CreateExact ==
  ASSUME ClientsInv, NEW p \in Paths \ {FT!Root}, NEW dir \in BOOLEAN, NEW base, NEW c, NEW new,
         base = FT!Lookup(FT!Parent(p)), c = files[base].cid, new = NewEntryID(c),
         Create(p, dir)
  PROVE  CreatedBy(p, dir, base, c, new)
<1> DEFINE n == files[base].cfid
           q == Append(Entries(c)[n].path, p[Len(p)])
<1>1. /\ base \in FT!Ids /\ files[base].directory /\ c \in DOMAIN containers
      /\ n \in DOMAIN containers[c].entries
      /\ containers[c].open /\ containers[c].kind = "folder" /\ new <= MaxEntries
      /\ call = Idle /\ UNCHANGED interfaces
  BY DEF Create, FT!ValidDirectory, Entries
<1>2. /\ c \in Mounts /\ containers[c].entries \in Seq(Entry) /\ n \in 1 .. MaxEntries
  BY <1>1, Parts
<1>3. new = Len(containers[c].entries) + 1 /\ new \in 1 .. MaxEntries
  <2>1. new = Len(containers[c].entries) + 1
    BY DEF NewEntryID, Entries
  <2>2. Len(containers[c].entries) \in Nat
    BY <1>2
  <2>3. MaxEntries \in Nat
    BY StarVFSAssumption
  <2> QED BY <1>1, <2>1, <2>2, <2>3
<1>4. containers[c].entries[n].path = FT!Parent(p)
  <2>1. files[base].path = FT!Parent(p)
    BY <1>1, LookupSpec, Parts, Ids DEF FT!Ids
  <2>2. n # 0
    BY <1>2, StarVFSAssumption
  <2> QED BY <1>1, <2>1, <2>2, RoutedFile
<1>5. q = p
  <2>1. p \in Seq(Names) /\ p # << >>
    BY StarVFSAssumption DEF FT!Root
  <2>2. Append(SubSeq(p, 1, Len(p) - 1), p[Len(p)]) = p
    BY <2>1
  <2> QED BY <1>4, <2>2 DEF FT!Parent, Entries
<1>6. containers' = [containers EXCEPT ![c].entries = Append(@, [path |-> q, dir |-> dir])]
  BY DEF Create
<1>7. \/ FT!AddNew(q, dir, c, new) /\ UNCHANGED call
      \/ FT!PutOver(q, dir, c, new) /\ UNCHANGED call
      \/ FT!PutAborts(q, dir, c) /\ call' = Stopped
  BY DEF Create
<1>8. n # 0
  BY <1>2, StarVFSAssumption
<1> HIDE DEF n
<1> QED BY <1>1, <1>2, <1>3, <1>4, <1>5, <1>6, <1>7, <1>8 DEF n, q, CreatedBy

(* A folder that loses no entry does not get back a kind it has lost. *)
LEMMA RekindedGrows ==
  ASSUME NEW c, NEW p,
         \A i \in DOMAIN containers[c].entries :
           /\ i \in DOMAIN containers'[c].entries
           /\ containers'[c].entries[i] = containers[c].entries[i],
         Rekinded(c, p)
  PROVE  Rekinded(c, p)'
BY DEF Rekinded, Entries

LEMMA RekindedSame ==
  ASSUME NEW c, NEW p, UNCHANGED containers
  PROVE  Rekinded(c, p)' <=> Rekinded(c, p)
BY DEF Rekinded, Entries

(* Nobody owns what is not a file, whatever is done with the file table. *)
LEMMA UnusedStays ==
  ASSUME FT!TypeOK, Unused, [FT!Next]_(FT!vars)
  PROVE  Unused'
<1>1. ASSUME NEW p, NEW dir, NEW c, NEW n, FT!AddNew(p, dir, c, n)
      PROVE  Unused'
  <2> DEFINE pid == FT!Lookup(FT!Parent(p))
  <2>1. pid \in FT!Ids /\ allocated' = allocated + 1 /\ FT!Ids \subseteq FT!FileIDs
    BY <1>1, Ids DEF FT!AddNew, FT!Accepts, FT!ValidDirectory
  <2>2. \A k \in FT!FileIDs : k # allocated /\ k # pid => files'[k] = files[k]
    BY <1>1 DEF FT!AddNew, FT!TypeOK
  <2>3. FT!Ids' = FT!Ids \cup {allocated}
    BY <2>1 DEF FT!Ids, FT!TypeOK
  <2> HIDE DEF pid
  <2> QED BY <2>1, <2>2, <2>3 DEF Unused
<1>2. ASSUME NEW k, k \in FT!Ids, allocated' = allocated,
             \A j \in FT!FileIDs : j # k => files'[j] = files[j]
      PROVE  Unused'
  BY <1>2 DEF Unused, FT!Ids
<1>3. ASSUME NEW p, NEW dir, NEW c, NEW n,
             FT!PutOver(p, dir, c, n) \/ FT!PutAborts(p, dir, c) \/ FT!RegisterOver(p, dir, c, n)
      PROVE  Unused'
  <2>1. FT!Lookup(p) \in FT!Ids /\ allocated' = allocated
    BY <1>3, LookupSpec DEF FT!PutOver, FT!PutAborts, FT!RegisterOver
  <2>2. \A j \in FT!FileIDs : j # FT!Lookup(p) => files'[j] = files[j]
    BY <1>3 DEF FT!PutOver, FT!PutAborts, FT!RegisterOver, FT!TypeOK
  <2> QED BY <1>2, <2>1, <2>2
<1>4. ASSUME NEW id, FT!DeleteFile(id)
      PROVE  Unused'
  <2>1. id \in FT!Ids /\ allocated' = allocated
    BY <1>4 DEF FT!DeleteFile, FT!Known
  <2>2. \A j \in FT!FileIDs : j # id => files'[j] = files[j]
    BY <1>4 DEF FT!DeleteFile, FT!TypeOK
  <2> QED BY <1>2, <2>1, <2>2
<1>5. CASE UNCHANGED FT!vars
  BY <1>5 DEF FT!vars, Unused, FT!Ids
<1> QED BY <1>1, <1>3, <1>4, <1>5 DEF FT!Next, FT!DeleteOwned

-----------------------------------------------------------------------------
(* What holds after every step because it does in StarVFS. *)
LEMMA BasicStep ==
  ASSUME ClientsInv, [ClientsNext]_clientVars
  PROVE  MountInv' /\ Unused' /\ [Next]_vars
<1>1. [Next]_vars
  BY ClientStepIsStep
<1>2. MountInv'
  BY <1>1, MountStep DEF ClientsInv
<1>3. [FT!Next]_(FT!vars)
  BY <1>1, StepInv, Parts
<1>4. Unused'
  BY <1>3, UnusedStays, Parts DEF ClientsInv
<1> QED BY <1>1, <1>2, <1>4

(* No file but k changes, and k may be new. *)
Changed(k) ==
  /\ FT!Ids \subseteq FT!Ids' /\ FT!Ids' \subseteq FT!Ids \cup {k}
  /\ \A id \in FT!Ids \ {k} : Same(id)

LEMMA OnlyChanged ==
  ASSUME NEW p, NEW k, Only(p, k)
  PROVE  Changed(k)
BY DEF Only, Changed

LEMMA NoneChanged ==
  ASSUME NEW k, UNCHANGED <<files, allocated>>
  PROVE  Changed(k)
BY DEF Changed, Same, FT!Ids

LEMMA NewId ==
  ASSUME FT!TypeOK, NEW p, NEW dir, NEW c, NEW n, FT!AddNew(p, dir, c, n)
  PROVE  allocated \in FT!FileIDs /\ allocated \notin FT!Ids
BY StarVFSAssumption DEF FT!AddNew, FT!Room, FT!TypeOK, FT!FileIDs, FT!Ids

(* The loop of a folder: one entry is registered, refused, or asserts. *)
LEMMA FolderRegisters ==
  ASSUME ClientsInv, RegisterFolderEntry, NEW c, NEW n, c = call.cid, n = call.at
  PROVE  /\ call.op = "folder" /\ UNCHANGED <<interfaces, containers>>
         /\ c \in DOMAIN containers /\ c \in Mounts /\ containers[c].kind = "folder"
         /\ n \in DOMAIN containers[c].entries /\ n \in 1 .. MaxEntries
         /\ \/ \E k \in FT!FileIDs :
                 /\ Only(containers[c].entries[n].path, k)
                 /\ Entered(k, containers[c].entries[n].dir, c, n)
                 /\ FT!ValidFile(k) => ~containers[c].entries[n].dir
                 /\ NextEntry
            \/ UNCHANGED <<files, allocated, aborted>> /\ NextEntry
            \/ \E k \in FT!Ids :
                 /\ Changed(k) /\ files'[k].cid = c /\ files'[k].cfid = 0
                 /\ aborted' /\ call' = Stopped
<1>p. PICK p, d : p = containers[c].entries[n].path /\ d = containers[c].entries[n].dir
  OBVIOUS
<1>0. FT!TypeOK
  BY Parts
<1>1. /\ call.op = "folder" /\ HasCurrent /\ UNCHANGED <<interfaces, containers>>
  BY DEF RegisterFolderEntry
<1>2. /\ c \in DOMAIN containers /\ c \in Mounts /\ n \in DOMAIN containers[c].entries
      /\ n \in 1 .. MaxEntries /\ Current = containers[c].entries[n]
  BY <1>1, CurrentEntry, Parts DEF Entries, Mounts
<1>3. containers[c].kind = "folder"
  BY <1>1, Parts DEF IInv, CallSound
<1>4. CASE FT!AddNew(p, d, c, n) /\ NextEntry
  <2>1. /\ Only(p, allocated) /\ Entered(allocated, d, c, n) /\ allocated \notin FT!Ids
    BY <1>0, <1>4, AddNewExact
  <2>2. allocated \in FT!FileIDs /\ ~FT!ValidFile(allocated)
    BY <1>0, <1>4, NewId DEF FT!ValidFile
  <2> QED BY <1>p, <1>1, <1>2, <1>3, <1>4, <2>1, <2>2
<1>5. CASE FT!PutOver(p, d, c, n) /\ NextEntry
  <2>1. /\ Only(p, FT!Lookup(p)) /\ Entered(FT!Lookup(p), d, c, n) /\ FT!Lookup(p) \in FT!Ids
    BY <1>0, <1>5, PutOverExact
  <2>2. FT!ValidFile(FT!Lookup(p)) => ~d
    BY <1>5 DEF FT!PutOver
  <2>3. FT!Lookup(p) \in FT!FileIDs
    BY <2>1, Ids, Parts
  <2> QED BY <1>p, <1>1, <1>2, <1>3, <1>5, <2>1, <2>2, <2>3
<1>6. CASE FT!PutAborts(p, d, c) /\ call' = Stopped
  <2>1. /\ Changed(FT!Lookup(p)) /\ FT!Lookup(p) \in FT!Ids
        /\ files'[FT!Lookup(p)].cid = c /\ files'[FT!Lookup(p)].cfid = 0
    <3> DEFINE k == FT!Lookup(p)
    <3>1. /\ Only(p, k) /\ k \in FT!Ids /\ files'[k].cid = c /\ files'[k].cfid = 0
      BY <1>0, <1>6, PutAbortsExact
    <3> HIDE DEF k
    <3>2. Changed(k)
      BY <3>1, OnlyChanged
    <3> QED BY <3>1, <3>2 DEF k
  <2> QED BY <1>p, <1>1, <1>2, <1>3, <1>6, <2>1 DEF FT!PutAborts
<1>7. CASE UNCHANGED <<files, allocated, aborted>> /\ NextEntry
  BY <1>1, <1>2, <1>3, <1>7
<1> QED BY <1>p, <1>2, <1>4, <1>5, <1>6, <1>7 DEF RegisterFolderEntry

(* The loop of an archive: one entry is registered, unless a directory is   *)
(* there, or ends the loop.                                                 *)
LEMMA ArchiveRegisters ==
  ASSUME ClientsInv, RegisterArchiveEntry, NEW c, NEW n, c = call.cid, n = call.at
  PROVE  /\ call.op = "archive" /\ UNCHANGED <<interfaces, containers>>
         /\ c \in DOMAIN containers /\ c \in Mounts /\ containers[c].kind = "archive"
         /\ n \in DOMAIN containers[c].entries /\ n \in 1 .. MaxEntries
         /\ \/ \E k \in FT!FileIDs :
                 /\ Changed(k) /\ NextEntry
                 /\ \/ k \in FT!Ids /\ Same(k)
                    \/ files'[k].cid = c /\ files'[k].cfid = n
            \/ UNCHANGED <<files, allocated, aborted>> /\ call' = Idle
<1>p. PICK p, d : p = containers[c].entries[n].path /\ d = containers[c].entries[n].dir
  OBVIOUS
<1>0. FT!TypeOK
  BY Parts
<1>1. /\ call.op = "archive" /\ HasCurrent /\ UNCHANGED <<interfaces, containers>>
  BY DEF RegisterArchiveEntry
<1>2. /\ c \in DOMAIN containers /\ c \in Mounts /\ n \in DOMAIN containers[c].entries
      /\ n \in 1 .. MaxEntries /\ Current = containers[c].entries[n]
  BY <1>1, CurrentEntry, Parts DEF Entries, Mounts
<1>3. containers[c].kind = "archive"
  BY <1>1, Parts DEF IInv, CallSound
<1>4. CASE FT!AddNew(p, d, c, n) /\ NextEntry
  <2>1. /\ Only(p, allocated) /\ Entered(allocated, d, c, n)
    BY <1>0, <1>4, AddNewExact
  <2>2. allocated \in FT!FileIDs
    BY <1>0, <1>4, NewId
  <2> QED BY <1>p, <1>1, <1>2, <1>3, <1>4, <2>1, <2>2, OnlyChanged DEF Entered
<1>5. CASE FT!RegisterOver(p, d, c, n) /\ NextEntry
  <2>1. /\ Only(p, FT!Lookup(p)) /\ FT!Lookup(p) \in FT!Ids
        /\ \/ Same(FT!Lookup(p))
           \/ files'[FT!Lookup(p)].cid = c /\ files'[FT!Lookup(p)].cfid = n
    <3> DEFINE k == FT!Lookup(p)
    <3>1. /\ Only(p, k) /\ k \in FT!Ids
          /\ IF FT!ValidDirectory(k) THEN Same(k)
             ELSE files'[k].cid = c /\ files'[k].cfid = n /\ files'[k].valid
      BY <1>0, <1>5, RegisterOverExact
    <3> HIDE DEF k
    <3>2. Same(k) \/ (files'[k].cid = c /\ files'[k].cfid = n)
      BY <3>1
    <3> QED BY <3>1, <3>2 DEF k
  <2>2. FT!Lookup(p) \in FT!FileIDs
    BY <2>1, Ids, Parts
  <2> QED BY <1>p, <1>1, <1>2, <1>3, <1>5, <2>1, <2>2, OnlyChanged
<1>6. CASE UNCHANGED <<files, allocated, aborted>> /\ call' = Idle
  BY <1>1, <1>2, <1>3, <1>6
<1> QED BY <1>p, <1>2, <1>4, <1>5, <1>6 DEF RegisterArchiveEntry

(* A virtual file or a directory on the way to it is added, or nothing. *)
LEMMA Forces ==
  ASSUME ClientsInv, ForceDirectory \/ ForceFile, NEW c, c = call.cid
  PROVE  /\ call.op = "force" /\ UNCHANGED <<interfaces, containers>>
         /\ c \in DOMAIN containers /\ c \in Mounts /\ containers[c].kind = "virtual"
         /\ NextEntry \/ call' \in {Idle, Stopped}
         /\ \/ \E k \in FT!FileIDs \ FT!Ids :
                 /\ Changed(k) /\ files'[k].cid = c
                 /\ files'[k].directory \/ files'[k].path = call.path
            \/ UNCHANGED <<files, allocated, aborted>>
<1>0. FT!TypeOK
  BY Parts
<1>1. call.op = "force" /\ UNCHANGED <<interfaces, containers>>
  BY DEF ForceDirectory, ForceFile
<1>2. c \in DOMAIN containers /\ c \in Mounts /\ containers[c].kind = "virtual"
  BY <1>1, Parts DEF IInv, CallSound, ClientsInv, Mounting
<1>3. NextEntry \/ call' \in {Idle, Stopped}
  BY DEF ForceDirectory, ForceFile
<1>4. ASSUME NEW p, NEW dir, NEW n, FT!AddNew(p, dir, c, n), dir \/ p = call.path
      PROVE  \E k \in FT!FileIDs \ FT!Ids :
                 /\ Changed(k) /\ files'[k].cid = c
                 /\ files'[k].directory \/ files'[k].path = call.path
  <2>1. Only(p, allocated) /\ Entered(allocated, dir, c, n) /\ allocated \notin FT!Ids
    BY <1>0, <1>4, AddNewExact
  <2>2. allocated \in FT!FileIDs
    BY <1>0, <1>4, NewId
  <2>3. files'[allocated].directory \/ files'[allocated].path = call.path
    BY <1>4, <2>1 DEF Only, Entered
  <2> QED BY <2>1, <2>2, <2>3, OnlyChanged DEF Entered
<1>5. \/ \E p, dir, n : FT!AddNew(p, dir, c, n) /\ (dir \/ p = call.path)
      \/ UNCHANGED <<files, allocated, aborted>>
  <2>1. CASE ForceDirectory
    BY <2>1 DEF ForceDirectory
  <2>2. CASE ForceFile
    BY <2>2 DEF ForceFile
  <2> QED BY <2>1, <2>2
<1> QED BY <1>1, <1>2, <1>3, <1>4, <1>5

-----------------------------------------------------------------------------
(* Steps that leave the containers and the disk as they are. *)
LEMMA FilesStayOnDisk ==
  ASSUME ClientsInv, UNCHANGED <<files, allocated, containers, disk>>,
         call # Stopped \/ UNCHANGED call
  PROVE  SameKind' /\ FoldersClosed' /\ DiskListed' /\ EntriesOnDisk'
<1>1. SameKind'
  BY DEF ClientsInv, SameKind, FT!Ids, Entries
<1>2. FoldersClosed' /\ DiskListed'
  BY DEF ClientsInv, FoldersClosed, UnderOwn, DiskListed, Entries
<1>3. \A c, p : Rekinded(c, p)' <=> Rekinded(c, p)
  BY RekindedSame
<1>4. \A c, i : Held(c, i)' => Held(c, i)
  BY DEF Held, FT!Ids
<1>5. EntriesOnDisk'
  BY <1>3, <1>4 DEF ClientsInv, EntriesOnDisk, OnDisk, Entries
<1> QED BY <1>1, <1>2, <1>5

LEMMA FilesChangeOnDisk ==
  ASSUME ClientsInv, UNCHANGED <<containers, disk>>, call # Stopped,
         NEW k, Changed(k),
         k \in FT!Ids' /\ files'[k].cfid # 0 /\ containers[files'[k].cid].kind = "folder"
         => files'[k].directory = containers[files'[k].cid].entries[files'[k].cfid].dir
  PROVE  SameKind' /\ FoldersClosed' /\ DiskListed' /\ EntriesOnDisk'
<1>1. SameKind'
  BY DEF ClientsInv, SameKind, Entries, Changed, Same
<1>2. FoldersClosed' /\ DiskListed'
  BY DEF ClientsInv, FoldersClosed, UnderOwn, DiskListed, Entries
<1>3. \A c, p : Rekinded(c, p)' <=> Rekinded(c, p)
  BY RekindedSame
<1>4. \A c, i : Held(c, i)
  BY DEF Held
<1>5. EntriesOnDisk'
  BY <1>3, <1>4 DEF ClientsInv, EntriesOnDisk, OnDisk, Entries
<1> QED BY <1>1, <1>2, <1>5

LEMMA MountingStays ==
  ASSUME Mounting, UNCHANGED <<files, allocated, interfaces, containers, disk, call>>
  PROVE  Mounting'
BY DEF Mounting, Entries, FT!Ids

LEMMA MountingEnds ==
  ASSUME Mounting, UNCHANGED <<interfaces, containers>>,
         call' \in {Idle, Stopped}
  PROVE  Mounting'
BY DEF Mounting, Idle, Stopped

LEMMA MountingGoesOn ==
  ASSUME ClientsInv, UNCHANGED <<interfaces, containers, disk>>, NextEntry,
         NEW c, NEW n, c = call.cid, n = call.at, call.op \in {"folder", "archive"},
         NEW k, Changed(k),
         k \in FT!Ids' /\ files'[k].cid = c => files'[k].cfid \in Nat /\ files'[k].cfid <= n
  PROVE  Mounting'
<1>1. /\ call'.op = call.op /\ call'.cid = c /\ call'.at = n + 1 /\ n \in Nat
  BY Parts DEF NextEntry, Call
<1>2. ASSUME NEW id \in FT!Ids', files'[id].cid = c
      PROVE  files'[id].cfid < n + 1
  <2>1. CASE id = k
    BY <1>1, <1>2, <2>1
  <2>2. CASE id # k
    <3>1. id \in FT!Ids /\ files[id].cid = c /\ files'[id].cfid = files[id].cfid
      BY <1>2, <2>2 DEF Changed, Same
    <3>2. files[id].cfid < n /\ files[id].cfid \in Nat
      <4>1. id \in FT!FileIDs
        BY <3>1, Parts, Ids
      <4>2. files[id].cfid \in Nat
        BY <4>1, FileParts, StarVFSAssumption
      <4> QED BY <3>1, <4>2 DEF ClientsInv, Mounting
    <3> QED BY <1>1, <3>1, <3>2
  <2> QED BY <2>1, <2>2
<1>3. containers'[c].open
  BY DEF ClientsInv, Mounting
<1>4. call'.op = "folder" =>
       \A i \in DOMAIN Entries(c)' : ~Entries(c)'[i].dir =>
         disk'[c][Entries(c)'[i].path] = Mounted(c, i)
  BY <1>1 DEF ClientsInv, Mounting, Entries
<1> QED BY <1>1, <1>2, <1>3, <1>4 DEF Mounting, Entries

LEMMA MakingStays ==
  ASSUME ClientsInv, creating' = Nobody \/ UNCHANGED <<files, allocated, containers, disk, creating>>
  PROVE  Making'
<1>1. CASE creating' = Nobody
  BY <1>1 DEF Making
<1>2. CASE UNCHANGED <<files, allocated, containers, disk, creating>>
  <2>1. \A c, p : Rekinded(c, p)' <=> Rekinded(c, p)
    BY <1>2, RekindedSame
  <2> QED BY <1>2, <2>1 DEF ClientsInv, Making, Spoiled, FT!Ids
<1> QED BY <1>1, <1>2

(* The texts in the disk, the sizes and the objects are of their types. *)
LEMMA Texts1 ==
  /\ Empty \in Text /\ Texts \subseteq Text
  /\ \A c \in Mounts, n \in 1 .. MaxEntries : Mounted(c, n) \in Text
BY DEF Text

LEMMA SizedType ==
  ASSUME ClientsInv, NEW size \in Text, sizes' = Sized(size)
  PROVE  sizes' \in [1 .. MaxFiles -> Text]
<1>1. \A id \in 1 .. MaxFiles : sizes[id] \in Text
  BY DEF ClientsInv, ClientsTypeOK
<1> QED BY <1>1, Texts1 DEF Sized

LEMMA TypeStays ==
  ASSUME ClientsInv, MountInv', UNCHANGED <<refs, disk, objects, creating>>,
         sizes' \in [1 .. MaxFiles -> Text]
  PROVE  ClientsTypeOK'
<1>1. TypeOK'
  BY DEF MountInv, IInv
<1> QED BY <1>1 DEF ClientsInv, ClientsTypeOK

-----------------------------------------------------------------------------
(* The actions keep the invariant. *)
LEMMA Behind ==
  ASSUME ClientsInv, call.op \in {"folder", "archive"}, NEW id \in FT!Ids,
         files[id].cid = call.cid
  PROVE  files[id].cfid \in Nat /\ files[id].cfid < call.at
<1>1. id \in FT!FileIDs
  BY Parts, Ids
<1>2. files[id].cfid \in Nat
  BY <1>1, FileParts, StarVFSAssumption
<1> QED BY <1>2 DEF ClientsInv, Mounting

LEMMA FolderEntryInv ==
  ASSUME ClientsInv, RegisterFolderEntry, UNCHANGED disk
  PROVE  SameKind' /\ FoldersClosed' /\ DiskListed' /\ EntriesOnDisk' /\ Mounting'
<1>0. PICK c, n : c = call.cid /\ n = call.at
  OBVIOUS
<1>1. /\ call.op = "folder" /\ UNCHANGED <<interfaces, containers>>
      /\ c \in DOMAIN containers /\ n \in 1 .. MaxEntries
  BY <1>0, FolderRegisters
<1>2. call # Stopped /\ call # Idle /\ Mounting
  BY <1>1 DEF Stopped, Idle, ClientsInv
<1>3. ASSUME NEW k \in FT!FileIDs, NextEntry, Only(containers[c].entries[n].path, k),
             Entered(k, containers[c].entries[n].dir, c, n)
      PROVE  SameKind' /\ FoldersClosed' /\ DiskListed' /\ EntriesOnDisk' /\ Mounting'
  <2>1. Changed(k)
    BY <1>3, OnlyChanged
  <2>2. SameKind' /\ FoldersClosed' /\ DiskListed' /\ EntriesOnDisk'
    BY <1>1, <1>2, <1>3, <2>1, FilesChangeOnDisk DEF Entered
  <2>3. files'[k].cfid \in Nat /\ files'[k].cfid <= n
    BY <1>1, <1>3 DEF Entered
  <2>4. Mounting'
    BY <1>0, <1>1, <1>3, <2>1, <2>3, MountingGoesOn
  <2> QED BY <2>2, <2>4
<1>4. CASE UNCHANGED <<files, allocated, aborted>> /\ NextEntry
  <2>1. SameKind' /\ FoldersClosed' /\ DiskListed' /\ EntriesOnDisk'
    BY <1>1, <1>2, <1>4, FilesStayOnDisk
  <2>2. Changed(1) /\ FT!Ids' = FT!Ids
    BY <1>4, NoneChanged DEF FT!Ids
  <2>3. 1 \in FT!Ids /\ files[1].cid = c => files'[1].cfid \in Nat /\ files'[1].cfid <= n
    <3>1. 1 \in FT!Ids /\ files[1].cid = c => files[1].cfid \in Nat /\ files[1].cfid < n
      BY <1>0, <1>1, Behind
    <3> QED BY <1>1, <1>4, <3>1
  <2>4. Mounting'
    BY <1>0, <1>1, <1>4, <2>2, <2>3, MountingGoesOn
  <2> QED BY <2>1, <2>4
<1>5. ASSUME NEW k \in FT!Ids, Changed(k), files'[k].cfid = 0, call' = Stopped
      PROVE  SameKind' /\ FoldersClosed' /\ DiskListed' /\ EntriesOnDisk' /\ Mounting'
  BY <1>1, <1>2, <1>5, FilesChangeOnDisk, MountingEnds
<1> QED BY <1>0, <1>3, <1>4, <1>5, FolderRegisters

LEMMA ArchiveEntryInv ==
  ASSUME ClientsInv, RegisterArchiveEntry, UNCHANGED disk
  PROVE  SameKind' /\ FoldersClosed' /\ DiskListed' /\ EntriesOnDisk' /\ Mounting'
<1>0. PICK c, n : c = call.cid /\ n = call.at
  OBVIOUS
<1>1. /\ call.op = "archive" /\ UNCHANGED <<interfaces, containers>>
      /\ c \in DOMAIN containers /\ containers[c].kind = "archive" /\ n \in 1 .. MaxEntries
  BY <1>0, ArchiveRegisters
<1>2. call # Stopped /\ call # Idle /\ Mounting
  BY <1>1 DEF Stopped, Idle, ClientsInv
<1>3. ASSUME NEW k \in FT!FileIDs, NextEntry, Changed(k),
             \/ k \in FT!Ids /\ Same(k)
             \/ files'[k].cid = c /\ files'[k].cfid = n
      PROVE  SameKind' /\ FoldersClosed' /\ DiskListed' /\ EntriesOnDisk' /\ Mounting'
  <2>1. k \in FT!Ids' /\ files'[k].cfid # 0 /\ containers[files'[k].cid].kind = "folder"
        => files'[k].directory = containers[files'[k].cid].entries[files'[k].cfid].dir
    BY <1>1, <1>3 DEF Same, ClientsInv, SameKind, Entries
  <2>2. SameKind' /\ FoldersClosed' /\ DiskListed' /\ EntriesOnDisk'
    BY <1>1, <1>2, <1>3, <2>1, FilesChangeOnDisk
  <2>3. files'[k].cid = c => files'[k].cfid \in Nat /\ files'[k].cfid <= n
    <3>1. CASE k \in FT!Ids /\ Same(k)
      <4>1. files[k].cid = c => files[k].cfid \in Nat /\ files[k].cfid < n
        BY <1>0, <1>1, <3>1, Behind
      <4> QED BY <1>1, <3>1, <4>1 DEF Same
    <3>2. CASE files'[k].cid = c /\ files'[k].cfid = n
      BY <1>1, <3>2
    <3> QED BY <1>3, <3>1, <3>2
  <2>4. Mounting'
    BY <1>0, <1>1, <1>3, <2>3, MountingGoesOn
  <2> QED BY <2>2, <2>4
<1>4. CASE UNCHANGED <<files, allocated, aborted>> /\ call' = Idle
  BY <1>1, <1>2, <1>4, FilesStayOnDisk, MountingEnds
<1> QED BY <1>0, <1>3, <1>4, ArchiveRegisters

LEMMA ForcesInv ==
  ASSUME ClientsInv, ForceDirectory \/ ForceFile, UNCHANGED disk
  PROVE  SameKind' /\ FoldersClosed' /\ DiskListed' /\ EntriesOnDisk' /\ Mounting'
<1>0. PICK c : c = call.cid
  OBVIOUS
<1>1. /\ call.op = "force" /\ UNCHANGED <<interfaces, containers>>
      /\ c \in DOMAIN containers /\ containers[c].kind = "virtual"
      /\ NextEntry \/ call' \in {Idle, Stopped}
      /\ \/ \E k \in FT!FileIDs \ FT!Ids :
              Changed(k) /\ files'[k].cid = c
         \/ UNCHANGED <<files, allocated, aborted>>
  BY <1>0, Forces
<1>2. call # Stopped /\ Mounting
  BY <1>1 DEF Stopped, Idle, ClientsInv
<1>3. SameKind' /\ FoldersClosed' /\ DiskListed' /\ EntriesOnDisk'
  <2>1. CASE UNCHANGED <<files, allocated, aborted>>
    BY <1>1, <1>2, <2>1, FilesStayOnDisk
  <2>2. ASSUME NEW k, Changed(k), files'[k].cid = c
        PROVE  SameKind' /\ FoldersClosed' /\ DiskListed' /\ EntriesOnDisk'
    BY <1>1, <1>2, <2>2, FilesChangeOnDisk
  <2> QED BY <1>1, <2>1, <2>2
<1>4. Mounting'
  <2>1. CASE NextEntry
    <3>1. call'.op = "force" /\ call'.cid = c
      BY <1>0, <1>1, <2>1, Parts DEF NextEntry, Call
    <3> QED BY <1>1, <1>2, <3>1 DEF Mounting
  <2>2. CASE call' \in {Idle, Stopped}
    BY <1>1, <1>2, <2>2, MountingEnds
  <2> QED BY <1>1, <2>1, <2>2
<1> QED BY <1>3, <1>4

LEMMA DeleteFileKeeps ==
  ASSUME ClientsInv, NEW id, DeleteFile(id), UNCHANGED disk
  PROVE  SameKind' /\ FoldersClosed' /\ DiskListed' /\ EntriesOnDisk' /\ Mounting'
<1>1. /\ FT!DeleteFile(id) /\ UNCHANGED <<interfaces, containers, call>> /\ call = Idle
  BY DEF DeleteFile
<1>2. call # Stopped /\ Mounting
  BY <1>1 DEF Stopped, Idle, ClientsInv
<1>3. /\ id \in FT!Ids /\ Only(files[id].path, id)
      /\ files'[id].directory = files[id].directory
      /\ files'[id].cid = files[id].cid /\ files'[id].cfid = files[id].cfid
  BY <1>1, Parts, DeleteExact
<1>4. Changed(id)
  BY <1>3, OnlyChanged
<1>5. SameKind' /\ FoldersClosed' /\ DiskListed' /\ EntriesOnDisk'
  <2>1. id \in FT!Ids' /\ files'[id].cfid # 0 /\ containers[files'[id].cid].kind = "folder"
        => files'[id].directory = containers[files'[id].cid].entries[files'[id].cfid].dir
    BY <1>3 DEF ClientsInv, SameKind, Entries
  <2> QED BY <1>1, <1>2, <1>4, <2>1, FilesChangeOnDisk
<1>6. Mounting'
  BY <1>1, <1>2, MountingEnds
<1> QED BY <1>5, <1>6

(* The containers change, but no folder gains or loses an entry. *)
LEMMA FoldersStay ==
  ASSUME ClientsInv, UNCHANGED <<files, allocated, disk>>, call # Stopped,
         \A c \in DOMAIN containers :
           /\ c \in DOMAIN containers' /\ containers'[c].kind = containers[c].kind
           /\ \A i \in DOMAIN containers[c].entries :
                /\ i \in DOMAIN containers'[c].entries
                /\ containers'[c].entries[i] = containers[c].entries[i],
         \A c \in DOMAIN containers' : containers'[c].kind = "folder" =>
           \A i \in DOMAIN containers'[c].entries :
             c \in DOMAIN containers /\ i \in DOMAIN containers[c].entries
  PROVE  SameKind' /\ FoldersClosed' /\ DiskListed' /\ EntriesOnDisk'
<1>1. SameKind'
  <2> SUFFICES ASSUME NEW id \in FT!Ids, files[id].cfid # 0,
                      containers'[files[id].cid].kind = "folder"
               PROVE  files[id].directory = containers'[files[id].cid].entries[files[id].cfid].dir
    BY DEF SameKind, Entries, FT!Ids
  <2>1. /\ files[id].cid \in DOMAIN containers
        /\ files[id].cfid \in DOMAIN containers[files[id].cid].entries
    BY RoutedFile
  <2> QED BY <2>1 DEF ClientsInv, SameKind, Entries
<1>2. FoldersClosed'
  <2> SUFFICES ASSUME NEW c \in DOMAIN containers', containers'[c].kind = "folder",
                      NEW i \in DOMAIN containers'[c].entries,
                      FT!Parent(containers'[c].entries[i].path) # FT!Root
               PROVE  \E j \in DOMAIN containers'[c].entries :
                        /\ containers'[c].entries[j].path = FT!Parent(containers'[c].entries[i].path)
                        /\ containers'[c].entries[j].dir
    BY DEF FoldersClosed, UnderOwn, Entries
  <2>1. /\ c \in DOMAIN containers /\ i \in DOMAIN containers[c].entries
        /\ containers[c].kind = "folder" /\ containers'[c].entries[i] = containers[c].entries[i]
    OBVIOUS
  <2>2. PICK j \in DOMAIN containers[c].entries :
          /\ containers[c].entries[j].path = FT!Parent(containers[c].entries[i].path)
          /\ containers[c].entries[j].dir
    BY <2>1 DEF ClientsInv, FoldersClosed, UnderOwn, Entries
  <2> QED BY <2>1, <2>2
<1>3. DiskListed'
  BY DEF ClientsInv, DiskListed, Entries
<1>4. EntriesOnDisk'
  <2> SUFFICES ASSUME NEW c \in DOMAIN containers', containers'[c].kind = "folder",
                      NEW i \in DOMAIN containers'[c].entries, NEW p, NEW d,
                      p = containers'[c].entries[i].path, d = containers'[c].entries[i].dir
               PROVE  /\ Rekinded(c, p)' \/ OnDisk(c, p, d)
                      /\ disk[c][FT!Parent(p)] = Directory => disk[c][p] # Nothing
    BY DEF EntriesOnDisk, Entries, OnDisk, Rekinded
  <2>2. /\ c \in DOMAIN containers /\ i \in DOMAIN containers[c].entries
        /\ containers[c].kind = "folder" /\ containers[c].entries[i] = containers'[c].entries[i]
    OBVIOUS
  <2>3. /\ Rekinded(c, p) \/ OnDisk(c, p, d)
        /\ disk[c][FT!Parent(p)] = Directory => disk[c][p] # Nothing
    BY <2>2 DEF ClientsInv, EntriesOnDisk, Held, Entries
  <2>4. Rekinded(c, p) => Rekinded(c, p)'
    BY <2>2, RekindedGrows
  <2> QED BY <2>3, <2>4
<1> QED BY <1>1, <1>2, <1>3, <1>4

LEMMA MountAddedKeeps ==
  ASSUME ClientsInv, NEW kind \in Kinds, MountAdded(kind), UNCHANGED disk
  PROVE  SameKind' /\ FoldersClosed' /\ DiskListed' /\ EntriesOnDisk' /\ Mounting'
<1> DEFINE new == [kind |-> kind, entries |-> << >>, open |-> TRUE]
<1>1. /\ containers \in Seq(Container) /\ Len(containers) \in Nat
      /\ DOMAIN containers = 1 .. Len(containers)
  BY Parts
<1>2. new \in Container
  BY DEF Container
<1>3. /\ DOMAIN containers' = 1 .. Len(containers) + 1 /\ Len(containers') = Len(containers) + 1
      /\ \A c \in DOMAIN containers : containers'[c] = containers[c]
      /\ containers'[Len(containers) + 1] = new
  <2> HIDE DEF new
  <2>1. containers' = Append(containers, new)
    BY DEF MountAdded, new
  <2> QED BY <1>1, <1>2, <2>1, AppendProperties
<1>4. call # Stopped
  BY DEF MountAdded, Idle, Stopped
<1>5. /\ \A c \in DOMAIN containers : c \in DOMAIN containers'
      /\ \A c \in DOMAIN containers' : c \notin DOMAIN containers => DOMAIN containers'[c].entries = {}
  BY <1>1, <1>3
<1>6. SameKind' /\ FoldersClosed' /\ DiskListed' /\ EntriesOnDisk'
  BY <1>3, <1>4, <1>5, FoldersStay DEF MountAdded
<1>7. Mounting'
  <2>1. interfaces \in Nat /\ Len(containers) <= interfaces
    BY Parts, StarVFSAssumption DEF IInv, TypeOK, Numbered
  <2>2. call'.op = "reload" /\ call'.cid = interfaces + 1
    BY DEF MountAdded, Idle
  <2> QED BY <1>3, <2>1, <2>2 DEF Mounting, Entries
<1> QED BY <1>6, <1>7

LEMMA CloseContainerKeeps ==
  ASSUME ClientsInv, NEW c \in DOMAIN containers, CloseContainer(c), UNCHANGED disk
  PROVE  SameKind' /\ FoldersClosed' /\ DiskListed' /\ EntriesOnDisk' /\ Mounting'
<1>1. /\ containers \in Seq(Container) /\ containers[c] \in Container
  BY Parts
<1>2. /\ DOMAIN containers' = DOMAIN containers /\ Len(containers') = Len(containers)
      /\ \A k \in DOMAIN containers : /\ containers'[k].kind = containers[k].kind
                                      /\ containers'[k].entries = containers[k].entries
  <2> DEFINE d == [containers[c] EXCEPT !.open = FALSE]
  <2>1. d \in Container /\ d.kind = containers[c].kind /\ d.entries = containers[c].entries
    BY <1>1 DEF Container
  <2>2. containers' = [containers EXCEPT ![c] = d]
    BY DEF CloseContainer
  <2> HIDE DEF d
  <2> QED BY <1>1, <2>1, <2>2, ContainerChanges
<1>3. call # Stopped /\ call' = Idle /\ UNCHANGED <<files, allocated, interfaces>>
  BY DEF CloseContainer, Idle, Stopped
<1>4. SameKind' /\ FoldersClosed' /\ DiskListed' /\ EntriesOnDisk'
  BY <1>2, <1>3, FoldersStay
<1>5. Mounting'
  BY <1>2, <1>3 DEF ClientsInv, Mounting, Idle
<1> QED BY <1>4, <1>5

LEMMA AddVirtualKeeps ==
  ASSUME ClientsInv, NEW c \in DOMAIN containers, NEW p \in Paths, AddVirtual(c, p), UNCHANGED disk
  PROVE  SameKind' /\ FoldersClosed' /\ DiskListed' /\ EntriesOnDisk' /\ Mounting'
<1>1. /\ containers[c].kind = "virtual" /\ call # Stopped
      /\ UNCHANGED <<files, allocated, interfaces>>
      /\ containers' = [containers EXCEPT ![c].entries = Append(@, [path |-> p, dir |-> FALSE])]
      /\ call'.op = "force" /\ call'.cid = c
  BY DEF AddVirtual, Idle, Stopped
<1>2. [path |-> p, dir |-> FALSE] \in Entry
  BY DEF Entry
<1>3. /\ DOMAIN containers' = DOMAIN containers /\ Len(containers') = Len(containers)
      /\ \A k \in DOMAIN containers :
           /\ containers'[k].kind = containers[k].kind
           /\ k # c => containers'[k].entries = containers[k].entries
           /\ \A i \in DOMAIN containers[k].entries :
                /\ i \in DOMAIN containers'[k].entries
                /\ containers'[k].entries[i] = containers[k].entries[i]
  <2> DEFINE e == [path |-> p, dir |-> FALSE]
  <2> HIDE DEF e
  <2>1. containers' = [containers EXCEPT ![c].entries = Append(@, e)] /\ e \in Entry
    BY <1>1, <1>2 DEF e
  <2>2. PICK new : new = Len(containers[c].entries) + 1
    OBVIOUS
  <2>3. Gains(c, e, new)
    BY <2>1, <2>2, Appended
  <2> QED BY <2>3 DEF Gains
<1>4. SameKind' /\ FoldersClosed' /\ DiskListed' /\ EntriesOnDisk'
  BY <1>1, <1>3, FoldersStay
<1>5. Mounting'
  BY <1>1, <1>3 DEF ClientsInv, Mounting
<1> QED BY <1>4, <1>5

LEMMA EntriesOnDiskAfter ==
  ASSUME \A k \in DOMAIN containers' : containers'[k].kind = "folder" =>
           \A i \in DOMAIN containers'[k].entries : \A p, b :
             p = containers'[k].entries[i].path /\ b = containers'[k].entries[i].dir /\ Held(k, i)' =>
               /\ Rekinded(k, p)' \/ (IF b THEN disk'[k][p] = Directory ELSE disk'[k][p] \in Text)
               /\ disk'[k][FT!Parent(p)] = Directory => disk'[k][p] # Nothing
  PROVE  EntriesOnDisk'
<1> SUFFICES ASSUME NEW k \in DOMAIN containers', containers'[k].kind = "folder",
                    NEW i \in DOMAIN containers'[k].entries, Held(k, i)'
             PROVE  /\ Rekinded(k, Entries(k)[i].path)' \/ OnDisk(k, Entries(k)[i].path, Entries(k)[i].dir)'
                    /\ disk'[k][FT!Parent(containers'[k].entries[i].path)] = Directory
                       => disk'[k][containers'[k].entries[i].path] # Nothing
  BY DEF EntriesOnDisk, Entries
<1>1. PICK p, b : p = containers'[k].entries[i].path /\ b = containers'[k].entries[i].dir
  OBVIOUS
<1>2. /\ Rekinded(k, p)' \/ (IF b THEN disk'[k][p] = Directory ELSE disk'[k][p] \in Text)
      /\ disk'[k][FT!Parent(p)] = Directory => disk'[k][p] # Nothing
  BY <1>1
<1>3. Rekinded(k, p)' <=> Rekinded(k, Entries(k)[i].path)'
  BY <1>1 DEF Rekinded, Entries
<1>4. OnDisk(k, Entries(k)[i].path, Entries(k)[i].dir)'
      <=> IF b THEN disk'[k][p] = Directory ELSE disk'[k][p] \in Text
  BY <1>1 DEF OnDisk, Entries
<1> QED BY <1>1, <1>2, <1>3, <1>4


(* Nothing is mounted from a container before it has read its content, and  *)
(* then its disk holds just that.                                           *)
LEMMA ReloadKeeps ==
  ASSUME ClientsInv, NEW content \in Contents \cup {<< >>}, ReloadFrom(content)
  PROVE  /\ SameKind' /\ FoldersClosed' /\ DiskListed' /\ EntriesOnDisk' /\ Mounting'
         /\ disk' \in [Mounts -> [Paths -> Text \cup {Nothing, Directory}]]
<1>0. PICK c : c = call.cid
  OBVIOUS
<1>1. /\ call.op = "reload" /\ UNCHANGED <<files, allocated, interfaces>>
      /\ c \in DOMAIN containers /\ c \in Mounts /\ containers[c] \in Container
      /\ DOMAIN containers[c].entries = {} /\ containers[c].open
      /\ \A id \in FT!Ids : files[id].cid # c
  <2>1. c \in Nat /\ c >= 1 /\ c <= Len(containers) /\ call.op = "reload"
        /\ \A id \in FT!Ids : files[id].cid # c
    BY <1>0, Parts, StarVFSAssumption DEF ReloadFrom, Reload, IInv, CallSound, Call
  <2>2. c \in DOMAIN containers
    BY <2>1, Parts
  <2>3. containers[c].open /\ DOMAIN containers[c].entries = {}
    BY <1>0, <2>1, <2>2 DEF ClientsInv, Mounting, Entries
  <2> QED BY <2>1, <2>2, <2>3, Parts DEF ReloadFrom, Reload
<1>2. /\ content \in Seq(Entry) /\ WellFormed(content) /\ Len(content) < MaxEntries
      /\ DOMAIN content \subseteq 1 .. MaxEntries
  <2>1. content \in Seq(Entry) /\ WellFormed(content) /\ Len(content) < MaxEntries
    <3>1. CASE content = << >>
      BY <3>1, StarVFSAssumption DEF WellFormed
    <3> QED BY <3>1, StarVFSAssumption
  <2> QED BY <2>1, StarVFSAssumption
<1>3. \A i, j \in DOMAIN content : content[i].path = content[j].path => i = j
  <2>1. \A i, j \in DOMAIN content : i < j => content[i].path # content[j].path
    <3> SUFFICES ASSUME NEW i \in DOMAIN content, NEW j \in DOMAIN content, i < j
                 PROVE  content[i].path # content[j].path
      OBVIOUS
    <3>1. i \in 1 .. j - 1
      BY <1>2
    <3> QED BY <1>2, <3>1 DEF WellFormed
  <2>2. \A i, j \in DOMAIN content : i < j \/ i = j \/ j < i
    BY <1>2
  <2> QED BY <2>1, <2>2
<1> DEFINE es == IF containers[c].kind = "archive"
                 THEN <<[path |-> FT!Root, dir |-> TRUE]>> \o content ELSE content
           d  == [containers[c] EXCEPT !.entries = es]
<1>4. d \in Container /\ d.kind = containers[c].kind /\ d.open /\ d.entries = es
  <2>1. <<[path |-> FT!Root, dir |-> TRUE]>> \in Seq(Entry)
    BY StarVFSAssumption DEF Entry
  <2>2. es \in Seq(Entry)
    BY <1>2, <2>1, ConcatProperties
  <2> HIDE DEF es
  <2> QED BY <1>1, <2>2 DEF Container
<1>5. containers' = [containers EXCEPT ![c] = d]
  <2>1. containers' = [containers EXCEPT ![c].entries = es]
    BY <1>0 DEF ReloadFrom, Reload
  <2> HIDE DEF es
  <2> QED BY <2>1
<1> HIDE DEF d
<1>6. /\ Len(containers') = Len(containers) /\ DOMAIN containers' = DOMAIN containers
      /\ \A k \in DOMAIN containers : containers'[k] = IF k = c THEN d ELSE containers[k]
  BY <1>1, <1>4, <1>5, Parts, ContainerChanges
<1>7. containers[c].kind = "folder" => es = content
  OBVIOUS
<1> HIDE DEF es
<1>8. disk \in [Mounts -> [Paths -> Text \cup {Nothing, Directory}]]
  BY DEF ClientsInv, ClientsTypeOK
<1>9. disk' = IF containers[c].kind = "folder"
              THEN [disk EXCEPT ![c] = Scanned(c, content)] ELSE disk
  BY <1>0 DEF ReloadFrom
<1>10. /\ Scanned(c, content) \in [Paths -> Text \cup {Nothing, Directory}]
       /\ Scanned(c, content)[FT!Root] = Directory
       /\ \A i \in DOMAIN content :
            Scanned(c, content)[content[i].path] = IF content[i].dir THEN Directory ELSE Mounted(c, i)
       /\ \A p \in Paths \ {FT!Root} : Scanned(c, content)[p] # Nothing =>
            \E i \in DOMAIN content : content[i].path = p
  <2>1. ASSUME NEW i \in DOMAIN content
        PROVE  /\ content[i].path \in Paths \ {FT!Root}
               /\ (CHOOSE n \in DOMAIN content : content[n].path = content[i].path) = i
               /\ Mounted(c, i) \in Text
    <3>1. content[i].path \in Paths \ {FT!Root}
      <4>1. content[i] \in Entry
        BY <1>2
      <4> QED BY <1>2, <4>1 DEF WellFormed, Entry
    <3>2. (CHOOSE n \in DOMAIN content : content[n].path = content[i].path) = i
      BY <1>3
    <3> QED BY <1>1, <1>2, <3>1, <3>2, Texts1
  <2>2. \A p \in Paths : Scanned(c, content)[p] =
          IF p = FT!Root THEN Directory
          ELSE IF \E n \in DOMAIN content : content[n].path = p
          THEN LET n == CHOOSE n \in DOMAIN content : content[n].path = p
               IN  IF content[n].dir THEN Directory ELSE Mounted(c, n)
          ELSE Nothing
    BY DEF Scanned
  <2>3. \A i \in DOMAIN content :
          Scanned(c, content)[content[i].path] = IF content[i].dir THEN Directory ELSE Mounted(c, i)
    BY <2>1, <2>2
  <2>4. /\ Scanned(c, content)[FT!Root] = Directory
        /\ \A p \in Paths \ {FT!Root} : Scanned(c, content)[p] # Nothing =>
            \E i \in DOMAIN content : content[i].path = p
    BY <2>2, StarVFSAssumption
  <2>5. \A p \in Paths : Scanned(c, content)[p] \in Text \cup {Nothing, Directory}
    <3> SUFFICES ASSUME NEW p \in Paths, p # FT!Root, Scanned(c, content)[p] # Nothing
                 PROVE  Scanned(c, content)[p] \in Text \cup {Directory}
      BY <2>4
    <3>1. PICK i \in DOMAIN content : content[i].path = p
      BY <2>4
    <3>2. Scanned(c, content)[p] = IF content[i].dir THEN Directory ELSE Mounted(c, i)
      BY <2>3, <3>1
    <3> QED BY <2>1, <3>2
  <2>6. Scanned(c, content) \in [Paths -> Text \cup {Nothing, Directory}]
    BY <2>5 DEF Scanned
  <2> QED BY <2>3, <2>4, <2>6
<1>11. disk' \in [Mounts -> [Paths -> Text \cup {Nothing, Directory}]]
  BY <1>8, <1>9, <1>10
<1>12. /\ \A k \in Mounts : k # c => disk'[k] = disk[k]
       /\ containers[c].kind = "folder" => disk'[c] = Scanned(c, content)
       /\ containers[c].kind # "folder" => disk'[c] = disk[c]
  BY <1>1, <1>8, <1>9
<1>13. SameKind'
  <2> SUFFICES ASSUME NEW id \in FT!Ids, files[id].cfid # 0,
                      containers'[files[id].cid].kind = "folder"
               PROVE  files[id].directory = containers'[files[id].cid].entries[files[id].cfid].dir
    BY <1>1 DEF SameKind, Entries, FT!Ids
  <2>1. files[id].cid \in DOMAIN containers /\ files[id].cid # c
    BY <1>1, RoutedFile
  <2> QED BY <1>6, <2>1 DEF ClientsInv, SameKind, Entries
<1>14. FoldersClosed'
  <2> SUFFICES ASSUME NEW k \in DOMAIN containers, containers'[k].kind = "folder",
                      NEW i \in DOMAIN containers'[k].entries, NEW p,
                      p = FT!Parent(containers'[k].entries[i].path), p # FT!Root
               PROVE  \E j \in DOMAIN containers'[k].entries :
                        containers'[k].entries[j].path = p /\ containers'[k].entries[j].dir
    BY <1>6 DEF FoldersClosed, UnderOwn, Entries
  <2>1. CASE k # c
    BY <1>6, <2>1 DEF ClientsInv, FoldersClosed, UnderOwn, Entries
  <2>2. CASE k = c
    <3>1. containers'[c].entries = content
      BY <1>4, <1>6, <1>7, <2>2
    <3>2. i \in DOMAIN content /\ p = FT!Parent(content[i].path)
      BY <2>2, <3>1
    <3>3. PICK j \in 1 .. i - 1 : content[j] = [path |-> p, dir |-> TRUE]
      BY <1>2, <3>2 DEF WellFormed
    <3>4. j \in DOMAIN content
      BY <1>2, <3>2
    <3> QED BY <2>2, <3>1, <3>3, <3>4
  <2> QED BY <2>1, <2>2
<1>15. DiskListed'
  <2> SUFFICES ASSUME NEW k \in Mounts
               PROVE  /\ disk'[k][FT!Root] = Directory
                      /\ \A p \in Paths \ {FT!Root} : disk'[k][p] # Nothing =>
                           /\ k \in DOMAIN containers
                           /\ \E i \in DOMAIN containers'[k].entries :
                                /\ containers'[k].entries[i].path = p
                                /\ containers'[k].entries[i].dir <=> disk'[k][p] = Directory
    BY <1>6 DEF DiskListed, Entries
  <2>1. CASE k # c
    BY <1>6, <1>12, <2>1 DEF ClientsInv, DiskListed, Entries
  <2>2. CASE k = c /\ containers[c].kind # "folder"
    BY <1>1, <1>12, <2>2 DEF ClientsInv, DiskListed, Entries
  <2>3. CASE k = c /\ containers[c].kind = "folder"
    <3>1. containers'[c].entries = content /\ disk'[c] = Scanned(c, content)
      BY <1>1, <1>4, <1>6, <1>7, <1>12, <2>3
    <3>2. \A i \in DOMAIN content : Mounted(c, i) # Directory
      BY <1>1, <1>2, Texts1, ClientsAssumption
    <3> QED BY <1>1, <1>10, <2>3, <3>1, <3>2
  <2> QED BY <2>1, <2>2, <2>3
<1>16. EntriesOnDisk'
  <2> SUFFICES ASSUME NEW k \in DOMAIN containers, containers'[k].kind = "folder",
                      NEW i \in DOMAIN containers'[k].entries, NEW p, NEW b,
                      p = containers'[k].entries[i].path, b = containers'[k].entries[i].dir
               PROVE  /\ Rekinded(k, p)' \/ (IF b THEN disk'[k][p] = Directory ELSE disk'[k][p] \in Text)
                      /\ disk'[k][FT!Parent(p)] = Directory => disk'[k][p] # Nothing
    BY <1>6, EntriesOnDiskAfter
  <2>1. CASE k # c
    <3>1. /\ containers[k].kind = "folder" /\ containers'[k].entries = containers[k].entries
          /\ disk'[k] = disk[k]
      BY <1>6, <1>12, <2>1, Parts
    <3>2. call # Stopped
      BY <1>1 DEF Stopped, Idle
    <3>3. /\ Rekinded(k, p) \/ OnDisk(k, p, b)
          /\ disk[k][FT!Parent(p)] = Directory => disk[k][p] # Nothing
      BY <3>1, <3>2 DEF ClientsInv, EntriesOnDisk, Held, Entries
    <3>4. Rekinded(k, p) => Rekinded(k, p)'
      BY <3>1, RekindedGrows
    <3> QED BY <3>1, <3>3, <3>4 DEF OnDisk
  <2>2. CASE k = c
    <3>1. containers[c].kind = "folder"
      BY <1>4, <1>6, <2>2
    <3>2. containers'[c].entries = content /\ disk'[c] = Scanned(c, content)
      BY <1>1, <1>4, <1>6, <1>7, <1>12, <3>1
    <3>3. i \in DOMAIN content /\ p = content[i].path /\ b = content[i].dir
      BY <2>2, <3>2
    <3>4. Mounted(c, i) \in Text /\ Mounted(c, i) # Nothing
      BY <1>1, <1>2, <3>3, Texts1, ClientsAssumption
    <3>5. disk'[c][p] = IF b THEN Directory ELSE Mounted(c, i)
      BY <1>10, <3>2, <3>3
    <3> QED BY <2>2, <3>4, <3>5, ClientsAssumption
  <2> QED BY <2>1, <2>2
<1>17. Mounting'
  <2>1. containers'[c].open
    BY <1>1, <1>4, <1>6
  <2>2. CASE containers[c].kind = "folder"
    <3>1. call'.op = "folder" /\ call'.cid = c
      BY <1>0, <2>2, Parts DEF ReloadFrom, Reload, Call
    <3>2. containers'[c].entries = content /\ disk'[c] = Scanned(c, content)
      BY <1>1, <1>4, <1>6, <1>7, <1>12, <2>2
    <3>3. \A id \in FT!Ids' : files'[id].cid # c
      BY <1>1 DEF FT!Ids
    <3> QED BY <1>10, <2>1, <3>1, <3>2, <3>3 DEF Mounting, Entries
  <2>3. CASE containers[c].kind = "archive"
    <3>1. call'.op = "archive" /\ call'.cid = c
      BY <1>0, <2>3, Parts DEF ReloadFrom, Reload, Call
    <3>2. \A id \in FT!Ids' : files'[id].cid # c
      BY <1>1 DEF FT!Ids
    <3> QED BY <2>1, <3>1, <3>2 DEF Mounting, Entries
  <2>4. CASE containers[c].kind = "virtual"
    <3>1. call' = Idle
      BY <1>0, <2>4 DEF ReloadFrom, Reload
    <3> QED BY <2>1, <3>1 DEF Mounting, Idle
  <2> QED BY <1>1, <2>2, <2>3, <2>4 DEF Container, Kinds
<1> QED BY <1>11, <1>13, <1>14, <1>15, <1>16, <1>17

-----------------------------------------------------------------------------
(* Rekinded, of a list of entries. *)
RekindedIn(es, p) ==
  \E i, j \in DOMAIN es :
    /\ es[j].path = es[i].path
    /\ es[i].dir # es[j].dir
    /\ Len(es[i].path) <= Len(p) /\ SubSeq(p, 1, Len(es[i].path)) = es[i].path

LEMMA RekindedEntries ==
  ASSUME NEW c, NEW p
  PROVE  /\ Rekinded(c, p) <=> RekindedIn(containers[c].entries, p)
         /\ Rekinded(c, p)' <=> RekindedIn(containers'[c].entries, p)
BY DEF Rekinded, RekindedIn, Entries

LEMMA OwnRekinded ==
  ASSUME NEW es, NEW p \in Seq(Names), NEW i \in DOMAIN es, NEW j \in DOMAIN es,
         es[i].path = p, es[j].path = p, es[i].dir # es[j].dir
  PROVE  RekindedIn(es, p)
<1>1. SubSeq(p, 1, Len(p)) = p
  OBVIOUS
<1> QED BY <1>1 DEF RekindedIn

LEMMA PrefixLength ==
  ASSUME NEW p \in Seq(Names), NEW m \in Nat, m <= Len(p)
  PROVE  Len(SubSeq(p, 1, m)) = m
OBVIOUS

LEMMA ParentLength ==
  ASSUME NEW p \in Seq(Names), p # << >>
  PROVE  Len(FT!Parent(p)) = Len(p) - 1
<1>1. Len(p) \in Nat /\ Len(p) # 0
  OBVIOUS
<1>2. Len(p) - 1 \in Nat /\ Len(p) - 1 <= Len(p)
  BY <1>1
<1> QED BY <1>2, PrefixLength DEF FT!Parent

LEMMA AboveRekinded ==
  ASSUME NEW es, \A i \in DOMAIN es : es[i].path \in Seq(Names),
         NEW p \in Seq(Names), p # << >>, RekindedIn(es, FT!Parent(p))
  PROVE  RekindedIn(es, p)
<1>1. PICK i, j \in DOMAIN es :
        /\ es[j].path = es[i].path
        /\ es[i].dir # es[j].dir
        /\ Len(es[i].path) <= Len(FT!Parent(p))
        /\ SubSeq(FT!Parent(p), 1, Len(es[i].path)) = es[i].path
  BY DEF RekindedIn
<1>2. PICK q \in Seq(Names) : q = es[i].path
  OBVIOUS
<1>3. Len(p) \in Nat /\ Len(p) >= 1 /\ Len(q) \in Nat
  OBVIOUS
<1>4. Len(FT!Parent(p)) = Len(p) - 1
  BY ParentLength
<1>5. Len(q) <= Len(p) - 1
  BY <1>1, <1>2, <1>4
<1>6. SubSeq(SubSeq(p, 1, Len(p) - 1), 1, Len(q)) = SubSeq(p, 1, Len(q))
  BY <1>3, <1>5
<1> QED BY <1>1, <1>2, <1>3, <1>5, <1>6 DEF RekindedIn, FT!Parent

LEMMA PathSeqs ==
  /\ \A p \in Paths : p \in Seq(Names)
  /\ \A p \in Paths \ {FT!Root} : p # << >> /\ FT!Parent(p) \in Paths
<1>1. \A p \in Paths : p \in Seq(Names)
  BY StarVFSAssumption
<1>2. ASSUME NEW p \in Paths \ {FT!Root}
      PROVE  p # << >> /\ FT!Parent(p) \in Paths
  <2>1. p # << >> /\ p \in Seq(Names)
    BY <1>1 DEF FT!Root
  <2>0. Len(p) \in Nat /\ Len(p) # 0
    BY <2>1
  <2>2. CASE Len(p) = 1
    <3>1. SubSeq(p, 1, Len(p) - 1) = << >>
      BY <2>1, <2>2
    <3> QED BY <2>1, <3>1, StarVFSAssumption DEF FT!Parent, FT!Root
  <2>3. CASE Len(p) # 1
    <3>0. PICK n \in Nat : n = Len(p)
      BY <2>0
    <3>1. n - 1 \in 1 .. Len(p)
      BY <2>0, <2>3, <3>0
    <3>2. \A k \in 1 .. Len(p) : SubSeq(p, 1, k) \in Paths
      BY StarVFSAssumption
    <3>3. SubSeq(p, 1, n - 1) \in Paths
      BY <3>1, <3>2
    <3> QED BY <2>1, <3>0, <3>3 DEF FT!Parent
  <2> QED BY <2>2, <2>3
<1> QED BY <1>1, <1>2

(* What making path p does to the disk d. *)
LEMMA DiskMade ==
  ASSUME NEW c \in Mounts, NEW p \in Paths, NEW dir \in BOOLEAN, NEW made,
         made = DiskCreated(c, p, dir),
         disk \in [Mounts -> [Paths -> Text \cup {Nothing, Directory}]],
         disk[c][FT!Parent(p)] \in Text \cup {Nothing, Directory}
  PROVE  /\ made \in [Paths -> Text \cup {Nothing, Directory}]
         /\ \A q \in Paths : q # p => made[q] = disk[c][q]
         /\ \/ made[p] = disk[c][p]
            \/ ~dir /\ disk[c][p] # Directory /\ made[p] = Empty
            \/ dir /\ disk[c][p] = Nothing /\ made[p] = Directory /\ disk[c][FT!Parent(p)] = Directory
         /\ disk[c][FT!Parent(p)] = Directory =>
              IF dir THEN made[p] = IF disk[c][p] = Nothing THEN Directory ELSE disk[c][p]
              ELSE made[p] = IF disk[c][p] = Directory THEN Directory ELSE Empty
<1>1. disk[c] \in [Paths -> Text \cup {Nothing, Directory}]
  OBVIOUS
<1>2. CASE dir
  BY <1>1, <1>2 DEF DiskCreated, DiskDirectory
<1>3. CASE ~dir
  BY <1>1, <1>3, Texts1 DEF DiskCreated, DiskWritten
<1> QED BY <1>2, <1>3

-----------------------------------------------------------------------------
(* A folder's new entry: the table gets a file for it or asserts, and the   *)
(* disk follows.                                                            *)
NewEntry(h, p, dir, c, new) ==
  /\ c \in DOMAIN containers /\ c \in Mounts
  /\ containers[c].open /\ containers[c].kind = "folder"
  /\ new = Len(containers[c].entries) + 1 /\ new \in 1 .. MaxEntries
  /\ containers' = [containers EXCEPT ![c].entries = Append(@, [path |-> p, dir |-> dir])]
  /\ \E j \in DOMAIN containers[c].entries :
       containers[c].entries[j].path = FT!Parent(p) /\ containers[c].entries[j].dir
  /\ call = Idle /\ creating = Nobody /\ UNCHANGED <<interfaces, refs, objects>>
  /\ sizes' = Sized(Empty)
  /\ \/ /\ \E k \in FT!FileIDs :
             /\ Only(p, k) /\ Entered(k, dir, c, new)
             /\ FT!ValidFile(k) => ~dir
             /\ creating' \in {Nobody, [id |-> k, handle |-> h, path |-> p]}
        /\ call' = Idle
        /\ disk' = [disk EXCEPT ![c] = DiskCreated(c, p, dir)]
     \/ /\ \E k \in FT!Ids : Only(p, k) /\ files'[k].cid = c /\ files'[k].cfid = 0
        /\ aborted' /\ call' = Stopped /\ UNCHANGED disk /\ creating' = Nobody

LEMMA CreateNewEffect ==
  ASSUME ClientsInv, NEW h \in Handles, NEW p \in Paths \ {FT!Root}, NEW dir \in BOOLEAN,
         CreateNew(h, p, dir), NEW c, NEW new, c = files[FT!Lookup(FT!Parent(p))].cid,
         new = NewEntryID(c)
  PROVE  NewEntry(h, p, dir, c, new)
<1>0. PICK base : base = FT!Lookup(FT!Parent(p))
  OBVIOUS
<1>1. Create(p, dir) /\ creating = Nobody /\ UNCHANGED <<refs, objects>> /\ sizes' = Sized(Empty)
  BY DEF CreateNew
<1>2. CreatedBy(p, dir, base, c, new)
  <2>1. c = files[base].cid
    BY <1>0
  <2> QED BY <1>0, <1>1, <2>1, CreateExact
<1>2a. /\ c \in DOMAIN containers /\ c \in Mounts
       /\ containers[c].open /\ containers[c].kind = "folder"
       /\ new = Len(containers[c].entries) + 1 /\ new \in 1 .. MaxEntries
       /\ call = Idle /\ UNCHANGED interfaces
  BY <1>2 DEF CreatedBy
<1>2b. containers' = [containers EXCEPT ![c].entries = Append(@, [path |-> p, dir |-> dir])]
  BY <1>2 DEF CreatedBy
<1>2c. \/ FT!AddNew(p, dir, c, new) /\ UNCHANGED call
       \/ FT!PutOver(p, dir, c, new) /\ UNCHANGED call
       \/ FT!PutAborts(p, dir, c) /\ call' = Stopped
  BY <1>2 DEF CreatedBy
<1>3. /\ disk' = IF call' = Idle THEN [disk EXCEPT ![c] = DiskCreated(c, p, dir)] ELSE disk
      /\ \/ creating' = Nobody
         \/ call' = Idle /\ \E id \in FT!Ids' : /\ files'[id].path = p
                                              /\ creating' = [id |-> id, handle |-> h, path |-> p]
  <2>1. PICK q : q = Append(Entries(c)[files[base].cfid].path, p[Len(p)])
    OBVIOUS
  <2>2. q = p
    BY <1>2, <2>1 DEF CreatedBy
  <2>3. /\ disk' = IF call' = Idle THEN [disk EXCEPT ![c] = DiskCreated(c, q, dir)] ELSE disk
        /\ \/ creating' = Nobody
           \/ call' = Idle /\ \E id \in FT!Ids' : /\ files'[id].path = q
                                                /\ creating' = [id |-> id, handle |-> h, path |-> p]
    BY <1>0, <2>1 DEF CreateNew
  <2> QED BY <2>2, <2>3
<1>4. \E j \in DOMAIN containers[c].entries :
        containers[c].entries[j].path = FT!Parent(p) /\ containers[c].entries[j].dir
  <2>1. containers[c].entries[files[base].cfid].dir
    BY <1>0, <1>2 DEF ClientsInv, SameKind, Entries, CreatedBy
  <2> QED BY <1>2, <2>1 DEF CreatedBy
<1>5. FT!TypeOK /\ PathsUnique'
  <2>1. [Next]_vars
    BY <1>1 DEF Next, Begin
  <2> QED BY <2>1, Parts, MountStep DEF ClientsInv, MountInv
<1>6. ASSUME FT!AddNew(p, dir, c, new) \/ FT!PutOver(p, dir, c, new), UNCHANGED call
      PROVE  /\ \E k \in FT!FileIDs :
                    /\ Only(p, k) /\ Entered(k, dir, c, new)
                    /\ FT!ValidFile(k) => ~dir
                    /\ creating' \in {Nobody, [id |-> k, handle |-> h, path |-> p]}
             /\ call' = Idle
             /\ disk' = [disk EXCEPT ![c] = DiskCreated(c, p, dir)]
  <2>1. PICK k \in FT!FileIDs : /\ Only(p, k) /\ Entered(k, dir, c, new)
                                /\ FT!ValidFile(k) => ~dir
    <3>1. CASE FT!AddNew(p, dir, c, new)
      BY <1>5, <3>1, AddNewExact, NewId DEF FT!ValidFile
    <3>2. CASE FT!PutOver(p, dir, c, new)
      <4>1. /\ Only(p, FT!Lookup(p)) /\ Entered(FT!Lookup(p), dir, c, new) /\ FT!Lookup(p) \in FT!Ids
        BY <1>5, <3>2, PutOverExact
      <4>2. FT!ValidFile(FT!Lookup(p)) => ~dir
        BY <3>2 DEF FT!PutOver
      <4>3. FT!Lookup(p) \in FT!FileIDs
        BY <1>5, <4>1, Ids
      <4> QED BY <4>1, <4>2, <4>3
    <3> QED BY <1>6, <3>1, <3>2
  <2>2. \A id \in FT!Ids' : files'[id].path = p => id = k
    BY <1>5, <2>1 DEF Only, PathsUnique, FT!OnePathOneFile
  <2> QED BY <1>2a, <1>3, <1>6, <2>1, <2>2
<1>7. ASSUME FT!PutAborts(p, dir, c), call' = Stopped
      PROVE  /\ \E k \in FT!Ids : Only(p, k) /\ files'[k].cid = c /\ files'[k].cfid = 0
             /\ aborted' /\ UNCHANGED disk /\ creating' = Nobody
  <2>1. Stopped # Idle
    BY DEF Stopped, Idle
  <2>2. Only(p, FT!Lookup(p)) /\ FT!Lookup(p) \in FT!Ids
        /\ files'[FT!Lookup(p)].cid = c /\ files'[FT!Lookup(p)].cfid = 0
    BY <1>5, <1>7, PutAbortsExact
  <2> QED BY <1>3, <1>7, <2>1, <2>2 DEF FT!PutAborts
<1> QED BY <1>1, <1>2a, <1>2b, <1>2c, <1>4, <1>6, <1>7 DEF NewEntry


LEMMA ParentOther ==
  ASSUME NEW p \in Paths \ {FT!Root}
  PROVE  FT!Parent(p) # p
<1>1. p \in Seq(Names) /\ p # << >>
  BY PathSeqs
<1>2. PICK n \in Nat : n = Len(p) /\ n >= 1
  BY <1>1
<1>3. Len(SubSeq(p, 1, n - 1)) = n - 1
  BY <1>1, <1>2
<1> QED BY <1>2, <1>3 DEF FT!Parent

(* A new entry is on the disk as the client asked, unless the folder has    *)
(* had the other kind of file there or above it.                            *)
LEMMA MadeOrRekinded ==
  ASSUME ClientsInv, NEW c \in DOMAIN containers, NEW p \in Paths \ {FT!Root}, NEW dir \in BOOLEAN,
         NEW new, NEW fs, NEW made,
         containers[c].kind = "folder", call # Stopped,
         \E j \in DOMAIN containers[c].entries :
           containers[c].entries[j].path = FT!Parent(p) /\ containers[c].entries[j].dir,
         \A i \in DOMAIN containers[c].entries :
           i \in DOMAIN fs /\ fs[i] = containers[c].entries[i],
         \A i \in DOMAIN fs : fs[i].path \in Seq(Names),
         new \in DOMAIN fs, fs[new].path = p, fs[new].dir = dir,
         made = DiskCreated(c, p, dir)
  PROVE  RekindedIn(fs, p) \/ made[p] = IF dir THEN Directory ELSE Empty
<1>0. /\ c \in Mounts /\ p \in Paths /\ p \in Seq(Names) /\ p # << >> /\ FT!Parent(p) \in Paths
      /\ \A i \in DOMAIN containers[c].entries : containers[c].entries[i].dir \in BOOLEAN
  BY Parts, PathSeqs
<1>1. disk \in [Mounts -> [Paths -> Text \cup {Nothing, Directory}]]
  BY DEF ClientsInv, ClientsTypeOK
<1>2. disk[c][FT!Parent(p)] \in Text \cup {Nothing, Directory}
  BY <1>0, <1>1
<1>3. CASE disk[c][FT!Parent(p)] = Directory
  <2>1. IF dir THEN made[p] = IF disk[c][p] = Nothing THEN Directory ELSE disk[c][p]
        ELSE made[p] = IF disk[c][p] = Directory THEN Directory ELSE Empty
    BY <1>0, <1>1, <1>2, <1>3, DiskMade
  <2>2. CASE disk[c][p] # Nothing /\ (dir <=> disk[c][p] # Directory)
    <3>1. PICK i \in DOMAIN containers[c].entries :
            /\ containers[c].entries[i].path = p
            /\ containers[c].entries[i].dir <=> disk[c][p] = Directory
      BY <1>0, <2>2 DEF ClientsInv, DiskListed, Entries
    <3>2. i \in DOMAIN fs /\ fs[i].path = p /\ fs[i].dir # fs[new].dir
      BY <1>0, <2>2, <3>1
    <3> QED BY <1>0, <3>2, OwnRekinded
  <2>3. CASE ~(disk[c][p] # Nothing /\ (dir <=> disk[c][p] # Directory))
    BY <2>1, <2>3, ClientsAssumption
  <2> QED BY <2>2, <2>3
<1>4. CASE disk[c][FT!Parent(p)] # Directory
  <2>1. PICK j \in DOMAIN containers[c].entries :
          containers[c].entries[j].path = FT!Parent(p) /\ containers[c].entries[j].dir
    OBVIOUS
  <2>2. Rekinded(c, FT!Parent(p))
    BY <1>4, <2>1 DEF ClientsInv, EntriesOnDisk, Held, OnDisk, Entries
  <2>3. RekindedIn(fs, FT!Parent(p))
    <3>1. PICK es : es = containers[c].entries
      OBVIOUS
    <3>2. RekindedIn(es, FT!Parent(p))
      BY <2>2, <3>1, RekindedEntries
    <3>3. \A i \in DOMAIN es : i \in DOMAIN fs /\ fs[i] = es[i]
      BY <3>1
    <3> QED BY <3>2, <3>3 DEF RekindedIn
  <2> QED BY <1>0, <2>3, AboveRekinded
<1> QED BY <1>3, <1>4

(* The disk of a folder and its old entries after a new one is made.        *)
LEMMA OldEntriesOnDisk ==
  ASSUME ClientsInv, NEW c \in DOMAIN containers, NEW p \in Paths \ {FT!Root}, NEW dir \in BOOLEAN,
         NEW made, made = DiskCreated(c, p, dir),
         containers[c].kind = "folder", call # Stopped,
         NEW i \in DOMAIN containers[c].entries, NEW q, NEW b,
         q = containers[c].entries[i].path, b = containers[c].entries[i].dir
  PROVE  /\ Rekinded(c, q) \/ (IF b THEN made[q] = Directory ELSE made[q] \in Text)
         /\ made[FT!Parent(q)] = Directory => made[q] # Nothing
<1>0. /\ c \in Mounts /\ p \in Paths /\ FT!Parent(p) \in Paths
      /\ q \in Paths /\ q # FT!Root /\ FT!Parent(q) \in Paths /\ b \in BOOLEAN
  BY Parts, PathSeqs
<1>1. disk \in [Mounts -> [Paths -> Text \cup {Nothing, Directory}]]
  BY DEF ClientsInv, ClientsTypeOK
<1>2. disk[c][FT!Parent(p)] \in Text \cup {Nothing, Directory}
  BY <1>0, <1>1
<1>3. /\ \A r \in Paths : r # p => made[r] = disk[c][r]
      /\ \/ made[p] = disk[c][p]
         \/ ~dir /\ disk[c][p] # Directory /\ made[p] = Empty
         \/ dir /\ disk[c][p] = Nothing /\ made[p] = Directory /\ disk[c][FT!Parent(p)] = Directory
  BY <1>0, <1>1, <1>2, DiskMade
<1>4. /\ Rekinded(c, q) \/ (IF b THEN disk[c][q] = Directory ELSE disk[c][q] \in Text)
      /\ disk[c][FT!Parent(q)] = Directory => disk[c][q] # Nothing
  BY DEF ClientsInv, EntriesOnDisk, Held, OnDisk, Entries
<1>5. Text \cap {Nothing, Directory} = {} /\ Nothing # Directory /\ Empty \in Text
  BY ClientsAssumption, Texts1
<1>6. disk[c][q] # Nothing => made[q] # Nothing
  BY <1>0, <1>3, <1>5
<1>7. Rekinded(c, q) \/ (IF b THEN made[q] = Directory ELSE made[q] \in Text)
  BY <1>0, <1>3, <1>4, <1>5
<1>8. made[FT!Parent(q)] = Directory => disk[c][FT!Parent(q)] = Directory
  <2> SUFFICES ASSUME made[FT!Parent(q)] = Directory, disk[c][FT!Parent(q)] # Directory
               PROVE  FALSE
    OBVIOUS
  <2>1. /\ FT!Parent(q) = p /\ disk[c][p] = Nothing /\ disk[c][FT!Parent(p)] = Directory
    BY <1>0, <1>3, <1>5
  <2>2. PICK j \in DOMAIN containers[c].entries : containers[c].entries[j].path = p
    BY <2>1 DEF ClientsInv, FoldersClosed, UnderOwn, Entries
  <2>3. disk[c][p] # Nothing
    BY <2>1, <2>2 DEF ClientsInv, EntriesOnDisk, Held, Entries
  <2> QED BY <2>1, <2>3
<1> QED BY <1>4, <1>6, <1>7, <1>8


LEMMA CreateNewKeeps ==
  ASSUME ClientsInv, MountInv', NEW h \in Handles, NEW p \in Paths \ {FT!Root},
         NEW dir \in BOOLEAN, CreateNew(h, p, dir)
  PROVE  /\ SameKind' /\ FoldersClosed' /\ DiskListed' /\ EntriesOnDisk' /\ Mounting' /\ Making'
         /\ ClientsTypeOK'
<1>0. PICK c, new : c = files[FT!Lookup(FT!Parent(p))].cid /\ new = NewEntryID(c)
  OBVIOUS
<1>1. PICK e : e = [path |-> p, dir |-> dir]
  OBVIOUS
<1>1a. PICK made : made = DiskCreated(c, p, dir)
  OBVIOUS
<1>2. /\ c \in DOMAIN containers /\ c \in Mounts
      /\ containers[c].open /\ containers[c].kind = "folder"
      /\ new = Len(containers[c].entries) + 1 /\ new \in 1 .. MaxEntries
      /\ containers' = [containers EXCEPT ![c].entries = Append(@, e)]
      /\ \E j \in DOMAIN containers[c].entries :
           containers[c].entries[j].path = FT!Parent(p) /\ containers[c].entries[j].dir
      /\ call = Idle /\ creating = Nobody /\ UNCHANGED <<interfaces, refs, objects>>
      /\ sizes' = Sized(Empty)
      /\ \/ /\ \E k \in FT!FileIDs :
                 /\ Only(p, k) /\ Entered(k, dir, c, new)
                 /\ creating' \in {Nobody, [id |-> k, handle |-> h, path |-> p]}
            /\ call' = Idle
            /\ disk' = [disk EXCEPT ![c] = made]
         \/ /\ \E k \in FT!Ids : Only(p, k) /\ files'[k].cfid = 0
            /\ call' = Stopped /\ UNCHANGED disk /\ creating' = Nobody
  <2>1. NewEntry(h, p, dir, c, new)
    BY <1>0, CreateNewEffect
  <2> QED BY <1>1, <1>1a, <2>1 DEF NewEntry
<1>3. e \in Entry /\ e.path = p /\ e.dir = dir
  BY <1>1 DEF Entry
<1>4. /\ DOMAIN containers' = DOMAIN containers /\ Len(containers') = Len(containers)
      /\ \A k \in DOMAIN containers : /\ containers'[k].kind = containers[k].kind
                                      /\ containers'[k].open = containers[k].open
                                      /\ k # c => containers'[k].entries = containers[k].entries
      /\ new \notin DOMAIN containers[c].entries /\ new # 0
      /\ DOMAIN containers'[c].entries = DOMAIN containers[c].entries \cup {new}
      /\ \A i \in DOMAIN containers[c].entries :
           containers'[c].entries[i] = containers[c].entries[i]
      /\ containers'[c].entries[new] = e
  <2>1. /\ c \in DOMAIN containers /\ new = Len(containers[c].entries) + 1 /\ e \in Entry
        /\ containers' = [containers EXCEPT ![c].entries = Append(@, e)]
    BY <1>2, <1>3
  <2>2. Gains(c, e, new)
    BY <2>1, Appended
  <2> QED BY <2>2 DEF Gains
<1>5. \A k \in DOMAIN containers : \A i \in DOMAIN containers[k].entries :
        i \in DOMAIN containers'[k].entries /\ containers'[k].entries[i] = containers[k].entries[i]
  BY <1>4
<1>6. call # Stopped /\ Stopped # Idle
  BY <1>2 DEF Stopped, Idle
<1>7. /\ disk \in [Mounts -> [Paths -> Text \cup {Nothing, Directory}]]
      /\ disk[c][FT!Parent(p)] \in Text \cup {Nothing, Directory}
      /\ p \in Paths /\ FT!Parent(p) # p /\ FT!Parent(p) \in Paths
  BY <1>2, ParentOther, PathSeqs DEF ClientsInv, ClientsTypeOK
<1>8. /\ made \in [Paths -> Text \cup {Nothing, Directory}]
      /\ \A q \in Paths : q # p => made[q] = disk[c][q]
      /\ \/ made[p] = disk[c][p]
         \/ ~dir /\ disk[c][p] # Directory /\ made[p] = Empty
         \/ dir /\ disk[c][p] = Nothing /\ made[p] = Directory /\ disk[c][FT!Parent(p)] = Directory
      /\ disk[c][FT!Parent(p)] = Directory =>
           IF dir THEN made[p] = IF disk[c][p] = Nothing THEN Directory ELSE disk[c][p]
           ELSE made[p] = IF disk[c][p] = Directory THEN Directory ELSE Empty
  BY <1>1a, <1>2, <1>7, DiskMade
<1>9. \/ disk' = disk
      \/ /\ disk'[c] = made /\ \A k \in Mounts : k # c => disk'[k] = disk[k]
  BY <1>2, <1>7
<1>10. \A k \in DOMAIN containers : \A q : Rekinded(k, q) => Rekinded(k, q)'
  BY <1>5, RekindedGrows
<1>11. Rekinded(c, p)' \/ made[p] = IF dir THEN Directory ELSE Empty
  <2>1. PICK fs : fs = containers'[c].entries
    OBVIOUS
  <2>2. \A i \in DOMAIN fs : fs[i].path \in Seq(Names)
    BY <1>3, <1>4, <2>1, Parts, PathSeqs, <1>2
  <2>3. new \in DOMAIN fs /\ fs[new].path = p /\ fs[new].dir = dir
    BY <1>3, <1>4, <2>1
  <2>4. \A i \in DOMAIN containers[c].entries : i \in DOMAIN fs /\ fs[i] = containers[c].entries[i]
    BY <1>2, <1>5, <2>1
  <2>5. RekindedIn(fs, p) \/ made[p] = IF dir THEN Directory ELSE Empty
    BY <1>1a, <1>2, <1>6, <2>2, <2>3, <2>4, MadeOrRekinded
  <2> QED BY <2>1, <2>5, RekindedEntries
<1>12. SameKind'
  <2> SUFFICES ASSUME NEW id \in FT!Ids', NEW m, NEW n, m = files'[id].cid, n = files'[id].cfid,
                      n # 0, containers'[m].kind = "folder"
               PROVE  files'[id].directory = containers'[m].entries[n].dir
    BY DEF SameKind, Entries
  <2>1. CASE id \in FT!Ids /\ Same(id)
    <3>1. files[id].cid = m /\ files[id].cfid = n /\ files'[id].directory = files[id].directory
      BY <2>1 DEF Same
    <3>2. m \in DOMAIN containers /\ n \in DOMAIN containers[m].entries
      BY <2>1, <3>1, RoutedFile
    <3>3. files[id].directory = containers[m].entries[n].dir
      BY <1>4, <2>1, <3>1, <3>2 DEF ClientsInv, SameKind, Entries
    <3> QED BY <1>5, <3>1, <3>2, <3>3
  <2>2. CASE ~(id \in FT!Ids /\ Same(id))
    <3>1. files'[id].cid = c /\ files'[id].cfid = new /\ files'[id].directory = dir
      BY <1>2, <2>2 DEF Only, Entered
    <3> QED BY <1>3, <1>4, <3>1
  <2> QED BY <2>1, <2>2
<1>13. FoldersClosed'
  <2> SUFFICES ASSUME NEW k \in DOMAIN containers, containers'[k].kind = "folder",
                      NEW i \in DOMAIN containers'[k].entries, NEW q,
                      q = FT!Parent(containers'[k].entries[i].path), q # FT!Root
               PROVE  \E j \in DOMAIN containers'[k].entries :
                        containers'[k].entries[j].path = q /\ containers'[k].entries[j].dir
    BY <1>4 DEF FoldersClosed, UnderOwn, Entries
  <2>1. CASE i \in DOMAIN containers[k].entries
    <3>1. PICK j \in DOMAIN containers[k].entries :
            containers[k].entries[j].path = q /\ containers[k].entries[j].dir
      BY <1>4, <1>5, <2>1 DEF ClientsInv, FoldersClosed, UnderOwn, Entries
    <3> QED BY <1>5, <3>1
  <2>2. CASE i \notin DOMAIN containers[k].entries
    <3>1. k = c /\ q = FT!Parent(p)
      BY <1>3, <1>4, <2>2
    <3> QED BY <1>2, <1>5, <3>1
  <2> QED BY <2>1, <2>2
<1>14. DiskListed'
  <2> SUFFICES ASSUME NEW k \in Mounts
               PROVE  /\ disk'[k][FT!Root] = Directory
                      /\ \A q \in Paths \ {FT!Root} : disk'[k][q] # Nothing =>
                           /\ k \in DOMAIN containers
                           /\ \E i \in DOMAIN containers'[k].entries :
                                /\ containers'[k].entries[i].path = q
                                /\ containers'[k].entries[i].dir <=> disk'[k][q] = Directory
    BY <1>4 DEF DiskListed, Entries
  <2>1. /\ disk[k][FT!Root] = Directory
        /\ \A q \in Paths \ {FT!Root} : disk[k][q] # Nothing =>
             /\ k \in DOMAIN containers
             /\ \E i \in DOMAIN containers'[k].entries :
                  /\ containers'[k].entries[i].path = q
                  /\ containers'[k].entries[i].dir <=> disk[k][q] = Directory
    BY <1>5 DEF ClientsInv, DiskListed, Entries
  <2>2. CASE disk'[k] = disk[k]
    BY <2>1, <2>2
  <2>3. CASE k = c /\ disk'[c] = made
    <3>1. Empty # Directory
      BY Texts1, ClientsAssumption
    <3>2. new \in DOMAIN containers'[c].entries
          /\ containers'[c].entries[new].path = p /\ containers'[c].entries[new].dir = dir
      BY <1>3, <1>4
    <3>3. made[p] # Nothing => \E i \in DOMAIN containers'[k].entries :
                                 /\ containers'[k].entries[i].path = p
                                 /\ containers'[k].entries[i].dir <=> made[p] = Directory
      BY <1>7, <1>8, <2>1, <2>3, <3>1, <3>2
    <3>4. \A q \in Paths : q # p => made[q] = disk[k][q]
      BY <1>8, <2>3
    <3>5. FT!Root \in Paths
      BY StarVFSAssumption
    <3>6. disk'[k][FT!Root] = Directory
      BY <2>1, <2>3, <3>4, <3>5
    <3>7. ASSUME NEW q \in Paths \ {FT!Root}, disk'[k][q] # Nothing
          PROVE  /\ k \in DOMAIN containers
                 /\ \E i \in DOMAIN containers'[k].entries :
                      /\ containers'[k].entries[i].path = q
                      /\ containers'[k].entries[i].dir <=> disk'[k][q] = Directory
      <4>1. CASE q = p
        BY <1>2, <2>3, <3>3, <3>7, <4>1
      <4>2. CASE q # p
        <5>1. disk'[k][q] = disk[k][q]
          BY <2>3, <3>4, <4>2
        <5> QED BY <2>1, <3>7, <5>1
      <4> QED BY <4>1, <4>2
    <3> QED BY <3>6, <3>7
  <2> QED BY <1>9, <2>2, <2>3
<1>15. EntriesOnDisk'
  <2> SUFFICES ASSUME NEW k \in DOMAIN containers, containers'[k].kind = "folder",
                      NEW i \in DOMAIN containers'[k].entries, NEW q, NEW b,
                      q = containers'[k].entries[i].path, b = containers'[k].entries[i].dir,
                      Held(k, i)'
               PROVE  /\ Rekinded(k, q)' \/ (IF b THEN disk'[k][q] = Directory ELSE disk'[k][q] \in Text)
                      /\ disk'[k][FT!Parent(q)] = Directory => disk'[k][q] # Nothing
    BY <1>4, EntriesOnDiskAfter
  <2>1. CASE i \in DOMAIN containers[k].entries /\ disk'[k] = disk[k]
    <3>1. /\ Rekinded(k, q) \/ OnDisk(k, q, b)
          /\ disk[k][FT!Parent(q)] = Directory => disk[k][q] # Nothing
      BY <1>4, <1>5, <1>6, <2>1 DEF ClientsInv, EntriesOnDisk, Held, Entries
    <3> QED BY <1>10, <2>1, <3>1 DEF OnDisk
  <2>2. CASE i \in DOMAIN containers[k].entries /\ k = c /\ disk'[c] = made
    <3>1. q = containers[c].entries[i].path /\ b = containers[c].entries[i].dir
      BY <1>5, <2>2
    <3>2. /\ Rekinded(c, q) \/ (IF b THEN made[q] = Directory ELSE made[q] \in Text)
          /\ made[FT!Parent(q)] = Directory => made[q] # Nothing
      <4>1. c \in DOMAIN containers /\ containers[c].kind = "folder"
            /\ i \in DOMAIN containers[c].entries
        BY <1>2, <2>2
      <4> QED BY <1>1a, <1>6, <3>1, <4>1, OldEntriesOnDisk
    <3> QED BY <1>10, <2>2, <3>2
  <2>3. CASE i \notin DOMAIN containers[k].entries
    <3>1. k = c /\ i = new /\ q = p /\ b = dir
      BY <1>3, <1>4, <2>3
    <3>2. disk' = [disk EXCEPT ![c] = made]
      <4>1. ASSUME call' = Stopped, NEW id \in FT!Ids, Only(p, id), files'[id].cfid = 0
            PROVE  FALSE
        <5>1. PICK j \in FT!Ids' : files'[j].cid = c /\ files'[j].cfid = new
          BY <3>1, <4>1 DEF Held
        <5>2. j # id
          BY <1>4, <4>1, <5>1
        <5>3. j \in FT!Ids /\ files[j].cid = c /\ files[j].cfid = new
          BY <4>1, <5>1, <5>2 DEF Only, Same
        <5> QED BY <1>4, <5>3, RoutedFile
      <4> QED BY <1>2, <4>1
    <3>3. disk'[c] = made
      BY <1>2, <1>7, <3>2
    <3>4. Text \cap {Nothing, Directory} = {} /\ Nothing # Directory /\ Empty \in Text
      BY ClientsAssumption, Texts1
    <3>5. Rekinded(c, p)' \/ (IF dir THEN made[p] = Directory ELSE made[p] \in Text)
      BY <1>11, <3>4
    <3>6. made[FT!Parent(p)] = Directory => made[p] # Nothing
      BY <1>7, <1>8, <3>4
    <3> QED BY <3>1, <3>3, <3>5, <3>6
  <2> QED BY <1>2, <1>9, <2>1, <2>2, <2>3, Parts
<1>16. Mounting'
  BY <1>2, <1>4 DEF ClientsInv, Mounting, Idle, Stopped
<1>17. Making'
  <2>1. CASE creating' = Nobody
    BY <2>1 DEF Making
  <2>2. CASE creating' # Nobody
    <3>1. PICK k \in FT!FileIDs :
            /\ Only(p, k) /\ Entered(k, dir, c, new)
            /\ creating' = [id |-> k, handle |-> h, path |-> p]
            /\ disk' = [disk EXCEPT ![c] = made]
      BY <1>2, <2>2
    <3>2. /\ k \in FT!Ids' /\ files'[k].path = p /\ files'[k].valid
          /\ files'[k].cid = c /\ files'[k].cfid = new /\ files'[k].directory = dir
      BY <3>1 DEF Only, Entered
    <3>3. creating'.id = k /\ creating'.path = p /\ disk'[c] = made
      BY <1>2, <1>7, <3>1
    <3>4. files'[k].directory \/ Rekinded(c, p)' \/ disk'[c][p] = Empty
      BY <1>11, <3>2, <3>3
    <3>5. Rekinded(c, p)' => Spoiled(k)'
      <4> SUFFICES ASSUME Rekinded(c, p)'
                   PROVE  Spoiled(k)'
        OBVIOUS
      <4>1. RekindedIn(containers'[files'[k].cid].entries, files'[k].path)
        BY <3>2, RekindedEntries
      <4> QED BY <1>2, <1>4, <3>2, <4>1 DEF Spoiled, Rekinded, RekindedIn, Entries
    <3>6. Spoiled(k)' => Spoiled(creating.id)'
      BY <3>3 DEF Spoiled, Rekinded, Entries
    <3> QED BY <1>2, <1>4, <3>2, <3>3, <3>4, <3>5, <3>6 DEF Making
  <2> QED BY <2>1, <2>2
<1>18. ClientsTypeOK'
  <2>1. TypeOK'
    BY DEF MountInv, IInv
  <2>2. disk' \in [Mounts -> [Paths -> Text \cup {Nothing, Directory}]]
    BY <1>2, <1>7, <1>8
  <2>3. sizes' \in [1 .. MaxFiles -> Text]
    BY <1>2, SizedType, Texts1
  <2>4. creating' \in {Nobody} \cup [id : 1 .. MaxFiles, handle : Handles, path : Paths]
    <3>1. FT!FileIDs = 1 .. MaxFiles
      BY DEF FT!FileIDs
    <3> QED BY <1>2, <1>7, <3>1
  <2>5. /\ refs' \in [Handles -> Refs!Ref \cup {NoRef}]
        /\ objects' \in [Mounts -> [1 .. MaxEntries -> {"none", "owned", "watched", "gone"}]]
    BY <1>2 DEF ClientsInv, ClientsTypeOK
  <2> QED BY <2>1, <2>2, <2>3, <2>4, <2>5 DEF ClientsTypeOK
<1> QED BY <1>12, <1>13, <1>14, <1>15, <1>16, <1>17, <1>18


(* A write replaces a text that an entry of the folder has, or does nothing. *)
WritesTo(h, text, c, n, q) ==
  /\ call = Idle /\ creating = Nobody /\ refs[h] # NoRef
  /\ UNCHANGED <<vars, refs, objects, sizes, creating>>
  /\ c \in DOMAIN containers /\ c \in Mounts /\ containers[c].open
  /\ containers[c].kind = "folder"
  /\ n \in DOMAIN containers[c].entries /\ n \in 1 .. MaxEntries
  /\ q \in Paths \ {FT!Root} /\ FT!Parent(q) \in Paths
  /\ disk' = [disk EXCEPT ![c] = DiskWritten(@, q, text)]

LEMMA WriteEffect ==
  ASSUME ClientsInv, NEW h \in Handles, NEW text \in Texts, Write(h, text),
         NEW c, NEW n, NEW q,
         c = files[FileOf(h)].cid, n = files[FileOf(h)].cfid, q = containers[c].entries[n].path
  PROVE  WritesTo(h, text, c, n, q)
<1>1. /\ call = Idle /\ creating = Nobody /\ refs[h] # NoRef
      /\ UNCHANGED <<vars, refs, objects, sizes, creating>>
      /\ c \in DOMAIN containers /\ containers[c].open /\ containers[c].kind = "folder"
      /\ n \in DOMAIN containers[c].entries
      /\ disk' = [disk EXCEPT ![c] = DiskWritten(@, q, text)]
  BY DEF Write, Reachable, Entries
<1>2. c \in Mounts /\ n \in 1 .. MaxEntries /\ q \in Paths \ {FT!Root}
  BY <1>1, Parts
<1> QED BY <1>1, <1>2, PathSeqs DEF WritesTo

LEMMA WriteKeeps ==
  ASSUME ClientsInv, MountInv', NEW h \in Handles, NEW text \in Texts, Write(h, text)
  PROVE  /\ SameKind' /\ FoldersClosed' /\ DiskListed' /\ EntriesOnDisk' /\ Mounting' /\ Making'
         /\ ClientsTypeOK'
<1>0. PICK c, n : c = files[FileOf(h)].cid /\ n = files[FileOf(h)].cfid
  OBVIOUS
<1>0a. PICK q : q = containers[c].entries[n].path
  OBVIOUS
<1>1. /\ call = Idle /\ creating = Nobody /\ UNCHANGED <<vars, refs, objects, sizes, creating>>
      /\ c \in DOMAIN containers /\ c \in Mounts /\ containers[c].kind = "folder"
      /\ n \in DOMAIN containers[c].entries
      /\ q \in Paths \ {FT!Root} /\ FT!Parent(q) \in Paths
      /\ disk' = [disk EXCEPT ![c] = DiskWritten(@, q, text)]
  <2>1. WritesTo(h, text, c, n, q)
    BY <1>0, <1>0a, WriteEffect
  <2> QED BY <2>1 DEF WritesTo
<1>2. /\ UNCHANGED <<files, allocated, aborted, interfaces, containers, call>>
      /\ call # Stopped
  BY <1>1 DEF vars, Idle, Stopped
<1>3. disk \in [Mounts -> [Paths -> Text \cup {Nothing, Directory}]]
  BY DEF ClientsInv, ClientsTypeOK
<1>4. text \in Text /\ text \notin {Nothing, Directory}
  BY Texts1, ClientsAssumption
<1>5. CASE disk' = disk
  <2>1. SameKind' /\ FoldersClosed' /\ DiskListed' /\ EntriesOnDisk'
    BY <1>2, <1>5, FilesStayOnDisk
  <2>2. Mounting'
    BY <1>2, <1>5, MountingStays DEF ClientsInv
  <2>3. Making'
    BY <1>1, MakingStays
  <2>4. ClientsTypeOK'
    BY <1>1, <1>5, TypeStays DEF ClientsInv, ClientsTypeOK
  <2> QED BY <2>1, <2>2, <2>3, <2>4
<1>6. CASE disk' # disk
  <2>1. disk[c][FT!Parent(q)] = Directory /\ disk[c][q] # Directory
    BY <1>1, <1>3, <1>6 DEF DiskWritten
  <2>2. disk' = [disk EXCEPT ![c] = [disk[c] EXCEPT ![q] = text]]
    BY <1>1, <2>1 DEF DiskWritten
  <2>3. /\ disk' \in [Mounts -> [Paths -> Text \cup {Nothing, Directory}]]
        /\ disk'[c][q] = text
        /\ \A k \in Mounts : \A p \in Paths : k # c \/ p # q => disk'[k][p] = disk[k][p]
    BY <1>1, <1>3, <1>4, <2>2
  <2>4. SameKind' /\ FoldersClosed'
    BY <1>2 DEF ClientsInv, SameKind, FoldersClosed, UnderOwn, Entries, FT!Ids
  <2>5. \E i \in DOMAIN containers[c].entries :
          containers[c].entries[i].path = q /\ ~containers[c].entries[i].dir
    <3>1. disk[c][q] # Nothing
      BY <1>0a, <1>1, <1>2, <2>1 DEF ClientsInv, EntriesOnDisk, Held, Entries
    <3> QED BY <1>1, <2>1, <3>1 DEF ClientsInv, DiskListed, Entries
  <2>6. DiskListed'
    <3> SUFFICES ASSUME NEW k \in Mounts
                 PROVE  /\ disk'[k][FT!Root] = Directory
                        /\ \A p \in Paths \ {FT!Root} : disk'[k][p] # Nothing =>
                             /\ k \in DOMAIN containers
                             /\ \E i \in DOMAIN containers[k].entries :
                                  /\ containers[k].entries[i].path = p
                                  /\ containers[k].entries[i].dir <=> disk'[k][p] = Directory
      BY <1>2 DEF DiskListed, Entries
    <3>1. disk'[k][FT!Root] = Directory
      BY <1>1, <2>3, StarVFSAssumption DEF ClientsInv, DiskListed
    <3>2. ASSUME NEW p \in Paths \ {FT!Root}, disk'[k][p] # Nothing
          PROVE  /\ k \in DOMAIN containers
                 /\ \E i \in DOMAIN containers[k].entries :
                      /\ containers[k].entries[i].path = p
                      /\ containers[k].entries[i].dir <=> disk'[k][p] = Directory
      <4>1. CASE k = c /\ p = q
        BY <1>1, <1>4, <2>3, <2>5, <4>1
      <4>2. CASE k # c \/ p # q
        <5>1. disk'[k][p] = disk[k][p]
          BY <2>3, <4>2
        <5> QED BY <3>2, <5>1 DEF ClientsInv, DiskListed, Entries
      <4> QED BY <4>1, <4>2
    <3> QED BY <3>1, <3>2
  <2>7. EntriesOnDisk'
    <3> SUFFICES ASSUME NEW k \in DOMAIN containers, containers[k].kind = "folder",
                        NEW i \in DOMAIN containers[k].entries, NEW p, NEW b,
                        p = containers[k].entries[i].path, b = containers[k].entries[i].dir
                 PROVE  /\ Rekinded(k, p) \/ (IF b THEN disk'[k][p] = Directory ELSE disk'[k][p] \in Text)
                        /\ disk'[k][FT!Parent(p)] = Directory => disk'[k][p] # Nothing
      BY <1>2 DEF EntriesOnDisk, Entries, OnDisk, Rekinded
    <3>1. /\ Rekinded(k, p) \/ (IF b THEN disk[k][p] = Directory ELSE disk[k][p] \in Text)
          /\ disk[k][FT!Parent(p)] = Directory => disk[k][p] # Nothing
      BY <1>2 DEF ClientsInv, EntriesOnDisk, Held, OnDisk, Entries
    <3>2. p \in Paths \ {FT!Root} /\ FT!Parent(p) \in Paths /\ k \in Mounts
      BY Parts, PathSeqs
    <3>3. Rekinded(k, p) \/ (IF b THEN disk'[k][p] = Directory ELSE disk'[k][p] \in Text)
      BY <1>4, <2>1, <2>3, <3>1, <3>2
    <3>4. disk'[k][FT!Parent(p)] = Directory => disk'[k][p] # Nothing
      BY <1>4, <2>3, <3>1, <3>2
    <3> QED BY <3>3, <3>4
  <2>8. Mounting'
    BY <1>1, <1>2 DEF ClientsInv, Mounting, Idle
  <2>9. Making'
    BY <1>1, MakingStays
  <2>10. ClientsTypeOK'
    <3>1. TypeOK'
      BY DEF MountInv, IInv
    <3> QED BY <1>1, <2>3, <3>1 DEF ClientsInv, ClientsTypeOK
  <2> QED BY <2>4, <2>6, <2>7, <2>8, <2>9, <2>10
<1> QED BY <1>5, <1>6


(* Steps that change neither the tables nor the disk. *)
LEMMA HandlesKeep ==
  ASSUME ClientsInv,
         UNCHANGED <<files, allocated, aborted, interfaces, containers, call, disk>>,
         creating' \in {Nobody, creating}
  PROVE  SameKind' /\ FoldersClosed' /\ DiskListed' /\ EntriesOnDisk' /\ Mounting' /\ Making'
<1>1. SameKind' /\ FoldersClosed' /\ DiskListed' /\ EntriesOnDisk'
  BY FilesStayOnDisk
<1>2. Mounting'
  BY MountingStays DEF ClientsInv
<1>3. Making'
  BY MakingStays
<1> QED BY <1>1, <1>2, <1>3

LEMMA RefsType ==
  ASSUME ClientsInv, NEW h \in Handles, NEW id \in 1 .. MaxFiles, NEW mode \in Modes,
         Refs!Open(h, id, mode) \/ Refs!Close(h)
  PROVE  refs' \in [Handles -> Refs!Ref \cup {NoRef}]
BY DEF ClientsInv, ClientsTypeOK, Refs!Open, Refs!Close, Refs!Ref

LEMMA TextOfType ==
  ASSUME ClientsInv, NEW id \in 1 .. MaxFiles
  PROVE  TextOf(id) \in Text \cup {Fails}
<1>0. PICK c, n : c = files[id].cid /\ n = files[id].cfid
  OBVIOUS
<1>1. CASE c \in DOMAIN containers /\ n \in DOMAIN containers[c].entries
  <2>1. /\ c \in Mounts /\ n \in 1 .. MaxEntries
        /\ containers[c].entries[n].path \in Paths
        /\ containers[c].kind \in Kinds
    BY <1>1, Parts DEF Container
  <2>2. disk[c][containers[c].entries[n].path] \in Text \cup {Nothing, Directory}
    BY <2>1 DEF ClientsInv, ClientsTypeOK
  <2>3. FolderText(c, n) \in Text \cup {Fails}
    BY <2>2 DEF FolderText, Entries
  <2>4. Mounted(c, n) \in Text /\ VirtualText(c, n) \in Text \cup {Fails}
    BY <2>1, Texts1 DEF VirtualText
  <2> QED BY <1>0, <2>1, <2>3, <2>4 DEF TextOf, Kinds
<1>2. CASE ~(c \in DOMAIN containers /\ n \in DOMAIN containers[c].entries)
  BY <1>0, <1>2 DEF TextOf, Reachable, Entries
<1> QED BY <1>1, <1>2

LEMMA QuietKeeps ==
  ASSUME ClientsInv, MountInv', QuietCall \/ QuietStep
  PROVE  /\ SameKind' /\ FoldersClosed' /\ DiskListed' /\ EntriesOnDisk' /\ Mounting' /\ Making'
         /\ ClientsTypeOK'
<1>1. UNCHANGED <<refs, disk, objects, sizes, creating>> /\ creating' = Nobody
  BY DEF QuietCall, QuietStep
<1>2. Making'
  BY <1>1, MakingStays
<1>3. ClientsTypeOK'
  BY <1>1, TypeStays DEF ClientsInv, ClientsTypeOK
<1>4. ASSUME ReloadAsserts \/ ReloadFails \/ MountSucceeds
      PROVE  SameKind' /\ FoldersClosed' /\ DiskListed' /\ EntriesOnDisk' /\ Mounting'
  <2>1. /\ UNCHANGED <<files, allocated, interfaces, containers>> /\ call' \in {Idle, Stopped}
        /\ call # Stopped
    BY <1>4 DEF ReloadAsserts, ReloadFails, MountSucceeds, Stopped, Idle
  <2>2. SameKind' /\ FoldersClosed' /\ DiskListed' /\ EntriesOnDisk'
    BY <1>1, <2>1, FilesStayOnDisk
  <2>3. Mounting'
    BY <2>1, MountingEnds DEF ClientsInv
  <2> QED BY <2>2, <2>3
<1>5. ASSUME MountRefused
      PROVE  SameKind' /\ FoldersClosed' /\ DiskListed' /\ EntriesOnDisk' /\ Mounting'
  <2>1. /\ UNCHANGED <<files, allocated, containers, call>> /\ call = Idle
    BY <1>5 DEF MountRefused
  <2>2. SameKind' /\ FoldersClosed' /\ DiskListed' /\ EntriesOnDisk'
    BY <1>1, <2>1, FilesStayOnDisk
  <2>3. Mounting'
    BY <2>1 DEF Mounting, Idle
  <2> QED BY <2>2, <2>3
<1>6. SameKind' /\ FoldersClosed' /\ DiskListed' /\ EntriesOnDisk' /\ Mounting'
  BY <1>1, <1>4, <1>5, MountAddedKeeps, CloseContainerKeeps, DeleteFileKeeps, ForcesInv
     DEF QuietCall, QuietStep
<1> QED BY <1>2, <1>3, <1>6

LEMMA RegisterKeeps ==
  ASSUME ClientsInv, MountInv', RegisterEntry
  PROVE  /\ SameKind' /\ FoldersClosed' /\ DiskListed' /\ EntriesOnDisk' /\ Mounting' /\ Making'
         /\ ClientsTypeOK'
<1>0. PICK c, n : c = call.cid /\ n = call.at
  OBVIOUS
<1>1. /\ UNCHANGED <<refs, disk, objects, creating>> /\ creating' = Nobody
      /\ sizes' = Sized(Mounted(c, n))
      /\ RegisterFolderEntry \/ RegisterArchiveEntry
  BY <1>0 DEF RegisterEntry
<1>2. Making'
  BY <1>1, MakingStays
<1>3. c \in Mounts /\ n \in 1 .. MaxEntries
  BY <1>0, <1>1, FolderRegisters, ArchiveRegisters
<1>4. ClientsTypeOK'
  BY <1>1, <1>3, Texts1, SizedType, TypeStays
<1>5. SameKind' /\ FoldersClosed' /\ DiskListed' /\ EntriesOnDisk' /\ Mounting'
  BY <1>1, FolderEntryInv, ArchiveEntryInv
<1> QED BY <1>2, <1>4, <1>5

LEMMA ForceVirtualKeeps ==
  ASSUME ClientsInv, MountInv', ForceVirtual
  PROVE  /\ SameKind' /\ FoldersClosed' /\ DiskListed' /\ EntriesOnDisk' /\ Mounting' /\ Making'
         /\ ClientsTypeOK'
<1>0. PICK c, n : c = call.cid /\ n = Len(Entries(c))
  OBVIOUS
<1>1. /\ UNCHANGED <<refs, disk, objects, creating>> /\ creating' = Nobody /\ ForceFile
      /\ sizes' = Sized(Empty) \/ sizes' = Sized(Mounted(c, n))
  BY <1>0 DEF ForceVirtual
<1>2. Making'
  BY <1>1, MakingStays
<1>3. c \in Mounts /\ n \in 1 .. MaxEntries
  <2>1. call.op = "force" /\ c \in DOMAIN containers /\ c \in Mounts
    BY <1>0, <1>1, Forces
  <2>2. n >= 1
    BY <1>0, <2>1, Parts DEF IInv, CallSound
  <2>3. n \in Nat /\ n <= MaxEntries
    BY <1>0, <2>1, Parts, LenProperties DEF Entries, TypeOK
  <2> QED BY <2>1, <2>2, <2>3, StarVFSAssumption
<1>4. ClientsTypeOK'
  <2>1. Mounted(c, n) \in Text /\ Empty \in Text
    BY <1>3, Texts1
  <2>2. sizes' \in [1 .. MaxFiles -> Text]
    BY <1>1, <2>1, SizedType
  <2> QED BY <1>1, <2>2, TypeStays
<1>5. SameKind' /\ FoldersClosed' /\ DiskListed' /\ EntriesOnDisk' /\ Mounting'
  BY <1>1, ForcesInv
<1> QED BY <1>2, <1>4, <1>5

LEMMA ReloadFromKeeps ==
  ASSUME ClientsInv, MountInv', NEW content \in Contents \cup {<< >>}, ReloadFrom(content)
  PROVE  /\ SameKind' /\ FoldersClosed' /\ DiskListed' /\ EntriesOnDisk' /\ Mounting' /\ Making'
         /\ ClientsTypeOK'
<1>1. UNCHANGED <<refs, objects, sizes, creating>> /\ creating' = Nobody
  BY DEF ReloadFrom
<1>2. /\ SameKind' /\ FoldersClosed' /\ DiskListed' /\ EntriesOnDisk' /\ Mounting'
      /\ disk' \in [Mounts -> [Paths -> Text \cup {Nothing, Directory}]]
  BY ReloadKeeps
<1>3. Making'
  BY <1>1, MakingStays
<1>4. TypeOK'
  BY DEF MountInv, IInv
<1>5. ClientsTypeOK'
  BY <1>1, <1>2, <1>4 DEF ClientsInv, ClientsTypeOK
<1> QED BY <1>2, <1>3, <1>5

LEMMA AddObjectKeeps ==
  ASSUME ClientsInv, MountInv', NEW c \in DOMAIN containers, NEW p \in Registered,
         NEW keeper \in {"owned", "watched"}, AddObject(c, p, keeper)
  PROVE  /\ SameKind' /\ FoldersClosed' /\ DiskListed' /\ EntriesOnDisk' /\ Mounting' /\ Making'
         /\ ClientsTypeOK'
<1>1. /\ UNCHANGED <<refs, disk, sizes, creating>> /\ creating' = Nobody /\ AddVirtual(c, p)
      /\ objects' = [objects EXCEPT ![c][Len(Entries(c)) + 1] = keeper]
  BY DEF AddObject
<1>2. p \in Paths
  BY ClientsAssumption
<1>3. SameKind' /\ FoldersClosed' /\ DiskListed' /\ EntriesOnDisk' /\ Mounting'
  BY <1>1, <1>2, AddVirtualKeeps
<1>4. Making'
  BY <1>1, MakingStays
<1>5. ClientsTypeOK'
  <2>1. TypeOK'
    BY DEF MountInv, IInv
  <2>2. c \in Mounts
    BY Parts
  <2>3. objects' \in [Mounts -> [1 .. MaxEntries -> {"none", "owned", "watched", "gone"}]]
    BY <1>1, <2>2 DEF ClientsInv, ClientsTypeOK
  <2> QED BY <1>1, <2>1, <2>3 DEF ClientsInv, ClientsTypeOK
<1> QED BY <1>3, <1>4, <1>5

(* What handles and objects do to the state besides the tables. *)
LEMMA HandleStepKeeps ==
  ASSUME ClientsInv, MountInv',
         \/ \E mode \in Modes : OpenCreated(mode)
         \/ \E c \in Mounts, n \in 1 .. MaxEntries : Expire(c, n)
         \/ \E h \in Handles, id \in 2 .. MaxFiles, mode \in Modes : OpenExisting(h, id, mode)
         \/ \E h \in Handles : Read(h) \/ Close(h)
         \/ UNCHANGED clientVars
  PROVE  /\ SameKind' /\ FoldersClosed' /\ DiskListed' /\ EntriesOnDisk' /\ Mounting' /\ Making'
         /\ ClientsTypeOK'
<1>1. /\ UNCHANGED <<files, allocated, aborted, interfaces, containers, call, disk>>
      /\ creating' \in {Nobody, creating}
  BY DEF OpenCreated, Expire, OpenExisting, Read, Close, clientVars, vars
<1>2. SameKind' /\ FoldersClosed' /\ DiskListed' /\ EntriesOnDisk' /\ Mounting' /\ Making'
  BY <1>1, HandlesKeep
<1>3. TypeOK'
  BY DEF MountInv, IInv
<1>4. refs' \in [Handles -> Refs!Ref \cup {NoRef}]
  <2>1. ASSUME NEW mode \in Modes, OpenCreated(mode)
        PROVE  refs' \in [Handles -> Refs!Ref \cup {NoRef}]
    <3>1. creating.handle \in Handles /\ creating.id \in 1 .. MaxFiles
      BY <2>1 DEF OpenCreated, ClientsInv, ClientsTypeOK
    <3> QED BY <2>1, <3>1, RefsType DEF OpenCreated
  <2>2. ASSUME NEW h \in Handles, NEW id \in 2 .. MaxFiles, NEW mode \in Modes,
               OpenExisting(h, id, mode)
        PROVE  refs' \in [Handles -> Refs!Ref \cup {NoRef}]
    <3>1. id \in 1 .. MaxFiles
      BY StarVFSAssumption
    <3> QED BY <2>2, <3>1, RefsType DEF OpenExisting
  <2>3. ASSUME NEW h \in Handles, Close(h)
        PROVE  refs' \in [Handles -> Refs!Ref \cup {NoRef}]
    BY <2>3 DEF Close, Refs!Close, ClientsInv, ClientsTypeOK
  <2>4. ASSUME UNCHANGED refs
        PROVE  refs' \in [Handles -> Refs!Ref \cup {NoRef}]
    BY <2>4 DEF ClientsInv, ClientsTypeOK
  <2> QED BY <2>1, <2>2, <2>3, <2>4 DEF Expire, Read, clientVars
<1>5. sizes' \in [1 .. MaxFiles -> Text]
  <2>1. ASSUME NEW h \in Handles, Read(h)
        PROVE  sizes' \in [1 .. MaxFiles -> Text]
    <3>1. FileOf(h) \in 1 .. MaxFiles
      BY <2>1 DEF Read, FileOf, ClientsInv, ClientsTypeOK, Refs!Ref
    <3>2. TextOf(FileOf(h)) \in Text
      BY <2>1, <3>1, TextOfType DEF Read
    <3> QED BY <2>1, <3>2 DEF Read, ClientsInv, ClientsTypeOK
  <2>2. ASSUME UNCHANGED sizes
        PROVE  sizes' \in [1 .. MaxFiles -> Text]
    BY <2>2 DEF ClientsInv, ClientsTypeOK
  <2> QED BY <2>1, <2>2 DEF OpenCreated, Expire, OpenExisting, Close, clientVars
<1>6. objects' \in [Mounts -> [1 .. MaxEntries -> {"none", "owned", "watched", "gone"}]]
  <2>1. ASSUME NEW c \in Mounts, NEW n \in 1 .. MaxEntries, Expire(c, n)
        PROVE  objects' \in [Mounts -> [1 .. MaxEntries -> {"none", "owned", "watched", "gone"}]]
    BY <2>1 DEF Expire, ClientsInv, ClientsTypeOK
  <2>2. ASSUME UNCHANGED objects
        PROVE  objects' \in [Mounts -> [1 .. MaxEntries -> {"none", "owned", "watched", "gone"}]]
    BY <2>2 DEF ClientsInv, ClientsTypeOK
  <2> QED BY <2>1, <2>2 DEF OpenCreated, OpenExisting, Read, Close, clientVars
<1> QED BY <1>1, <1>2, <1>3, <1>4, <1>5, <1>6 DEF ClientsInv, ClientsTypeOK

LEMMA ClientsStep == ClientsInv /\ [ClientsNext]_clientVars => ClientsInv'
<1> SUFFICES ASSUME ClientsInv, [ClientsNext]_clientVars
             PROVE  ClientsInv'
  OBVIOUS
<1>1. MountInv' /\ Unused'
  BY BasicStep
<1>2. ASSUME NEW h \in Handles, NEW entry \in Created, CreateNew(h, entry.path, entry.dir)
      PROVE  /\ SameKind' /\ FoldersClosed' /\ DiskListed' /\ EntriesOnDisk' /\ Mounting'
             /\ Making' /\ ClientsTypeOK'
  <2>1. entry.path \in Paths \ {FT!Root} /\ entry.dir \in BOOLEAN
    BY ClientsAssumption DEF Entry
  <2> QED BY <1>1, <1>2, <2>1, CreateNewKeeps
<1>3. /\ SameKind' /\ FoldersClosed' /\ DiskListed' /\ EntriesOnDisk' /\ Mounting' /\ Making'
      /\ ClientsTypeOK'
  BY <1>1, <1>2, QuietKeeps, RegisterKeeps, ForceVirtualKeeps, ReloadFromKeeps, AddObjectKeeps,
     WriteKeeps, HandleStepKeeps DEF ClientsNext, CallStep
<1> QED BY <1>1, <1>3 DEF ClientsInv

LEMMA ClientsStart == ClientsInit => ClientsInv
<1> SUFFICES ASSUME ClientsInit
             PROVE  ClientsInv
  OBVIOUS
<1>1. /\ Init /\ containers = << >> /\ call = Idle /\ interfaces = 0 /\ creating = Nobody
  BY DEF ClientsInit, Init
<1>2. MountInv
  BY <1>1, MountInit
<1>3. TypeOK
  BY <1>2 DEF MountInv, IInv
<1>4. allocated = 2 /\ \A id \in FT!FileIDs \ {1} : files[id] = FT!Blank
  BY <1>1 DEF Init, FT!Init
<1>4a. FT!Ids = {1}
  BY <1>4 DEF FT!Ids
<1>4b. files[1].cfid = 0
  <2>1. 1 \in FT!FileIDs
    BY StarVFSAssumption DEF FT!FileIDs
  <2> QED BY <1>1, <2>1 DEF Init, FT!Init, FT!Blank
<1>5. Unused /\ SameKind
  BY <1>4, <1>4a, <1>4b DEF Unused, SameKind
<1>6. FoldersClosed /\ EntriesOnDisk /\ Making
  BY <1>1 DEF FoldersClosed, EntriesOnDisk, Making
<1>7. /\ disk \in [Mounts -> [Paths -> Text \cup {Nothing, Directory}]]
      /\ \A c \in Mounts : \A p \in Paths :
           disk[c][p] = IF p = FT!Root THEN Directory ELSE Nothing
  BY DEF ClientsInit
<1>8. DiskListed
  BY <1>7, StarVFSAssumption, ClientsAssumption DEF DiskListed
<1>9. Mounting
  BY <1>1 DEF Mounting, Idle
<1>10. ClientsTypeOK
  <2>1. refs \in [Handles -> Refs!Ref \cup {NoRef}]
    BY DEF ClientsInit, Refs!Init
  <2>2. objects \in [Mounts -> [1 .. MaxEntries -> {"none", "owned", "watched", "gone"}]]
    BY DEF ClientsInit
  <2>3. sizes \in [1 .. MaxFiles -> Text]
    BY Texts1 DEF ClientsInit
  <2> QED BY <1>1, <1>3, <1>7, <2>1, <2>2, <2>3 DEF ClientsTypeOK
<1> QED BY <1>2, <1>5, <1>6, <1>8, <1>9, <1>10 DEF ClientsInv

(* A folder's table and its disk stay together, and a file is being made    *)
(* only where its entry is, under mounts, overlays, deletions, writes and   *)
(* creations in any order.                                                  *)
THEOREM ClientsInvariant == ClientsSpec => []ClientsInv
<1> QED BY ClientsStart, ClientsStep, PTL DEF ClientsSpec


-----------------------------------------------------------------------------
(* A folder's files are on the disk as what they are in the table, but for  *)
(* the paths where the folder has had both kinds.                           *)
LEMMA Follows == ClientsInv => DiskFollows
<1> SUFFICES ASSUME ClientsInv, NEW id \in FT!Ids, NEW c, NEW n, NEW p,
                    c = files[id].cid, n = files[id].cfid, p = files[id].path,
                    n # 0, c \in DOMAIN containers, containers[c].kind = "folder",
                    ~Spoiled(id)
             PROVE  /\ files[id].directory => disk[c][p] = Directory
                    /\ ~files[id].directory => disk[c][p] \in Text
  BY DEF DiskFollows
<1>1. n \in DOMAIN containers[c].entries /\ containers[c].entries[n].path = p
  BY RoutedFile
<1>2. files[id].directory = containers[c].entries[n].dir
  BY DEF ClientsInv, SameKind, Entries
<1>3. Held(c, n)
  BY DEF Held
<1>4. ~Rekinded(c, p)
  BY DEF Spoiled
<1>5. OnDisk(c, p, containers[c].entries[n].dir)
  BY <1>1, <1>3, <1>4 DEF ClientsInv, EntriesOnDisk, Entries
<1> QED BY <1>2, <1>5 DEF OnDisk

LEMMA MadeIsEmpty == ClientsInv => NewFileIsEmpty
<1> SUFFICES ASSUME ClientsInv, creating # Nobody, NEW id, id = creating.id
             PROVE  /\ files[id].valid /\ files[id].path = creating.path
                    /\ files[id].directory \/ TextOf(id) = Empty \/ Spoiled(id)
  BY DEF NewFileIsEmpty
<1>0. PICK c, n, p : c = files[id].cid /\ n = files[id].cfid /\ p = files[id].path
  OBVIOUS
<1>1. /\ id \in FT!Ids /\ files[id].valid /\ p = creating.path
      /\ c \in DOMAIN containers /\ containers[c].kind = "folder"
      /\ containers[c].open /\ n # 0
      /\ files[id].directory \/ Spoiled(id) \/ disk[c][p] = Empty
  BY <1>0 DEF ClientsInv, Making
<1>2. n \in DOMAIN containers[c].entries /\ containers[c].entries[n].path = p
  <2>1. id \in FT!Ids /\ n # 0
    BY <1>1
  <2>2. /\ c \in DOMAIN containers /\ n \in DOMAIN containers[c].entries
        /\ containers[c].entries[n].path = files[id].path
    BY <1>0, <2>1, RoutedFile
  <2> QED BY <1>0, <2>2
<1>3. disk[c][p] = Empty => TextOf(id) = Empty
  BY <1>0, <1>1, <1>2, Texts1, ClientsAssumption DEF TextOf, Reachable, Entries, FolderText
<1> QED BY <1>0, <1>1, <1>3

(* Mounts, deletions, overlays, writes and creations in any order leave a   *)
(* folder's files on the disk as what the file table says they are.         *)
THEOREM FilesAreOnDisk == ClientsSpec => []DiskFollows
<1> QED BY ClientsInvariant, Follows, PTL

(* CreateNew hands out an empty file of the path that was asked for.        *)
THEOREM NewFilesAreEmpty == ClientsSpec => []NewFileIsEmpty
<1> QED BY ClientsInvariant, MadeIsEmpty, PTL

-----------------------------------------------------------------------------
(* What a container holds under its own id n. *)
EntryText(c, n) ==
  IF ~Reachable(c) \/ n \notin DOMAIN Entries(c) THEN Fails
  ELSE IF containers[c].kind = "folder"  THEN FolderText(c, n)
  ELSE IF containers[c].kind = "archive" THEN Mounted(c, n)
  ELSE VirtualText(c, n)

LEMMA TextIs ==
  ASSUME \A c \in DOMAIN containers : containers[c].kind \in Kinds,
         \A c \in DOMAIN containers' : containers'[c].kind \in Kinds,
         NEW id, NEW c, NEW n
  PROVE  /\ files[id].cid = c /\ files[id].cfid = n => TextOf(id) = EntryText(c, n)
         /\ files'[id].cid = c /\ files'[id].cfid = n => TextOf(id)' = EntryText(c, n)'
<1>1. ASSUME files[id].cid = c, files[id].cfid = n
      PROVE  TextOf(id) = EntryText(c, n)
  <2>1. CASE c \in DOMAIN containers
    BY <1>1, <2>1 DEF TextOf, EntryText, Reachable, Entries, FolderText, VirtualText, Kinds
  <2>2. CASE c \notin DOMAIN containers
    BY <1>1, <2>2 DEF TextOf, EntryText, Reachable
  <2> QED BY <2>1, <2>2
<1>2. ASSUME files'[id].cid = c, files'[id].cfid = n
      PROVE  TextOf(id)' = EntryText(c, n)'
  <2>1. CASE c \in DOMAIN containers'
    BY <1>2, <2>1 DEF TextOf, EntryText, Reachable, Entries, FolderText, VirtualText, Kinds
  <2>2. CASE c \notin DOMAIN containers'
    BY <1>2, <2>2 DEF TextOf, EntryText, Reachable
  <2> QED BY <2>1, <2>2
<1> QED BY <1>1, <1>2

LEMMA KindsOf ==
  ASSUME ClientsInv, ClientsInv'
  PROVE  /\ \A c \in DOMAIN containers : containers[c].kind \in Kinds
         /\ \A c \in DOMAIN containers' : containers'[c].kind \in Kinds
<1>1. containers \in Seq(Container) /\ containers' \in Seq(Container)
  BY DEF ClientsInv, ClientsTypeOK, TypeOK
<1>2. \A c \in DOMAIN containers : containers[c] \in Container
  BY <1>1
<1>3. \A c \in DOMAIN containers' : containers'[c] \in Container
  BY <1>1
<1> QED BY <1>2, <1>3 DEF Container

(* What a step leaves alone of entry n of container c. *)
EntryStays(c, n) ==
  /\ c \in DOMAIN containers' <=> c \in DOMAIN containers
  /\ c \in DOMAIN containers =>
       /\ containers'[c].open = containers[c].open
       /\ containers'[c].kind = containers[c].kind
       /\ n \in DOMAIN containers'[c].entries <=> n \in DOMAIN containers[c].entries
       /\ n \in DOMAIN containers[c].entries =>
            /\ containers'[c].entries[n].path = containers[c].entries[n].path
            /\ disk'[c][containers[c].entries[n].path] = disk[c][containers[c].entries[n].path]
            /\ objects'[c][n] = objects[c][n]

LEMMA EntryTextStays ==
  ASSUME NEW c, NEW n, EntryStays(c, n)
  PROVE  EntryText(c, n)' = EntryText(c, n)
<1>1. CASE c \in DOMAIN containers /\ n \in DOMAIN containers[c].entries
  BY <1>1 DEF EntryStays, EntryText, Reachable, Entries, FolderText, VirtualText, Mounted
<1>2. CASE ~(c \in DOMAIN containers /\ n \in DOMAIN containers[c].entries)
  BY <1>2 DEF EntryStays, EntryText, Reachable, Entries
<1> QED BY <1>1, <1>2

LEMMA TextStays ==
  ASSUME ClientsInv, ClientsInv', NEW id, NEW c, NEW n, files[id].cid = c, files[id].cfid = n,
         files'[id].cid = c, files'[id].cfid = n, EntryStays(c, n)
  PROVE  TextOf(id)' = TextOf(id)
<1>1. TextOf(id) = EntryText(c, n) /\ TextOf(id)' = EntryText(c, n)'
  BY KindsOf, TextIs
<1> QED BY <1>1, EntryTextStays

(* A file is neither made nor changed, and reads as it did. *)
Still(id) ==
  /\ FT!ValidFile(id)' => FT!ValidFile(id)
  /\ TextOf(id)' = TextOf(id)
  /\ sizes'[id] = sizes[id]

(* StaysReadable and SizeIsLength, for one file. *)
ReadableAt(id) ==
  files[id].valid /\ ~files[id].directory /\ TextOf(id) # Fails /\ TextOf(id)' = Fails
  => \/ files'[id].deleted \/ aborted' \/ Spoiled(id)'
     \/ containers[files[id].cid].open /\ ~containers'[files[id].cid].open
     \/ objects[files[id].cid][files[id].cfid] = "watched" /\ objects' # objects

SizeAt(id) ==
  Measured(id) /\ ~Measured(id)'
  => \/ Spoiled(id)'
     \/ \E h \in Handles, text \in Texts : Write(h, text) /\ FileOf(h) = id
     \/ call.op = "force" /\ files'[id].path = call.path

(* What every step keeps to. *)
Kept ==
  /\ \/ \E k \in FT!FileIDs : \A id \in FT!FileIDs \ {k} : TextOf(id)' = TextOf(id)
     \/ \A id \in FT!FileIDs : TextOf(id)' \in {TextOf(id), Fails}
  /\ \A id \in FT!FileIDs : ReadableAt(id) /\ SizeAt(id)

LEMMA StillKept ==
  ASSUME NEW id, Still(id)
  PROVE  ReadableAt(id) /\ SizeAt(id)
<1>1. ReadableAt(id)
  BY DEF Still, ReadableAt
<1>2. Measured(id) => Measured(id)'
  BY DEF Still, Measured
<1> QED BY <1>1, <1>2 DEF SizeAt

LEMMA OneKept ==
  ASSUME NEW k \in FT!FileIDs, \A id \in FT!FileIDs \ {k} : Still(id),
         ReadableAt(k), SizeAt(k)
  PROVE  Kept
BY StillKept DEF Kept, Still

LEMMA AllKept ==
  ASSUME \A id \in FT!FileIDs : Still(id)
  PROVE  Kept
<1>1. 1 \in FT!FileIDs
  BY StarVFSAssumption DEF FT!FileIDs
<1> QED BY <1>1, StillKept DEF Kept, Still

(* The files a step of the file table leaves alone. *)
LEMMA OtherOwners ==
  ASSUME ClientsInv, Unused', NEW k, Changed(k), NEW id \in FT!FileIDs, id # k
  PROVE  /\ files'[id].cid = files[id].cid /\ files'[id].cfid = files[id].cfid
         /\ FT!ValidFile(id)' => FT!ValidFile(id)
         /\ FT!Known(id)' <=> FT!Known(id)
         /\ id \in FT!Ids => Same(id)
<1>1. CASE id \in FT!Ids
  BY <1>1 DEF Changed, Same, FT!ValidFile, FT!Known
<1>2. CASE id \notin FT!Ids
  <2>1. id \notin FT!Ids' /\ FT!FileIDs' = FT!FileIDs
    BY <1>2 DEF Changed, FT!FileIDs
  <2>2. files[id] = FT!Blank /\ files'[id] = FT!Blank
    BY <1>2, <2>1 DEF ClientsInv, Unused, FT!Blank
  <2> QED BY <1>2, <2>1, <2>2 DEF FT!ValidFile, FT!Known
<1> QED BY <1>1, <1>2

LEMMA SizesStay ==
  ASSUME ClientsInv, NEW id \in FT!FileIDs, NEW size,
         sizes' = Sized(size) \/ UNCHANGED sizes,
         files'[id].cid = files[id].cid, files'[id].cfid = files[id].cfid
  PROVE  sizes'[id] = sizes[id]
BY DEF Sized, FT!FileIDs

LEMMA TableStep ==
  ASSUME ClientsInv, ClientsInv', NEW k, Changed(k), UNCHANGED <<containers, disk, objects>>,
         NEW size, sizes' = Sized(size) \/ UNCHANGED sizes
  PROVE  \A id \in FT!FileIDs \ {k} : Still(id)
<1> SUFFICES ASSUME NEW id \in FT!FileIDs, id # k
             PROVE  Still(id)
  OBVIOUS
<1>0. PICK c, n : c = files[id].cid /\ n = files[id].cfid
  OBVIOUS
<1>1. files'[id].cid = c /\ files'[id].cfid = n /\ (FT!ValidFile(id)' => FT!ValidFile(id))
  BY <1>0, OtherOwners DEF ClientsInv
<1>2. EntryStays(c, n)
  BY DEF EntryStays
<1>3. TextOf(id)' = TextOf(id)
  BY <1>0, <1>1, <1>2, TextStays
<1>4. sizes'[id] = sizes[id]
  BY <1>0, <1>1, SizesStay
<1> QED BY <1>1, <1>3, <1>4 DEF Still


(* A mount registers an entry: what its file reads as is what the size says. *)
LEMMA FolderEntryKept ==
  ASSUME ClientsInv, ClientsInv', RegisterEntry, RegisterFolderEntry
  PROVE  Kept
<1>0. PICK c, n : c = call.cid /\ n = call.at
  OBVIOUS
<1>0a. PICK p, d : p = containers[c].entries[n].path /\ d = containers[c].entries[n].dir
  OBVIOUS
<1>1. /\ UNCHANGED <<containers, disk, objects>> /\ sizes' = Sized(Mounted(c, n))
  BY <1>0 DEF RegisterEntry, RegisterFolderEntry
<1>2. /\ call.op = "folder" /\ c \in DOMAIN containers /\ c \in Mounts /\ containers[c].kind = "folder"
      /\ n \in DOMAIN containers[c].entries /\ n \in 1 .. MaxEntries
      /\ \/ \E k \in FT!FileIDs :
              Only(p, k) /\ Entered(k, d, c, n) /\ (FT!ValidFile(k) => ~d)
         \/ UNCHANGED <<files, allocated, aborted>>
         \/ \E k \in FT!Ids :
              /\ Changed(k) /\ files'[k].cid = c /\ files'[k].cfid = 0 /\ aborted'
  BY <1>0, <1>0a, FolderRegisters
<1>3. containers[c].open /\ (~d => disk[c][p] = Mounted(c, n))
  BY <1>0, <1>0a, <1>2 DEF ClientsInv, Mounting, Entries
<1>4. Mounted(c, n) \in Text /\ Mounted(c, n) \notin {Fails, Nothing, Directory}
  BY <1>2, Texts1, ClientsAssumption
<1>5. ASSUME NEW k \in FT!FileIDs, Only(p, k), Entered(k, d, c, n), FT!ValidFile(k) => ~d
      PROVE  Kept
  <2>1. Changed(k) /\ k \in FT!Ids' /\ FT!Ids' = FT!Ids \cup {k}
    BY <1>5, OnlyChanged DEF Only
  <2>2. \A id \in FT!FileIDs \ {k} : Still(id)
    BY <1>1, <2>1, TableStep
  <2>3. /\ files'[k].cid = c /\ files'[k].cfid = n /\ files'[k].valid /\ files'[k].directory = d
    BY <1>5 DEF Entered
  <2>4. ~d => TextOf(k)' = Mounted(c, n)
    <3> SUFFICES ASSUME ~d
                 PROVE  TextOf(k)' = Mounted(c, n)
      OBVIOUS
    <3>1. TextOf(k)' = EntryText(c, n)'
      BY <2>3, KindsOf, TextIs
    <3>2. EntryText(c, n)' = disk[c][p]
      BY <1>0a, <1>1, <1>2, <1>3, <1>4 DEF EntryText, Reachable, Entries, FolderText
    <3> QED BY <1>3, <3>1, <3>2
  <2>5. ReadableAt(k)
    <3>1. files[k].valid /\ ~files[k].directory => FT!ValidFile(k)
      BY FileParts DEF FT!ValidFile
    <3> QED BY <1>4, <1>5, <2>4, <3>1 DEF ReadableAt
  <2>6. ~d => sizes'[k] = Mounted(c, n)
    <3>1. <<files[k].cid, files[k].cfid>> # <<c, n>>
      <4>1. CASE k \in FT!Ids
        <5>1. files[k].cid = c => files[k].cfid \in Nat /\ files[k].cfid < n
          BY <1>0, <1>2, <4>1, Behind
        <5> QED BY <1>2, <5>1
      <4>2. CASE k \notin FT!Ids
        <5>1. files[k].cid = 0
          BY <4>2, FileParts
        <5> QED BY <1>2, <5>1, StarVFSAssumption DEF Mounts
      <4> QED BY <4>1, <4>2
    <3> QED BY <1>1, <2>3, <3>1 DEF Sized, FT!FileIDs
  <2>7. SizeAt(k)
    <3>1. FT!ValidFile(k)' => ~d
      BY <2>3 DEF FT!ValidFile
    <3>2. Measured(k)'
      BY <2>4, <2>6, <3>1 DEF Measured
    <3> QED BY <3>2 DEF SizeAt
  <2> QED BY <2>2, <2>5, <2>7, OneKept
<1>6. ASSUME UNCHANGED <<files, allocated, aborted>>
      PROVE  Kept
  <2>1. Changed(0)
    BY <1>6, NoneChanged
  <2>2. \A id \in FT!FileIDs : Still(id)
    BY <1>1, <2>1, TableStep DEF FT!FileIDs
  <2> QED BY <2>2, AllKept
<1>7. ASSUME NEW k \in FT!Ids, Changed(k), files'[k].cid = c, files'[k].cfid = 0, aborted'
      PROVE  Kept
  <2>1. \A id \in FT!FileIDs \ {k} : Still(id)
    BY <1>1, <1>7, TableStep
  <2>2. k \in FT!FileIDs
    BY Parts, Ids
  <2>3. TextOf(k)' = Fails
    <3>1. TextOf(k)' = EntryText(c, 0)'
      BY <1>7, KindsOf, TextIs
    <3>2. 0 \notin DOMAIN containers[c].entries
      BY <1>2, Parts, StarVFSAssumption
    <3> QED BY <1>1, <3>1, <3>2 DEF EntryText, Entries
  <2>4. ReadableAt(k)
    BY <1>7 DEF ReadableAt
  <2>5. SizeAt(k)
    BY <2>3 DEF SizeAt, Measured
  <2> QED BY <2>1, <2>2, <2>4, <2>5, OneKept
<1> QED BY <1>2, <1>5, <1>6, <1>7

LEMMA ArchiveEntryKept ==
  ASSUME ClientsInv, ClientsInv', RegisterEntry, RegisterArchiveEntry
  PROVE  Kept
<1>0. PICK c, n : c = call.cid /\ n = call.at
  OBVIOUS
<1>1. /\ UNCHANGED <<containers, disk, objects>> /\ sizes' = Sized(Mounted(c, n))
  BY <1>0 DEF RegisterEntry, RegisterArchiveEntry
<1>2. /\ call.op = "archive" /\ c \in DOMAIN containers /\ c \in Mounts /\ containers[c].kind = "archive"
      /\ n \in DOMAIN containers[c].entries /\ n \in 1 .. MaxEntries
      /\ \/ \E k \in FT!FileIDs :
              /\ Changed(k)
              /\ \/ k \in FT!Ids /\ Same(k)
                 \/ files'[k].cid = c /\ files'[k].cfid = n
         \/ UNCHANGED <<files, allocated, aborted>>
  BY <1>0, ArchiveRegisters
<1>3. containers[c].open
  BY <1>0, <1>2 DEF ClientsInv, Mounting
<1>4. Mounted(c, n) \in Text /\ Mounted(c, n) \notin {Fails, Nothing, Directory}
  BY <1>2, Texts1, ClientsAssumption
<1>5. ASSUME NEW k \in FT!FileIDs, Changed(k), files'[k].cid = c, files'[k].cfid = n
      PROVE  Kept
  <2>1. \A id \in FT!FileIDs \ {k} : Still(id)
    BY <1>1, <1>5, TableStep
  <2>2. TextOf(k)' = Mounted(c, n)
    <3>1. TextOf(k)' = EntryText(c, n)'
      BY <1>5, KindsOf, TextIs
    <3> QED BY <1>1, <1>2, <1>3, <3>1 DEF EntryText, Reachable, Entries, Mounted
  <2>3. ReadableAt(k)
    BY <1>4, <2>2 DEF ReadableAt
  <2>4. ~files'[k].directory => sizes'[k] = Mounted(c, n)
    <3>1. <<files[k].cid, files[k].cfid>> # <<c, n>>
      <4>1. CASE k \in FT!Ids
        <5>1. files[k].cid = c => files[k].cfid \in Nat /\ files[k].cfid < n
          BY <1>0, <1>2, <4>1, Behind
        <5> QED BY <1>2, <5>1
      <4>2. CASE k \notin FT!Ids
        <5>1. files[k].cid = 0
          BY <4>2, FileParts
        <5> QED BY <1>2, <5>1, StarVFSAssumption DEF Mounts
      <4> QED BY <4>1, <4>2
    <3> QED BY <1>1, <1>5, <3>1 DEF Sized, FT!FileIDs
  <2>5. SizeAt(k)
    <3>1. Measured(k)'
      BY <2>2, <2>4 DEF Measured, FT!ValidFile
    <3> QED BY <3>1 DEF SizeAt
  <2> QED BY <2>1, <2>3, <2>5, OneKept
<1>6. ASSUME NEW k, Changed(k), k \in FT!Ids => Same(k)
      PROVE  Kept \/ k \notin FT!Ids
  <2> SUFFICES ASSUME k \in FT!Ids
               PROVE  Kept
    OBVIOUS
  <2>1. Changed(0)
    BY <1>6 DEF Changed
  <2>2. \A id \in FT!FileIDs : Still(id)
    BY <1>1, <2>1, TableStep DEF FT!FileIDs
  <2> QED BY <2>2, AllKept
<1>7. ASSUME UNCHANGED <<files, allocated, aborted>>
      PROVE  Kept
  <2>1. Changed(0)
    BY <1>7, NoneChanged
  <2>2. \A id \in FT!FileIDs : Still(id)
    BY <1>1, <2>1, TableStep DEF FT!FileIDs
  <2> QED BY <2>2, AllKept
<1> QED BY <1>2, <1>5, <1>6, <1>7

(* Forced files and directories are new, and their size may be unknown. *)
LEMMA ForcesKept ==
  ASSUME ClientsInv, ClientsInv', ForceDirectory \/ ForceFile, UNCHANGED <<disk, objects>>,
         NEW size, sizes' = Sized(size) \/ UNCHANGED sizes
  PROVE  Kept
<1>0. PICK c : c = call.cid
  OBVIOUS
<1>1. /\ call.op = "force" /\ UNCHANGED containers
      /\ \/ \E k \in FT!FileIDs \ FT!Ids :
              Changed(k) /\ (files'[k].directory \/ files'[k].path = call.path)
         \/ UNCHANGED <<files, allocated, aborted>>
  BY <1>0, Forces
<1>2. ASSUME NEW k \in FT!FileIDs \ FT!Ids, Changed(k),
             files'[k].directory \/ files'[k].path = call.path
      PROVE  Kept
  <2>1. \A id \in FT!FileIDs \ {k} : Still(id)
    BY <1>1, <1>2, TableStep
  <2>2. ReadableAt(k)
    BY FileParts DEF ReadableAt
  <2>3. SizeAt(k)
    BY <1>1, <1>2 DEF SizeAt, Measured, FT!ValidFile
  <2> QED BY <2>1, <2>2, <2>3, OneKept
<1>3. ASSUME UNCHANGED <<files, allocated, aborted>>
      PROVE  Kept
  <2>1. Changed(0)
    BY <1>3, NoneChanged
  <2>2. \A id \in FT!FileIDs : Still(id)
    BY <1>1, <2>1, TableStep DEF FT!FileIDs
  <2> QED BY <2>2, AllKept
<1> QED BY <1>1, <1>2, <1>3

LEMMA DeleteFileKept ==
  ASSUME ClientsInv, ClientsInv', NEW k \in FT!FileIDs, DeleteFile(k),
         UNCHANGED <<disk, objects, sizes>>
  PROVE  Kept
<1>1. /\ Only(files[k].path, k) /\ ~files'[k].valid /\ files'[k].deleted
  BY Parts, DeleteExact DEF DeleteFile
<1>2. Changed(k) /\ UNCHANGED containers
  BY <1>1, OnlyChanged DEF DeleteFile
<1>3. \A id \in FT!FileIDs \ {k} : Still(id)
  BY <1>2, TableStep
<1>4. ReadableAt(k) /\ SizeAt(k)
  BY <1>1 DEF ReadableAt, SizeAt, Measured, FT!ValidFile
<1> QED BY <1>3, <1>4, OneKept

(* Steps that keep the file table, sizes and what the entries hold. *)
LEMMA EntriesStay ==
  ASSUME ClientsInv, ClientsInv', UNCHANGED <<files, allocated>>,
         NEW id \in FT!FileIDs, NEW c, NEW n, c = files[id].cid, n = files[id].cfid,
         EntryStays(c, n), sizes'[id] = sizes[id]
  PROVE  Still(id)
<1>1. TextOf(id)' = TextOf(id)
  BY TextStays
<1> QED BY <1>1 DEF Still, FT!ValidFile, FT!Ids

LEMMA MountAddedKept ==
  ASSUME ClientsInv, ClientsInv', NEW kind \in Kinds, MountAdded(kind),
         UNCHANGED <<disk, objects, sizes>>
  PROVE  Kept
<1>1. /\ containers \in Seq(Container) /\ Len(containers) \in Nat
      /\ DOMAIN containers = 1 .. Len(containers)
  BY Parts
<1>2. /\ DOMAIN containers' = 1 .. Len(containers) + 1
      /\ \A c \in DOMAIN containers : containers'[c] = containers[c]
  BY <1>1 DEF MountAdded
<1>3. ASSUME NEW id \in FT!FileIDs
      PROVE  Still(id)
  <2>0. PICK c, n : c = files[id].cid /\ n = files[id].cfid
    OBVIOUS
  <2>1. c \in Nat /\ c <= Len(containers)
    <3>1. CASE id \in FT!Ids
      <4>1. c <= Len(containers)
        BY <2>0, <3>1, Parts DEF IInv, Numbered
      <4> QED BY <2>0, <4>1, FileParts, StarVFSAssumption
    <3>2. CASE id \notin FT!Ids
      BY <1>1, <2>0, <3>2, FileParts
    <3> QED BY <3>1, <3>2
  <2>2. c \in DOMAIN containers' <=> c \in DOMAIN containers
    BY <1>1, <1>2, <2>1
  <2>3. EntryStays(c, n)
    BY <1>2, <2>2 DEF EntryStays
  <2> QED BY <2>0, <2>3, EntriesStay DEF MountAdded
<1> QED BY <1>3, AllKept


LEMMA CloseContainerKept ==
  ASSUME ClientsInv, ClientsInv', NEW c \in DOMAIN containers, CloseContainer(c),
         UNCHANGED <<disk, objects, sizes>>
  PROVE  Kept
<1>1. /\ containers \in Seq(Container) /\ containers[c] \in Container
  BY Parts
<1>2. /\ DOMAIN containers' = DOMAIN containers
      /\ \A k \in DOMAIN containers : k # c => containers'[k] = containers[k]
      /\ ~containers'[c].open
  <2> DEFINE d == [containers[c] EXCEPT !.open = FALSE]
  <2>1. d \in Container /\ ~d.open
    BY <1>1 DEF Container
  <2>2. containers' = [containers EXCEPT ![c] = d]
    BY DEF CloseContainer
  <2> HIDE DEF d
  <2> QED BY <1>1, <2>1, <2>2, ContainerChanges
<1>3. ASSUME NEW id \in FT!FileIDs
      PROVE  ReadableAt(id) /\ SizeAt(id) /\ TextOf(id)' \in {TextOf(id), Fails}
  <2>0. PICK k, n : k = files[id].cid /\ n = files[id].cfid
    OBVIOUS
  <2>1. CASE k = c
    <3>0. UNCHANGED <<files, allocated>>
      BY DEF CloseContainer
    <3>1. TextOf(id)' = EntryText(c, n)' /\ TextOf(id) = EntryText(c, n)
      BY <2>0, <2>1, <3>0, KindsOf, TextIs
    <3>2. TextOf(id)' = Fails
      BY <1>2, <3>1 DEF EntryText, Reachable
    <3>3. TextOf(id) # Fails => containers[c].open
      BY <3>1 DEF EntryText, Reachable
    <3>4. ReadableAt(id)
      BY <1>2, <2>0, <2>1, <3>3 DEF ReadableAt
    <3> QED BY <3>2, <3>4 DEF SizeAt, Measured
  <2>2. CASE k # c
    <3>1. EntryStays(k, n)
      BY <1>2, <2>2 DEF EntryStays
    <3>2. Still(id)
      BY <2>0, <3>1, EntriesStay DEF CloseContainer
    <3> QED BY <3>2, StillKept DEF Still
  <2> QED BY <2>1, <2>2
<1> QED BY <1>3 DEF Kept

LEMMA ReloadFromKept ==
  ASSUME ClientsInv, ClientsInv', NEW content \in Contents \cup {<< >>}, ReloadFrom(content)
  PROVE  Kept
<1>0. PICK c : c = call.cid
  OBVIOUS
<1>1. /\ UNCHANGED <<files, allocated, objects, sizes>>
      /\ \A id \in FT!Ids : files[id].cid # c
      /\ c \in Nat /\ c >= 1 /\ c <= Len(containers)
  BY <1>0, Parts, StarVFSAssumption DEF ReloadFrom, Reload, IInv, CallSound, Call
<1>2. c \in DOMAIN containers
  BY <1>1, Parts
<1>3. PICK es : containers' = [containers EXCEPT ![c].entries = es]
  BY <1>0 DEF ReloadFrom, Reload
<1>4. /\ DOMAIN containers' = DOMAIN containers
      /\ \A k \in DOMAIN containers : k # c => containers'[k] = containers[k]
  BY <1>3
<1>5. \A k \in Mounts : k # c => disk'[k] = disk[k]
  BY <1>0 DEF ReloadFrom, ClientsInv, ClientsTypeOK
<1>6. ASSUME NEW id \in FT!FileIDs
      PROVE  Still(id)
  <2>0. PICK k, n : k = files[id].cid /\ n = files[id].cfid
    OBVIOUS
  <2>1. k # c
    <3>1. CASE id \in FT!Ids
      BY <1>1, <2>0, <3>1
    <3>2. CASE id \notin FT!Ids
      BY <1>1, <2>0, <3>2, FileParts
    <3> QED BY <3>1, <3>2
  <2>2. k \in DOMAIN containers => k \in Mounts
    BY Parts
  <2>3. EntryStays(k, n)
    BY <1>1, <1>4, <1>5, <2>1, <2>2 DEF EntryStays
  <2> QED BY <1>1, <2>0, <2>3, EntriesStay
<1> QED BY <1>6, AllKept

LEMMA AddObjectKept ==
  ASSUME ClientsInv, ClientsInv', NEW c \in DOMAIN containers, NEW p \in Registered,
         NEW keeper \in {"owned", "watched"}, AddObject(c, p, keeper)
  PROVE  Kept
<1>0. PICK new : new = Len(containers[c].entries) + 1
  OBVIOUS
<1>0a. PICK e : e = [path |-> p, dir |-> FALSE]
  OBVIOUS
<1>1. /\ UNCHANGED <<files, allocated, disk, sizes>>
      /\ objects' = [objects EXCEPT ![c][new] = keeper]
      /\ containers' = [containers EXCEPT ![c].entries = Append(@, e)]
  BY <1>0, <1>0a DEF AddObject, AddVirtual, Entries
<1>2. e \in Entry
  BY <1>0a, ClientsAssumption DEF Entry
<1>3. Gains(c, e, new)
  BY <1>0, <1>1, <1>2, Appended
<1>4. ASSUME NEW id \in FT!FileIDs
      PROVE  Still(id)
  <2>0. PICK k, n : k = files[id].cid /\ n = files[id].cfid
    OBVIOUS
  <2>1. k \in DOMAIN containers => k \in Mounts
    BY Parts
  <2>2. ~(k = c /\ n = new)
    <3> SUFFICES ASSUME k = c, n = new
                 PROVE  FALSE
      OBVIOUS
    <3>1. n # 0 /\ n \notin DOMAIN containers[c].entries
      BY <1>3 DEF Gains
    <3>2. id \in FT!Ids
      BY <2>0, <3>1, FileParts
    <3> QED BY <2>0, <3>1, <3>2, RoutedFile
  <2>3. k \in Mounts /\ n \in 1 .. MaxEntries /\ (k # c \/ n # new) => objects'[k][n] = objects[k][n]
    BY <1>1 DEF ClientsInv, ClientsTypeOK
  <2>4. EntryStays(k, n)
    <3>1. k \in DOMAIN containers /\ n \in DOMAIN containers[k].entries => n \in 1 .. MaxEntries
      BY Parts
    <3>2. DOMAIN containers' = DOMAIN containers
      BY <1>3 DEF Gains
    <3>10. \A m \in DOMAIN containers : /\ containers'[m].kind = containers[m].kind
                                        /\ containers'[m].open = containers[m].open
      BY <1>3 DEF Gains
    <3>11. \A m \in DOMAIN containers : m # c => containers'[m].entries = containers[m].entries
      BY <1>3 DEF Gains
    <3>12. /\ DOMAIN containers'[c].entries = DOMAIN containers[c].entries \cup {new}
           /\ \A i \in DOMAIN containers[c].entries :
                containers'[c].entries[i] = containers[c].entries[i]
      BY <1>3 DEF Gains
    <3>3. ASSUME k \in DOMAIN containers
          PROVE  /\ n \in DOMAIN containers'[k].entries <=> n \in DOMAIN containers[k].entries
                 /\ n \in DOMAIN containers[k].entries => containers'[k].entries[n] = containers[k].entries[n]
      <4>1. CASE k = c
        <5>1. n # new
          BY <2>2, <4>1
        <5> QED BY <3>12, <4>1, <5>1
      <4>2. CASE k # c
        <5>1. containers'[k].entries = containers[k].entries
          BY <3>3, <3>11, <4>2
        <5> QED BY <5>1
      <4> QED BY <4>1, <4>2
    <3>4. k \in DOMAIN containers /\ n \in DOMAIN containers[k].entries => objects'[k][n] = objects[k][n]
      BY <2>1, <2>2, <2>3, <3>1
    <3>5. UNCHANGED disk
      BY <1>1
    <3>6. k \in DOMAIN containers => /\ containers'[k].kind = containers[k].kind
                                   /\ containers'[k].open = containers[k].open
      BY <3>10
    <3>8. CASE k \in DOMAIN containers
      BY <3>3, <3>4, <3>5, <3>6, <3>2, <3>8 DEF EntryStays
    <3>9. CASE k \notin DOMAIN containers
      BY <3>2, <3>9 DEF EntryStays
    <3> QED BY <3>8, <3>9
  <2> QED BY <1>1, <2>0, <2>4, EntriesStay
<1> QED BY <1>4, AllKept

(* No two files are the same entry of a container. *)
LEMMA OneOwner ==
  ASSUME ClientsInv, NEW i \in FT!FileIDs, NEW j \in FT!FileIDs,
         files[i].cid = files[j].cid, files[i].cfid = files[j].cfid, files[i].cfid # 0
  PROVE  i = j
<1>1. i \in FT!Ids /\ j \in FT!Ids
  BY FileParts
<1>2. files[i].path = files[j].path
  BY <1>1, RoutedFile
<1> QED BY <1>1, <1>2, Parts DEF PathsUnique, FT!OnePathOneFile

LEMMA ExpireKept ==
  ASSUME ClientsInv, ClientsInv', NEW c \in Mounts, NEW n \in 1 .. MaxEntries, Expire(c, n)
  PROVE  Kept
<1>1. /\ UNCHANGED <<files, allocated, containers, disk, sizes>>
      /\ objects[c][n] = "watched" /\ objects' = [objects EXCEPT ![c][n] = "gone"]
  BY DEF Expire, vars
<1>2. /\ objects'[c][n] = "gone" /\ objects' # objects
      /\ \A k \in Mounts, m \in 1 .. MaxEntries : k # c \/ m # n => objects'[k][m] = objects[k][m]
  <2>1. objects \in [Mounts -> [1 .. MaxEntries -> {"none", "owned", "watched", "gone"}]]
    BY DEF ClientsInv, ClientsTypeOK
  <2>2. /\ objects'[c] = [objects[c] EXCEPT ![n] = "gone"]
        /\ \A k \in Mounts : k # c => objects'[k] = objects[k]
    BY <1>1, <2>1
  <2>3. /\ objects'[c][n] = "gone"
        /\ \A m \in 1 .. MaxEntries : m # n => objects'[c][m] = objects[c][m]
    BY <2>1, <2>2
  <2> QED BY <1>1, <2>2, <2>3
<1>3. ASSUME NEW id \in FT!FileIDs, ~(files[id].cid = c /\ files[id].cfid = n)
      PROVE  Still(id)
  <2>0. PICK k, m : k = files[id].cid /\ m = files[id].cfid
    OBVIOUS
  <2>1. k \in DOMAIN containers => k \in Mounts
    BY Parts
  <2>2. EntryStays(k, m)
    <3>1. k \in DOMAIN containers /\ m \in DOMAIN containers[k].entries => m \in 1 .. MaxEntries
      BY Parts
    <3> QED BY <1>1, <1>2, <1>3, <2>0, <2>1, <3>1 DEF EntryStays
  <2> QED BY <1>1, <2>0, <2>2, EntriesStay
<1>4. ASSUME NEW id \in FT!FileIDs, files[id].cid = c, files[id].cfid = n
      PROVE  ReadableAt(id) /\ SizeAt(id)
  <2>1. ReadableAt(id)
    BY <1>1, <1>2, <1>4 DEF ReadableAt
  <2>2. TextOf(id) = EntryText(c, n) /\ TextOf(id)' = EntryText(c, n)'
    BY <1>1, <1>4, KindsOf, TextIs
  <2>3. TextOf(id)' = Fails \/ TextOf(id)' = TextOf(id)
    <3>1. CASE containers[c].kind = "virtual"
      BY <1>1, <1>2, <2>2, <3>1 DEF EntryText, Reachable, Entries, VirtualText
    <3>2. CASE containers[c].kind # "virtual"
      <4>1. c \in DOMAIN containers => containers[c].kind \in Kinds
        BY KindsOf
      <4>2. CASE containers[c].kind \in {"folder", "archive"}
        <5>1. UNCHANGED Entries(c) /\ UNCHANGED Reachable(c)
          BY <1>1 DEF Entries, Reachable
        <5>2. UNCHANGED FolderText(c, n) /\ UNCHANGED Mounted(c, n)
          BY <1>1 DEF FolderText, Entries, Mounted
        <5> QED BY <1>1, <2>2, <4>2, <5>1, <5>2 DEF EntryText
      <4>3. CASE c \notin DOMAIN containers
        BY <1>1, <2>2, <4>3 DEF EntryText, Reachable
      <4> QED BY <3>2, <4>1, <4>2, <4>3 DEF Kinds
    <3> QED BY <3>1, <3>2
  <2>4. sizes'[id] = sizes[id] /\ (FT!ValidFile(id)' <=> FT!ValidFile(id))
    BY <1>1 DEF FT!ValidFile, FT!Ids
  <2> QED BY <2>1, <2>3, <2>4 DEF SizeAt, Measured
<1>5. CASE \E id \in FT!FileIDs : files[id].cid = c /\ files[id].cfid = n
  <2>1. PICK k \in FT!FileIDs : files[k].cid = c /\ files[k].cfid = n
    BY <1>5
  <2>2. n # 0
    BY StarVFSAssumption
  <2>3. \A id \in FT!FileIDs \ {k} : Still(id)
    BY <1>3, <2>1, <2>2, OneOwner
  <2> QED BY <1>4, <2>1, <2>3, OneKept
<1>6. CASE ~\E id \in FT!FileIDs : files[id].cid = c /\ files[id].cfid = n
  BY <1>3, <1>6, AllKept
<1> QED BY <1>5, <1>6

LEMMA ReadKept ==
  ASSUME ClientsInv, ClientsInv', NEW h \in Handles, Read(h)
  PROVE  Kept
<1>0. PICK k : k = FileOf(h)
  OBVIOUS
<1>1. /\ UNCHANGED <<files, allocated, containers, disk, objects>>
      /\ sizes' = [sizes EXCEPT ![k] = TextOf(k)]
      /\ refs[h] # NoRef
  BY <1>0 DEF Read, vars
<1>2. k \in FT!FileIDs
  BY <1>0, <1>1 DEF FileOf, ClientsInv, ClientsTypeOK, Refs!Ref, FT!FileIDs
<1>3. ASSUME NEW id \in FT!FileIDs
      PROVE  TextOf(id)' = TextOf(id)
  <2>0. PICK c, n : c = files[id].cid /\ n = files[id].cfid
    OBVIOUS
  <2>1. EntryStays(c, n)
    BY <1>1 DEF EntryStays
  <2> QED BY <1>1, <2>0, <2>1, TextStays
<1>4. sizes'[k] = TextOf(k) /\ \A id \in FT!FileIDs \ {k} : sizes'[id] = sizes[id]
  BY <1>1, <1>2 DEF ClientsInv, ClientsTypeOK, FT!FileIDs
<1>5. \A id \in FT!FileIDs \ {k} : Still(id)
  BY <1>1, <1>3, <1>4 DEF Still, FT!ValidFile, FT!Ids
<1>6. ReadableAt(k) /\ SizeAt(k)
  <2>1. TextOf(k)' = TextOf(k)
    BY <1>2, <1>3
  <2> QED BY <1>4, <2>1 DEF ReadableAt, SizeAt, Measured
<1> QED BY <1>2, <1>5, <1>6, OneKept

LEMMA HandleStepKept ==
  ASSUME ClientsInv, ClientsInv', UNCHANGED <<files, allocated, containers, disk, objects, sizes>>
  PROVE  Kept
<1>1. Changed(0)
  BY NoneChanged
<1>2. \A id \in FT!FileIDs : Still(id)
  BY <1>1, TableStep DEF FT!FileIDs
<1> QED BY <1>2, AllKept


(* What is written to the file of one path does not change another's. *)
LEMMA OtherFilesStay ==
  ASSUME ClientsInv, ClientsInv', NEW k, Changed(k), NEW id \in FT!FileIDs, id # k,
         NEW c, NEW n, c = files[id].cid, n = files[id].cfid,
         n # 0 => EntryStays(c, n),
         sizes'[id] = sizes[id]
  PROVE  Still(id)
<1>1. /\ files'[id].cid = c /\ files'[id].cfid = n
      /\ FT!ValidFile(id)' => FT!ValidFile(id)
  BY OtherOwners DEF ClientsInv
<1>2. TextOf(id)' = TextOf(id)
  <2>1. CASE n # 0
    BY <1>1, <2>1, TextStays
  <2>2. CASE n = 0
    <3>1. TextOf(id) = EntryText(c, 0) /\ TextOf(id)' = EntryText(c, 0)'
      BY <1>1, <2>2, KindsOf, TextIs
    <3>2. ~(Reachable(c) /\ 0 \in DOMAIN Entries(c))
      BY Parts, StarVFSAssumption DEF Reachable, Entries
    <3>3. ~(c \in DOMAIN containers' /\ 0 \in DOMAIN containers'[c].entries)
      <4>1. /\ DOMAIN containers' = 1 .. Len(containers')
            /\ \A j \in DOMAIN containers' : containers'[j] \in Container
        BY DEF ClientsInv, ClientsTypeOK, TypeOK
      <4>2. c \in DOMAIN containers' => containers'[c].entries \in Seq(Entry)
        BY <4>1 DEF Container
      <4> QED BY <4>2
    <3>4. EntryText(c, 0) = Fails /\ EntryText(c, 0)' = Fails
      BY <3>2, <3>3 DEF EntryText, Reachable, Entries
    <3> QED BY <3>1, <3>4
  <2> QED BY <2>1, <2>2
<1> QED BY <1>1, <1>2 DEF Still

LEMMA CreateNewKept ==
  ASSUME ClientsInv, ClientsInv', NEW h \in Handles, NEW p \in Paths \ {FT!Root},
         NEW dir \in BOOLEAN, CreateNew(h, p, dir)
  PROVE  Kept
<1>0. PICK c, new : c = files[FT!Lookup(FT!Parent(p))].cid /\ new = NewEntryID(c)
  OBVIOUS
<1>1. PICK e : e = [path |-> p, dir |-> dir]
  OBVIOUS
<1>1a. PICK made : made = DiskCreated(c, p, dir)
  OBVIOUS
<1>2. /\ c \in DOMAIN containers /\ c \in Mounts
      /\ containers[c].open /\ containers[c].kind = "folder"
      /\ new = Len(containers[c].entries) + 1 /\ new \in 1 .. MaxEntries
      /\ containers' = [containers EXCEPT ![c].entries = Append(@, e)]
      /\ \E j \in DOMAIN containers[c].entries :
           containers[c].entries[j].path = FT!Parent(p) /\ containers[c].entries[j].dir
      /\ call = Idle /\ UNCHANGED objects /\ sizes' = Sized(Empty)
      /\ \/ /\ \E k \in FT!FileIDs :
                 Only(p, k) /\ Entered(k, dir, c, new) /\ (FT!ValidFile(k) => ~dir)
            /\ disk' = [disk EXCEPT ![c] = made]
         \/ /\ \E k \in FT!Ids : Only(p, k) /\ files'[k].cid = c /\ files'[k].cfid = 0
            /\ aborted' /\ UNCHANGED disk
  <2>1. NewEntry(h, p, dir, c, new)
    BY <1>0, CreateNewEffect
  <2> QED BY <1>1, <1>1a, <2>1 DEF NewEntry
<1>3. e \in Entry /\ e.path = p /\ e.dir = dir
  BY <1>1 DEF Entry
<1>4. Gains(c, e, new)
  <2>1. /\ c \in DOMAIN containers /\ new = Len(containers[c].entries) + 1 /\ e \in Entry
        /\ containers' = [containers EXCEPT ![c].entries = Append(@, e)]
    BY <1>2, <1>3
  <2> QED BY <2>1, Appended
<1>5. /\ disk \in [Mounts -> [Paths -> Text \cup {Nothing, Directory}]]
      /\ disk[c][FT!Parent(p)] \in Text \cup {Nothing, Directory}
      /\ p \in Paths
  BY <1>2, PathSeqs DEF ClientsInv, ClientsTypeOK
<1>6. \A q \in Paths : q # p => made[q] = disk[c][q]
  BY <1>1a, <1>2, <1>5, DiskMade
<1>7. \/ disk' = disk
      \/ disk'[c] = made /\ \A k \in Mounts : k # c => disk'[k] = disk[k]
  BY <1>2, <1>5
<1>8. RekindedIn(containers'[c].entries, p) \/ made[p] = IF dir THEN Directory ELSE Empty
  <2>1. PICK fs : fs = containers'[c].entries
    OBVIOUS
  <2>2. \A i \in DOMAIN fs : fs[i].path \in Seq(Names)
    <3>1. \A i \in DOMAIN containers[c].entries : containers[c].entries[i].path \in Seq(Names)
      BY <1>2, Parts, PathSeqs
    <3>2. p \in Seq(Names)
      BY <1>5, PathSeqs
    <3>3. /\ DOMAIN fs = DOMAIN containers[c].entries \cup {new}
          /\ \A i \in DOMAIN containers[c].entries : fs[i] = containers[c].entries[i]
          /\ fs[new] = e
      BY <1>4, <2>1 DEF Gains
    <3> QED BY <1>3, <3>1, <3>2, <3>3
  <2>3. new \in DOMAIN fs /\ fs[new].path = p /\ fs[new].dir = dir
    BY <1>3, <1>4, <2>1 DEF Gains
  <2>4. \A i \in DOMAIN containers[c].entries : i \in DOMAIN fs /\ fs[i] = containers[c].entries[i]
    BY <1>4, <2>1 DEF Gains
  <2>5. call # Stopped
    BY <1>2 DEF Idle, Stopped
  <2>6. /\ c \in DOMAIN containers /\ containers[c].kind = "folder"
        /\ \E j \in DOMAIN containers[c].entries :
             containers[c].entries[j].path = FT!Parent(p) /\ containers[c].entries[j].dir
    BY <1>2
  <2>7. RekindedIn(fs, p) \/ made[p] = IF dir THEN Directory ELSE Empty
    BY <1>1a, <2>2, <2>3, <2>4, <2>5, <2>6, MadeOrRekinded
  <2> QED BY <2>1, <2>7
<1>9. ASSUME NEW k, Only(p, k), NEW id \in FT!FileIDs, id # k
      PROVE  Still(id)
  <2>0. PICK m, n : m = files[id].cid /\ n = files[id].cfid
    OBVIOUS
  <2>1. Changed(k)
    BY <1>9, OnlyChanged
  <2>2. n # 0 => EntryStays(m, n)
    <3> SUFFICES ASSUME n # 0
                 PROVE  EntryStays(m, n)
      OBVIOUS
    <3>1. id \in FT!Ids
      BY <2>0, FileParts
    <3>2. /\ m \in DOMAIN containers /\ n \in DOMAIN containers[m].entries
          /\ containers[m].entries[n].path = files[id].path
      BY <2>0, <3>1, RoutedFile
    <3>3. m \in Mounts /\ files[id].path \in Paths
      BY <3>2, Parts
    <3>4. files[id].path # p
      BY <1>9, <3>1, Parts DEF Only, PathsUnique, FT!OnePathOneFile
    <3>5. disk'[m][files[id].path] = disk[m][files[id].path]
      BY <1>6, <1>7, <3>3, <3>4
    <3>6. /\ DOMAIN containers' = DOMAIN containers
          /\ containers'[m].kind = containers[m].kind /\ containers'[m].open = containers[m].open
      BY <1>4, <3>2 DEF Gains
    <3>7. n \in DOMAIN containers'[m].entries /\ containers'[m].entries[n] = containers[m].entries[n]
      <4>1. CASE m = c
        BY <1>4, <3>2, <4>1 DEF Gains
      <4>2. CASE m # c
        BY <1>4, <3>2, <4>2 DEF Gains
      <4> QED BY <4>1, <4>2
    <3>8. UNCHANGED objects
      BY <1>2
    <3> QED BY <3>2, <3>5, <3>6, <3>7, <3>8 DEF EntryStays
  <2>3. sizes'[id] = sizes[id]
    <3>1. files'[id].cid = files[id].cid /\ files'[id].cfid = files[id].cfid
      BY <1>9, <2>1, OtherOwners DEF ClientsInv
    <3> QED BY <1>2, <3>1, SizesStay
  <2> QED BY <1>9, <2>0, <2>1, <2>2, <2>3, OtherFilesStay
<1>10. ASSUME NEW k \in FT!FileIDs, Only(p, k), Entered(k, dir, c, new), FT!ValidFile(k) => ~dir,
              disk' = [disk EXCEPT ![c] = made]
       PROVE  Kept
  <2>1. /\ files'[k].cid = c /\ files'[k].cfid = new /\ files'[k].path = p
        /\ files'[k].valid /\ files'[k].directory = dir
    BY <1>10 DEF Entered, Only
  <2>2. RekindedIn(containers'[c].entries, p) => Spoiled(k)'
    <3>1. c \in DOMAIN containers'
      BY <1>2, <1>4 DEF Gains
    <3> QED BY <2>1, <3>1 DEF Spoiled, Rekinded, RekindedIn, Entries
  <2>3. TextOf(k)' = IF made[p] \in {Nothing, Directory} THEN Fails ELSE made[p]
    <3>1. TextOf(k)' = EntryText(c, new)'
      BY <2>1, KindsOf, TextIs
    <3>2. disk'[c] = made
      BY <1>2, <1>5, <1>10
    <3>3. /\ c \in DOMAIN containers' /\ containers'[c].open /\ containers'[c].kind = "folder"
          /\ new \in DOMAIN containers'[c].entries /\ containers'[c].entries[new].path = p
      <4>1. /\ DOMAIN containers' = DOMAIN containers
            /\ containers'[c].kind = containers[c].kind /\ containers'[c].open = containers[c].open
            /\ new \in DOMAIN containers'[c].entries /\ containers'[c].entries[new] = e
        <5>1. c \in DOMAIN containers
          BY <1>2
        <5> QED BY <1>4, <5>1 DEF Gains
      <4>2. c \in DOMAIN containers /\ containers[c].open /\ containers[c].kind = "folder"
        BY <1>2
      <4> QED BY <1>3, <4>1, <4>2
    <3> QED BY <3>1, <3>2, <3>3 DEF EntryText, Reachable, Entries, FolderText
  <2>4. Empty \notin {Fails, Nothing, Directory}
    BY Texts1, ClientsAssumption
  <2>5. ReadableAt(k)
    <3>1. files[k].valid /\ ~files[k].directory => FT!ValidFile(k)
      BY FileParts DEF FT!ValidFile
    <3> QED BY <1>8, <1>10, <2>2, <2>3, <2>4, <3>1 DEF ReadableAt
  <2>6. ~dir => sizes'[k] = Empty
    <3>1. <<files[k].cid, files[k].cfid>> # <<c, new>>
      <4> SUFFICES ASSUME files[k].cid = c, files[k].cfid = new
                   PROVE  FALSE
        OBVIOUS
      <4>1. new # 0 /\ new \notin DOMAIN containers[c].entries
        BY <1>4 DEF Gains
      <4>2. k \in FT!Ids
        BY <4>1, FileParts
      <4> QED BY <4>1, <4>2, RoutedFile
    <3>2. sizes'[k] = IF <<files'[k].cid, files'[k].cfid>> = <<files[k].cid, files[k].cfid>> THEN sizes[k]
                      ELSE IF files'[k].directory THEN Empty ELSE Empty
      BY <1>2 DEF Sized, FT!FileIDs
    <3> QED BY <2>1, <3>1, <3>2
  <2>7. SizeAt(k)
    <3>1. Spoiled(k)' \/ dir \/ TextOf(k)' = Empty
      BY <1>8, <2>2, <2>3, <2>4
    <3>2. FT!ValidFile(k)' => ~dir
      BY <2>1 DEF FT!ValidFile
    <3> QED BY <2>6, <3>1, <3>2 DEF SizeAt, Measured
  <2>8. \A id \in FT!FileIDs \ {k} : Still(id)
    BY <1>9, <1>10
  <2> QED BY <2>5, <2>7, <2>8, OneKept
<1>11. ASSUME NEW k \in FT!Ids, Only(p, k), files'[k].cid = c, files'[k].cfid = 0, aborted'
       PROVE  Kept
  <2>1. \A id \in FT!FileIDs \ {k} : Still(id)
    BY <1>9, <1>11
  <2>2. k \in FT!FileIDs
    BY Parts, Ids
  <2>3. TextOf(k)' = Fails
    <3>1. TextOf(k)' = EntryText(c, 0)'
      BY <1>11, KindsOf, TextIs
    <3>2. 0 \notin DOMAIN containers'[c].entries
      <4>1. 0 \notin DOMAIN containers[c].entries
        BY <1>2, Parts
      <4>2. DOMAIN containers'[c].entries = DOMAIN containers[c].entries \cup {new} /\ new # 0
        BY <1>4 DEF Gains
      <4> QED BY <4>1, <4>2
    <3> QED BY <3>1, <3>2 DEF EntryText, Entries
  <2>4. ReadableAt(k)
    BY <1>11 DEF ReadableAt
  <2>5. SizeAt(k)
    BY <2>3 DEF SizeAt, Measured
  <2> QED BY <2>1, <2>2, <2>4, <2>5, OneKept
<1> QED BY <1>2, <1>10, <1>11

(* A write is read back, and only by the file that was written.             *)
WrittenAt(k, text) ==
  TextOf(k)' = text \/ Spoiled(k) \/ files[k].directory

LEMMA WriteKept ==
  ASSUME ClientsInv, ClientsInv', NEW h \in Handles, NEW text \in Texts, Write(h, text),
         NEW k, k = FileOf(h)
  PROVE  /\ k \in FT!FileIDs /\ (\A id \in FT!FileIDs \ {k} : Still(id))
         /\ WrittenAt(k, text) /\ Kept
<1>0. PICK c, n : c = files[k].cid /\ n = files[k].cfid
  OBVIOUS
<1>0a. PICK q : q = containers[c].entries[n].path
  OBVIOUS
<1>1. /\ call = Idle /\ refs[h] # NoRef /\ UNCHANGED <<vars, refs, objects, sizes, creating>>
      /\ c \in DOMAIN containers /\ c \in Mounts /\ containers[c].open
      /\ containers[c].kind = "folder"
      /\ n \in DOMAIN containers[c].entries /\ n \in 1 .. MaxEntries
      /\ q \in Paths \ {FT!Root} /\ FT!Parent(q) \in Paths
      /\ disk' = [disk EXCEPT ![c] = DiskWritten(@, q, text)]
  <2>0. c = files[FileOf(h)].cid /\ n = files[FileOf(h)].cfid
    BY <1>0
  <2>1. WritesTo(h, text, c, n, q)
    BY <1>0a, <2>0, WriteEffect
  <2> QED BY <2>1 DEF WritesTo
<1>2. UNCHANGED <<files, allocated, containers, objects, sizes>> /\ call # Stopped
  BY <1>1 DEF vars, Idle, Stopped
<1>3. k \in FT!FileIDs
  BY <1>1 DEF FileOf, ClientsInv, ClientsTypeOK, Refs!Ref, FT!FileIDs
<1>4. n # 0
  BY <1>1, StarVFSAssumption
<1>5. k \in FT!Ids /\ files[k].path = q
  <2>1. k \in FT!Ids
    BY <1>0, <1>3, <1>4, FileParts
  <2> QED BY <1>0, <1>0a, <1>4, <2>1, RoutedFile
<1>6. disk \in [Mounts -> [Paths -> Text \cup {Nothing, Directory}]]
  BY DEF ClientsInv, ClientsTypeOK
<1>7. /\ \A m \in Mounts : \A r \in Paths : m # c \/ r # q => disk'[m][r] = disk[m][r]
      /\ disk'[c][q] \in {disk[c][q], text}
      /\ disk[c][FT!Parent(q)] = Directory /\ disk[c][q] # Directory => disk'[c][q] = text
  <2>1. disk'[c] = DiskWritten(disk[c], q, text) /\ \A m \in Mounts : m # c => disk'[m] = disk[m]
    BY <1>1, <1>6
  <2>2. disk[c] \in [Paths -> Text \cup {Nothing, Directory}]
    BY <1>1, <1>6
  <2>3. /\ \A r \in Paths : r # q => DiskWritten(disk[c], q, text)[r] = disk[c][r]
        /\ DiskWritten(disk[c], q, text)[q] \in {disk[c][q], text}
        /\ disk[c][FT!Parent(q)] = Directory /\ disk[c][q] # Directory
           => DiskWritten(disk[c], q, text)[q] = text
    BY <1>1, <2>2 DEF DiskWritten
  <2> QED BY <2>1, <2>3
<1>8. ASSUME NEW id \in FT!FileIDs, id # k
      PROVE  Still(id)
  <2>0. PICK m, r : m = files[id].cid /\ r = files[id].cfid
    OBVIOUS
  <2>1. Changed(k)
    BY <1>2, NoneChanged
  <2>2. r # 0 => EntryStays(m, r)
    <3> SUFFICES ASSUME r # 0
                 PROVE  EntryStays(m, r)
      OBVIOUS
    <3>1. id \in FT!Ids
      BY <2>0, FileParts
    <3>2. /\ m \in DOMAIN containers /\ r \in DOMAIN containers[m].entries
          /\ containers[m].entries[r].path = files[id].path
      BY <2>0, <3>1, RoutedFile
    <3>3. m \in Mounts /\ files[id].path \in Paths
      BY <3>2, Parts
    <3>4. files[id].path # q
      BY <1>5, <1>8, <3>1, Parts DEF PathsUnique, FT!OnePathOneFile
    <3> QED BY <1>2, <1>7, <3>2, <3>3, <3>4 DEF EntryStays
  <2> QED BY <1>2, <1>8, <2>0, <2>1, <2>2, OtherFilesStay
<1>9. TextOf(k)' = IF disk'[c][q] \in {Nothing, Directory} THEN Fails ELSE disk'[c][q]
  <2>1. TextOf(k)' = EntryText(c, n)'
    BY <1>0, <1>2, KindsOf, TextIs
  <2> QED BY <1>0a, <1>1, <1>2, <2>1 DEF EntryText, Reachable, Entries, FolderText
<1>10. TextOf(k) = IF disk[c][q] \in {Nothing, Directory} THEN Fails ELSE disk[c][q]
  <2>1. TextOf(k) = EntryText(c, n)
    BY <1>0, KindsOf, TextIs
  <2> QED BY <1>0a, <1>1, <2>1 DEF EntryText, Reachable, Entries, FolderText
<1>11. text \notin {Fails, Nothing, Directory}
  BY Texts1, ClientsAssumption
<1>12. WrittenAt(k, text)
  <2> SUFFICES ASSUME ~Spoiled(k), ~files[k].directory
               PROVE  TextOf(k)' = text
    BY DEF WrittenAt
  <2>1. ~Rekinded(c, q)
    BY <1>0, <1>1, <1>5 DEF Spoiled
  <2>2. ~containers[c].entries[n].dir
    BY <1>0, <1>1, <1>4, <1>5 DEF ClientsInv, SameKind, Entries
  <2>3. disk[c][q] \in Text
    BY <1>0a, <1>1, <1>2, <2>1, <2>2 DEF ClientsInv, EntriesOnDisk, Held, OnDisk, Entries
  <2>4. disk[c][FT!Parent(q)] = Directory
    <3>1. CASE FT!Parent(q) = FT!Root
      BY <1>1, <3>1 DEF ClientsInv, DiskListed
    <3>2. CASE FT!Parent(q) # FT!Root
      <4>1. PICK j \in DOMAIN containers[c].entries :
              containers[c].entries[j].path = FT!Parent(q) /\ containers[c].entries[j].dir
        BY <1>0a, <1>1, <3>2 DEF ClientsInv, FoldersClosed, UnderOwn, Entries
      <4>2. Rekinded(c, FT!Parent(q)) \/ disk[c][FT!Parent(q)] = Directory
        BY <1>1, <1>2, <4>1 DEF ClientsInv, EntriesOnDisk, Held, OnDisk, Entries
      <4>3. Rekinded(c, FT!Parent(q)) => Rekinded(c, q)
        <5>1. PICK es : es = containers[c].entries
          OBVIOUS
        <5>2. \A i \in DOMAIN es : es[i].path \in Seq(Names)
          BY <1>1, <5>1, Parts, PathSeqs
        <5>3. q \in Seq(Names) /\ q # << >>
          BY <1>1, PathSeqs
        <5>4. RekindedIn(es, FT!Parent(q)) => RekindedIn(es, q)
          BY <5>2, <5>3, AboveRekinded
        <5> QED BY <5>1, <5>4, RekindedEntries
      <4> QED BY <2>1, <4>2, <4>3
    <3> QED BY <3>1, <3>2
  <2>5. disk[c][q] # Directory
    BY <2>3, ClientsAssumption
  <2> QED BY <1>7, <1>9, <1>11, <2>4, <2>5
<1>13. ReadableAt(k) /\ SizeAt(k)
  <2>1. ReadableAt(k)
    BY <1>7, <1>9, <1>10, <1>11 DEF ReadableAt
  <2> QED BY <2>1 DEF SizeAt
<1> QED BY <1>3, <1>8, <1>12, <1>13, OneKept


LEMMA QuietKept ==
  ASSUME ClientsInv, ClientsInv', QuietCall \/ QuietStep
  PROVE  Kept
<1>1. UNCHANGED <<refs, disk, objects, sizes, creating>>
  BY DEF QuietCall, QuietStep
<1>2. ASSUME MountRefused \/ ReloadAsserts \/ ReloadFails \/ MountSucceeds
      PROVE  Kept
  <2>1. UNCHANGED <<files, allocated, containers>>
    BY <1>2 DEF MountRefused, ReloadAsserts, ReloadFails, MountSucceeds
  <2> QED BY <1>1, <2>1, HandleStepKept
<1>3. ASSUME ForceDirectory
      PROVE  Kept
  BY <1>1, <1>3, ForcesKept
<1>4. ASSUME NEW id \in 1 .. MaxFiles, DeleteFile(id)
      PROVE  Kept
  <2>1. id \in FT!FileIDs
    BY DEF FT!FileIDs
  <2> QED BY <1>1, <1>4, <2>1, DeleteFileKept
<1> QED BY <1>1, <1>2, <1>3, <1>4, MountAddedKept, CloseContainerKept DEF QuietCall, QuietStep

LEMMA StepKept ==
  ASSUME ClientsInv, [ClientsNext]_clientVars
  PROVE  Kept
<1>0. ClientsInv'
  BY ClientsStep
<1>1. ASSUME RegisterEntry
      PROVE  Kept
  BY <1>0, <1>1, FolderEntryKept, ArchiveEntryKept DEF RegisterEntry
<1>2. ASSUME ForceVirtual
      PROVE  Kept
  <2>1. PICK size : sizes' = Sized(size)
    BY <1>2 DEF ForceVirtual
  <2>2. ForceFile /\ UNCHANGED <<disk, objects>>
    BY <1>2 DEF ForceVirtual
  <2> QED BY <1>0, <2>1, <2>2, ForcesKept
<1>3. ASSUME NEW h \in Handles, NEW entry \in Created, CreateNew(h, entry.path, entry.dir)
      PROVE  Kept
  <2>1. entry.path \in Paths \ {FT!Root} /\ entry.dir \in BOOLEAN
    BY ClientsAssumption DEF Entry
  <2> QED BY <1>0, <1>3, <2>1, CreateNewKept
<1>4. ASSUME \/ \E mode \in Modes : OpenCreated(mode)
             \/ \E h \in Handles, id \in 2 .. MaxFiles, mode \in Modes : OpenExisting(h, id, mode)
             \/ \E h \in Handles : Close(h)
             \/ UNCHANGED clientVars
      PROVE  Kept
  <2>1. UNCHANGED <<files, allocated, containers, disk, objects, sizes>>
    BY <1>4 DEF OpenCreated, OpenExisting, Close, clientVars
  <2> QED BY <1>0, <2>1, HandleStepKept
<1>5. ASSUME NEW h \in Handles, NEW text \in Texts, Write(h, text)
      PROVE  Kept
  <2>1. PICK k : k = FileOf(h)
    OBVIOUS
  <2> QED BY <1>0, <1>5, <2>1, WriteKept
<1> QED BY <1>0, <1>1, <1>2, <1>3, <1>4, <1>5, QuietKept, ReloadFromKept, AddObjectKept,
           ExpireKept, ReadKept DEF ClientsNext, CallStep

-----------------------------------------------------------------------------
(* No call changes what two files read as, but for files that can no longer *)
(* be read.                                                                 *)
THEOREM OneFileChanges == ClientsSpec => OneFileAtATime
<1>1. ASSUME ClientsInv, [ClientsNext]_clientVars, NEW i \in 1 .. MaxFiles, NEW j \in 1 .. MaxFiles,
             i # j, TextOf(i)' # TextOf(i), TextOf(j)' # TextOf(j)
      PROVE  TextOf(i)' = Fails /\ TextOf(j)' = Fails
  <2>1. \/ \E k \in FT!FileIDs : \A id \in FT!FileIDs \ {k} : TextOf(id)' = TextOf(id)
        \/ \A id \in FT!FileIDs : TextOf(id)' \in {TextOf(id), Fails}
    BY <1>1, StepKept DEF Kept
  <2>2. i \in FT!FileIDs /\ j \in FT!FileIDs
    BY DEF FT!FileIDs
  <2> QED BY <1>1, <2>1, <2>2
<1>2. ClientsInv /\ [ClientsNext]_clientVars =>
      \A i, j \in 1 .. MaxFiles :
         i # j /\ TextOf(i)' # TextOf(i) /\ TextOf(j)' # TextOf(j)
         => TextOf(i)' = Fails /\ TextOf(j)' = Fails
  BY <1>1
<1> QED BY <1>2, ClientsInvariant, PTL DEF ClientsSpec, OneFileAtATime

(* A readable file stays readable until it is deleted, its container is     *)
(* closed, the program stops or its object goes away.                       *)
THEOREM FilesStayReadable == ClientsSpec => StaysReadable
<1>1. ClientsInv /\ [ClientsNext]_clientVars =>
      \A id \in 1 .. MaxFiles :
        files[id].valid /\ ~files[id].directory /\ TextOf(id) # Fails /\ TextOf(id)' = Fails
        => \/ files'[id].deleted \/ aborted' \/ Spoiled(id)'
           \/ containers[files[id].cid].open /\ ~containers'[files[id].cid].open
           \/ objects[files[id].cid][files[id].cfid] = "watched" /\ objects' # objects
  BY StepKept DEF Kept, ReadableAt, FT!FileIDs
<1> QED BY <1>1, ClientsInvariant, PTL DEF ClientsSpec, StaysReadable

(* A size that is the length of what is read stays so but after a write to  *)
(* the file, or the registration of a file whose text is yet to come.       *)
THEOREM SizesStayLengths == ClientsSpec => SizeIsLength
<1>1. ClientsInv /\ [ClientsNext]_clientVars =>
      \A id \in 1 .. MaxFiles :
        Measured(id) /\ ~Measured(id)'
        => \/ Spoiled(id)'
           \/ \E h \in Handles, text \in Texts : Write(h, text) /\ FileOf(h) = id
           \/ call.op = "force" /\ files'[id].path = call.path
  BY StepKept DEF Kept, SizeAt, FT!FileIDs
<1> QED BY <1>1, ClientsInvariant, PTL DEF ClientsSpec, SizeIsLength

(* A write through a handle is what the file reads as next, and no other    *)
(* file reads differently.                                                  *)
THEOREM WritesTouchOne == ClientsSpec => WriteTouchesOne
<1>1. ASSUME ClientsInv, [ClientsNext]_clientVars, NEW h \in Handles, NEW text \in Texts,
             Write(h, text), NEW id \in 1 .. MaxFiles
      PROVE  \/ TextOf(id)' = IF id = FileOf(h) THEN text ELSE TextOf(id)
             \/ id = FileOf(h) /\ (Spoiled(id) \/ files[id].directory)
  <2>0. PICK k : k = FileOf(h)
    OBVIOUS
  <2>1. (\A j \in FT!FileIDs \ {k} : Still(j)) /\ WrittenAt(k, text)
    BY <1>1, <2>0, ClientsStep, WriteKept
  <2>2. id \in FT!FileIDs
    BY DEF FT!FileIDs
  <2>3. CASE id = k
    BY <2>0, <2>1, <2>3 DEF WrittenAt
  <2>4. CASE id # k
    BY <2>0, <2>1, <2>2, <2>4 DEF Still
  <2> QED BY <2>3, <2>4
<1>2. ClientsInv /\ [ClientsNext]_clientVars =>
      \A h \in Handles, text \in Texts : Write(h, text) =>
        \A id \in 1 .. MaxFiles :
          \/ TextOf(id)' = IF id = FileOf(h) THEN text ELSE TextOf(id)
          \/ id = FileOf(h) /\ (Spoiled(id) \/ files[id].directory)
  BY <1>1
<1> QED BY <1>2, ClientsInvariant, PTL DEF ClientsSpec, WriteTouchesOne


-----------------------------------------------------------------------------
(* A step makes at most file k known, and every known file stays so. *)
KnownOne(k) ==
  /\ \A id \in FT!FileIDs \ {k} : FT!Known(id)' <=> FT!Known(id)
  /\ FT!Known(k) => FT!Known(k)'

LEMMA KnownGrows ==
  ASSUME FT!TypeOK, [FT!Next]_(FT!vars)
  PROVE  \E k \in FT!FileIDs : KnownOne(k)
<1>1. ASSUME NEW k \in FT!FileIDs, allocated' = allocated,
             \A j \in FT!FileIDs : j # k => files'[j] = files[j],
             files[k].valid \/ files[k].deleted => files'[k].valid \/ files'[k].deleted
      PROVE  KnownOne(k)
  BY <1>1 DEF KnownOne, FT!Known, FT!Ids
<1>2. ASSUME NEW p, NEW dir, NEW c, NEW n, FT!AddNew(p, dir, c, n)
      PROVE  \E k \in FT!FileIDs : KnownOne(k)
  <2>0. PICK pid : pid = FT!Lookup(FT!Parent(p))
    OBVIOUS
  <2>0a. PICK new : new = FT!Made(FT!NewFile(p, pid, c), dir, n)
    OBVIOUS
  <2>1. /\ pid \in FT!Ids /\ allocated' = allocated + 1 /\ FT!Ids \subseteq FT!FileIDs
        /\ allocated \in FT!FileIDs /\ pid # allocated
        /\ files' = [files EXCEPT ![allocated] = new, ![pid].first = allocated]
    BY <1>2, <2>0, <2>0a, Ids, NewId DEF FT!AddNew, FT!Accepts, FT!ValidDirectory
  <2>2. files \in [FT!FileIDs -> FT!File] /\ allocated \in Nat /\ files[pid] \in FT!File
    BY <2>1 DEF FT!TypeOK
  <2>3. \A j \in FT!FileIDs : j # allocated /\ j # pid => files'[j] = files[j]
    BY <2>1, <2>2
  <2>4. files'[pid] = [files[pid] EXCEPT !.first = allocated]
    BY <2>1, <2>2
  <2>5. files'[pid].valid = files[pid].valid /\ files'[pid].deleted = files[pid].deleted
    BY <2>2, <2>4 DEF FT!File
  <2>6. FT!Ids' = FT!Ids \cup {allocated} /\ allocated \notin FT!Ids
    BY <2>1, <2>2 DEF FT!Ids, FT!TypeOK
  <2>7. KnownOne(allocated)
    <3>1. \A id \in FT!FileIDs : id # allocated => (FT!Known(id)' <=> FT!Known(id))
      BY <2>3, <2>5, <2>6 DEF FT!Known
    <3>2. ~FT!Known(allocated)
      BY <2>6 DEF FT!Known
    <3> QED BY <3>1, <3>2 DEF KnownOne
  <2> QED BY <2>1, <2>7
<1>3. ASSUME NEW p, NEW dir, NEW c, NEW n,
             FT!PutOver(p, dir, c, n) \/ FT!PutAborts(p, dir, c) \/ FT!RegisterOver(p, dir, c, n)
      PROVE  \E k \in FT!FileIDs : KnownOne(k)
  <2>0. PICK k : k = FT!Lookup(p)
    OBVIOUS
  <2>1. k \in FT!Ids /\ allocated' = allocated /\ k \in FT!FileIDs
    BY <1>3, <2>0, LookupSpec, Ids DEF FT!PutOver, FT!PutAborts, FT!RegisterOver
  <2>2. files \in [FT!FileIDs -> FT!File] /\ files[k] \in FT!File
    BY <2>1 DEF FT!TypeOK
  <2>3. \A j \in FT!FileIDs : j # k => files'[j] = files[j]
    BY <1>3, <2>0, <2>2 DEF FT!PutOver, FT!PutAborts, FT!RegisterOver
  <2>4. files[k].valid \/ files[k].deleted => files'[k].valid \/ files'[k].deleted
    <3>1. CASE FT!PutOver(p, dir, c, n)
      <4>1. files'[k] = FT!Made([files[k] EXCEPT !.cid = c], dir, n)
        BY <2>0, <2>1, <2>2, <3>1 DEF FT!PutOver
      <4> QED BY <2>2, <4>1 DEF FT!Made, FT!File
    <3>2. CASE FT!PutAborts(p, dir, c)
      <4>1. files'[k] = [[files[k] EXCEPT !.cid = c] EXCEPT !.cfid = 0]
        BY <2>0, <2>1, <2>2, <3>2 DEF FT!PutAborts, FT!File
      <4> QED BY <2>2, <4>1 DEF FT!File
    <3>3. CASE FT!RegisterOver(p, dir, c, n)
      <4>1. files' = files \/ files'[k].valid
        BY <2>0, <2>1, <2>2, <3>3 DEF FT!RegisterOver, FT!File
      <4> QED BY <4>1
    <3> QED BY <1>3, <3>1, <3>2, <3>3
  <2> QED BY <1>1, <2>1, <2>3, <2>4
<1>4. ASSUME NEW id, FT!DeleteFile(id)
      PROVE  \E k \in FT!FileIDs : KnownOne(k)
  <2>1. id \in FT!Ids /\ allocated' = allocated /\ id \in FT!FileIDs
    BY <1>4, Ids DEF FT!DeleteFile, FT!Known
  <2>2. files \in [FT!FileIDs -> FT!File] /\ files[id] \in FT!File
    BY <2>1 DEF FT!TypeOK
  <2>3. /\ \A j \in FT!FileIDs : j # id => files'[j] = files[j]
        /\ files'[id] = FT!Deleted(files[id])
    BY <1>4, <2>1, <2>2 DEF FT!DeleteFile
  <2>4. files'[id].deleted
    BY <2>2, <2>3 DEF FT!Deleted, FT!File
  <2> QED BY <1>1, <2>1, <2>3, <2>4
<1>5. CASE UNCHANGED FT!vars
  <2>1. 1 \in FT!FileIDs
    BY StarVFSAssumption DEF FT!FileIDs
  <2> QED BY <1>1, <1>5, <2>1 DEF FT!vars
<1> QED BY <1>2, <1>3, <1>4, <1>5 DEF FT!Next, FT!DeleteOwned

(* The file tables give handles only what FileRefs allows.                  *)
LEMMA RefsStep == ClientsInv /\ [ClientsNext]_clientVars => [Refs!Next]_(Refs!vars)
<1> SUFFICES ASSUME ClientsInv, [ClientsNext]_clientVars
             PROVE  [Refs!Next]_(Refs!vars)
  OBVIOUS
<1>1. CASE UNCHANGED refs
  <2>1. [FT!Next]_(FT!vars) /\ FT!TypeOK
    BY BasicStep, StepInv, Parts
  <2>2. PICK k \in FT!FileIDs : KnownOne(k)
    BY <2>1, KnownGrows
  <2>3. k \in 1 .. MaxFiles /\ \A id \in 1 .. MaxFiles : id # k => (FT!Known(id)' <=> FT!Known(id))
    BY <2>2 DEF KnownOne, FT!FileIDs
  <2>4. CASE FT!Known(k)' <=> FT!Known(k)
    <3>1. {id \in 1 .. MaxFiles : FT!Known(id)}' = {id \in 1 .. MaxFiles : FT!Known(id)}
      BY <2>3, <2>4
    <3> QED BY <1>1, <3>1 DEF Refs!vars
  <2>5. CASE FT!Known(k)' /\ ~FT!Known(k)
    <3>1. {id \in 1 .. MaxFiles : FT!Known(id)}' = {id \in 1 .. MaxFiles : FT!Known(id)} \cup {k}
      BY <2>3, <2>5
    <3>2. Refs!FileAppears(k)
      BY <1>1, <3>1 DEF Refs!FileAppears
    <3> QED BY <2>3, <3>2 DEF Refs!Next
  <2> QED BY <2>2, <2>4, <2>5 DEF KnownOne
<1>2. ASSUME NEW mode \in Modes, OpenCreated(mode)
      PROVE  Refs!Next
  <2>1. creating.handle \in Handles /\ creating.id \in 1 .. MaxFiles
    BY <1>2 DEF OpenCreated, ClientsInv, ClientsTypeOK
  <2> QED BY <1>2, <2>1 DEF OpenCreated, Refs!Next
<1>3. ASSUME NEW h \in Handles, NEW id \in 2 .. MaxFiles, NEW mode \in Modes,
             OpenExisting(h, id, mode)
      PROVE  Refs!Next
  <2>1. id \in 1 .. MaxFiles
    BY StarVFSAssumption
  <2> QED BY <1>3, <2>1 DEF OpenExisting, Refs!Next
<1>4. ASSUME NEW h \in Handles, Close(h)
      PROVE  Refs!Next
  BY <1>4 DEF Close, Refs!Next
<1>5. \/ UNCHANGED refs
      \/ \E mode \in Modes : OpenCreated(mode)
      \/ \E h \in Handles, id \in 2 .. MaxFiles, mode \in Modes : OpenExisting(h, id, mode)
      \/ \E h \in Handles : Close(h)
  BY DEF ClientsNext, CallStep, QuietCall, QuietStep, RegisterEntry, ForceVirtual, ReloadFrom, AddObject, Expire, CreateNew,
         Write, Read, clientVars
<1> QED BY <1>1, <1>2, <1>3, <1>4, <1>5

(* Clients and the file table below them keep to FileRefs, which HandleTable *)
(* implements: a handle stays on its file whatever happens to the tables.    *)
THEOREM ClientsUseFileRefs == ClientsSpec => UsesFileRefs
<1>1. ClientsInit => Refs!Init
  BY DEF ClientsInit
<1> QED BY <1>1, RefsStep, ClientsInvariant, PTL DEF ClientsSpec, UsesFileRefs, Refs!Spec
=============================================================================
