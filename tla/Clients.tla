------------------------------ MODULE Clients ------------------------------
(***************************************************************************)
(* What clients read and write: handles opened on the files of StarVFS,    *)
(* and the texts the containers hold for them.  Handles are the references *)
(* of FileRefs, which HandleTable implements.                              *)
(*                                                                         *)
(* A folder keeps its texts on the disk, by path; an archive's never       *)
(* change; a virtual file asks an object, which its container owns         *)
(* (AddFile) or only watches (RegisterFile).  Which of them answers is     *)
(* found through three tables: the file table, the list of containers and  *)
(* the container's own entries.                                            *)
(*                                                                         *)
(* A text is the container and entry it was mounted with, Empty, or a      *)
(* member of Texts that a client wrote.  Bounds: a client closes a handle  *)
(* before it assigns to it (the rest is in HandleTable), no path is        *)
(* registered twice with a container, the root directory is not opened,    *)
(* and nobody else changes the disk.                                       *)
(***************************************************************************)
EXTENDS StarVFS

CONSTANTS
  Handles, Modes, NoRef,                                      \* as in FileRefs
  Texts,                     \* what clients write
  Created, Registered,       \* bounds: what clients create (entries), and where
                             \* they register virtual files (paths)
  Empty,                     \* a file of length 0
  Fails,                     \* GetFileData returns false or throws
  Nothing, Directory         \* what is at a path of the disk besides a text

VARIABLES
  refs,                                                       \* FileRefs
  disk,                      \* for each folder, what is at a path on the disk
  objects,                   \* for each container's entry, who keeps its object
  sizes,                     \* for each file, the text whose length m_Size is
  creating                   \* the file CreateNew or CreateDirectory has made

Refs == INSTANCE FileRefs WITH FileIDs <- 1 .. MaxFiles,
                               valid <- {id \in 1 .. MaxFiles : FT!Known(id)}

clientVars == <<files, allocated, aborted, interfaces, containers, call,
                refs, disk, objects, sizes, creating>>

Mounts == 1 .. MaxMounts

Mounted(c, n) == <<c, n>>

Text == {Empty} \cup Texts \cup {Mounted(c, n) : c \in Mounts, n \in 1 .. MaxEntries}

ASSUME ClientsAssumption ==
  /\ Registered \subseteq Paths \ {FT!Root}
  /\ \A entry \in Created : entry \in Entry /\ entry.path # FT!Root
  /\ Text \cap {Fails, Nothing, Directory} = {} /\ Nothing # Directory

Nobody == [id |-> 0, handle |-> 0, path |-> FT!Root]

ClientsTypeOK ==
  /\ TypeOK
  /\ refs \in [Handles -> Refs!Ref \cup {NoRef}]
  /\ disk \in [Mounts -> [Paths -> Text \cup {Nothing, Directory}]]
  /\ objects \in [Mounts -> [1 .. MaxEntries -> {"none", "owned", "watched", "gone"}]]
  /\ sizes \in [1 .. MaxFiles -> Text]
  /\ creating \in {Nobody} \cup
       [id : 1 .. MaxFiles, handle : Handles, path : Paths]

ClientsInit ==
  /\ Init
  /\ Refs!Init
  /\ disk = [c \in Mounts |-> [p \in Paths |-> IF p = FT!Root THEN Directory ELSE Nothing]]
  /\ objects = [c \in Mounts |-> [n \in 1 .. MaxEntries |-> "none"]]
  /\ sizes = [id \in 1 .. MaxFiles |-> Empty]
  /\ creating = Nobody

-----------------------------------------------------------------------------
(* The file an open handle names. *)
FileOf(h) == refs[h].fid

(* GetContainer: a closed container is a null pointer in the list. *)
Reachable(c) == c \in DOMAIN containers /\ containers[c].open

(* FolderContainer::GetFileData: a directory can be opened but has no size. *)
FolderText(c, n) ==
  LET found == disk[c][Entries(c)[n].path]
  IN  IF found \in {Nothing, Directory} THEN Fails ELSE found

(* VirtualFileContainer::GetFileData: the object may be gone. *)
VirtualText(c, n) ==
  IF objects[c][n] \in {"owned", "watched"} THEN Mounted(c, n) ELSE Fails

(* What a read of a file gives, through whatever handle. *)
TextOf(id) ==
  LET c == files[id].cid
      n == files[id].cfid
  IN  IF ~Reachable(c) \/ n \notin DOMAIN Entries(c) THEN Fails
      ELSE CASE containers[c].kind = "folder"  -> FolderText(c, n)
             [] containers[c].kind = "archive" -> Mounted(c, n)
             [] containers[c].kind = "virtual" -> VirtualText(c, n)

(* The disk below directory d of a folder after a file is opened for        *)
(* writing: nothing happens if its directory is missing or it is one.       *)
DiskWritten(d, p, text) ==
  IF d[FT!Parent(p)] = Directory /\ d[p] # Directory THEN [d EXCEPT ![p] = text] ELSE d

(* create_directory fails over a file. *)
DiskDirectory(d, p) ==
  IF d[FT!Parent(p)] = Directory /\ d[p] = Nothing THEN [d EXCEPT ![p] = Directory] ELSE d

(* What a folder finds when it is scanned. *)
Scanned(c, content) ==
  [p \in Paths |->
     IF p = FT!Root THEN Directory
     ELSE IF \E n \in DOMAIN content : content[n].path = p
     THEN LET n == CHOOSE n \in DOMAIN content : content[n].path = p
          IN  IF content[n].dir THEN Directory ELSE Mounted(c, n)
     ELSE Nothing]

-----------------------------------------------------------------------------
(* The calls and steps of StarVFS that only change its own tables. *)
QuietCall ==
  /\ creating = Nobody
  /\ \/ MountRefused
     \/ \E kind \in Kinds : MountAdded(kind)
     \/ \E c \in DOMAIN containers : CloseContainer(c)
     \/ \E id \in 1 .. MaxFiles : DeleteFile(id)
  /\ UNCHANGED <<refs, disk, objects, sizes, creating>>

QuietStep ==
  /\ creating = Nobody
  /\ ReloadAsserts \/ ReloadFails \/ MountSucceeds \/ ForceDirectory
  /\ UNCHANGED <<refs, disk, objects, sizes, creating>>

(* Faulty: a file registered over another one keeps the size it had. *)
SizedIfNew(size) ==
  [id \in 1 .. MaxFiles |->
     IF files[id].cid # 0 \/ files'[id].cid = 0 \/ files'[id].cfid = 0 THEN sizes[id]
     ELSE IF files'[id].directory THEN Empty ELSE size]

(* m_Size after the file whose owner changes is given this size; that of a  *)
(* directory is 0.                                                          *)
Sized(size) ==
  [id \in 1 .. MaxFiles |->
     IF <<files'[id].cid, files'[id].cfid>> = <<files[id].cid, files[id].cfid>> THEN sizes[id]
     ELSE IF files'[id].directory THEN Empty ELSE size]

(* A mount registers the next entry with the size the scan or the archive   *)
(* gives for it.                                                            *)
RegisterEntry ==
  /\ creating = Nobody
  /\ RegisterFolderEntry \/ RegisterArchiveEntry
  /\ sizes' = Sized(Mounted(call.cid, call.at))
  /\ UNCHANGED <<refs, disk, objects, creating>>

(* A virtual file is as long as its object says: an injected file is what   *)
(* is on the disk, a generated one has no length before it is read.         *)
ForceVirtual ==
  /\ creating = Nobody
  /\ ForceFile
  /\ \E size \in {Empty, Mounted(call.cid, Len(Entries(call.cid)))} : sizes' = Sized(size)
  /\ UNCHANGED <<refs, disk, objects, creating>>

(* A container reads its content: a folder, what is on the disk. *)
ReloadFrom(content) ==
  /\ creating = Nobody
  /\ Reload(content)
  /\ disk' = IF containers[call.cid].kind = "folder"
             THEN [disk EXCEPT ![call.cid] = Scanned(call.cid, content)] ELSE disk
  /\ UNCHANGED <<refs, objects, sizes, creating>>

(* AddFile keeps the object, RegisterFile a weak pointer to it. *)
AddObject(c, p, keeper) ==
  /\ creating = Nobody
  /\ \A n \in DOMAIN Entries(c) : Entries(c)[n].path # p
  /\ AddVirtual(c, p)
  /\ objects' = [objects EXCEPT ![c][Len(Entries(c)) + 1] = keeper]
  /\ UNCHANGED <<refs, disk, sizes, creating>>

(* Faulty: the container does not keep the objects it owns. *)
ExpireAny(c, n) ==
  /\ call = Idle
  /\ objects[c][n] # "none"
  /\ objects' = [objects EXCEPT ![c][n] = "gone"]
  /\ UNCHANGED <<vars, refs, disk, sizes, creating>>

(* The client that registered an object lets it go. *)
Expire(c, n) ==
  /\ call = Idle
  /\ objects[c][n] = "watched"
  /\ objects' = [objects EXCEPT ![c][n] = "gone"]
  /\ UNCHANGED <<vars, refs, disk, sizes, creating>>

-----------------------------------------------------------------------------
(* OpenFile of a path or an id: an unknown one gives an empty handle. *)
OpenExisting(h, id, mode) ==
  /\ call = Idle /\ creating = Nobody
  /\ UNCHANGED <<files, allocated, aborted, interfaces, containers, call, disk, objects, sizes, creating>>
  /\ refs[h] = NoRef
  /\ Refs!Open(h, id, mode)

(* Faulty: a new file does not truncate what is on the disk. *)
DiskKept(c, p, dir) == disk[c]

(* Faulty: the directory is made in the tables only. *)
DiskCreatedFiles(c, p, dir) ==
  IF dir THEN disk[c] ELSE DiskWritten(disk[c], p, Empty)

(* The disk after FolderContainer::CreateFile and CreateDirectory. *)
DiskCreated(c, p, dir) ==
  IF dir THEN DiskDirectory(disk[c], p) ELSE DiskWritten(disk[c], p, Empty)

(* OpenFile in mode CreateNew, and CreateDirectory, up to CreateHandle.     *)
(* CreateDirectory reports a failure if the disk has a file at the path,    *)
(* after the entry is made: no handle then.                                 *)
CreateNew(h, p, dir) ==
  LET base == FT!Lookup(FT!Parent(p))
      c    == files[base].cid
      q    == Append(Entries(c)[files[base].cfid].path, p[Len(p)])
      made == DiskCreated(c, q, dir)
  IN  /\ creating = Nobody
      /\ refs[h] = NoRef
      /\ Create(p, dir)
      /\ disk' = IF call' = Idle THEN [disk EXCEPT ![c] = made] ELSE disk
      /\ \E id \in FT!Ids' :
           /\ files'[id].path = q
           /\ creating' = IF call' = Idle /\ (dir => made[q] = Directory)
                          THEN [id |-> id, handle |-> h, path |-> p] ELSE Nobody
      /\ sizes' = Sized(Empty)
      /\ UNCHANGED <<refs, objects>>

OpenCreated(mode) ==
  /\ creating # Nobody
  /\ UNCHANGED <<files, allocated, aborted, interfaces, containers, call, disk, objects, sizes>>
  /\ Refs!Open(creating.handle, creating.id, mode)
  /\ creating' = Nobody

(* Only a folder takes texts; it returns true whether or not it could write *)
(* them, and the other containers return false.  Any mode will do.          *)
Write(h, text) ==
  LET id == FileOf(h)
      c == files[id].cid
      n == files[id].cfid
  IN  /\ call = Idle /\ creating = Nobody
      /\ refs[h] # NoRef
      /\ Reachable(c) /\ containers[c].kind = "folder" /\ n \in DOMAIN Entries(c)
      /\ disk' = [disk EXCEPT ![c] = DiskWritten(@, Entries(c)[n].path, text)]
      /\ UNCHANGED <<vars, refs, objects, sizes, creating>>

(* Reading a file of a virtual container also corrects its size; the texts  *)
(* of objects do not change.  Any other read changes nothing.               *)
Read(h) ==
  LET id == FileOf(h)
      c  == files[id].cid
  IN  /\ call = Idle /\ creating = Nobody
      /\ refs[h] # NoRef
      /\ FT!ValidFile(id) /\ TextOf(id) # Fails
      /\ containers[c].kind = "virtual"
      /\ sizes' = [sizes EXCEPT ![id] = TextOf(id)]
      /\ UNCHANGED <<vars, refs, disk, objects, creating>>

Close(h) ==
  /\ call = Idle /\ creating = Nobody
  /\ UNCHANGED <<files, allocated, aborted, interfaces, containers, call, disk, objects, sizes, creating>>
  /\ refs[h] # NoRef
  /\ Refs!Close(h)

(* A call in progress goes on. *)
CallStep ==
  \/ QuietStep
  \/ RegisterEntry
  \/ ForceVirtual
  \/ \E content \in Contents \cup {<< >>} : ReloadFrom(content)

ClientsNext ==
  \/ QuietCall
  \/ CallStep
  \/ \E mode \in Modes : OpenCreated(mode)
  \/ \E c \in DOMAIN containers, p \in Registered, keeper \in {"owned", "watched"} :
       AddObject(c, p, keeper)
  \/ \E c \in Mounts, n \in 1 .. MaxEntries : Expire(c, n)
  \/ \E h \in Handles, id \in 2 .. MaxFiles, mode \in Modes : OpenExisting(h, id, mode)
  \/ \E h \in Handles, entry \in Created : CreateNew(h, entry.path, entry.dir)
  \/ \E h \in Handles, text \in Texts : Write(h, text)
  \/ \E h \in Handles : Read(h) \/ Close(h)

ClientsSpec == ClientsInit /\ [][ClientsNext]_clientVars

(* The thread that made the call runs. *)
ClientsFairSpec == ClientsSpec /\ WF_clientVars(CallStep)

-----------------------------------------------------------------------------
(* A folder has had entries of both kinds at a path or above it: a deleted  *)
(* file made again as a directory, or a directory made again as a file.     *)
(* The disk knows nothing of deletions, so it refuses what the tables allow.*)
Rekinded(c, p) ==
  \E i, j \in DOMAIN Entries(c) :
    LET q == Entries(c)[i].path
    IN  /\ Entries(c)[j].path = q
        /\ Entries(c)[i].dir # Entries(c)[j].dir
        /\ Len(q) <= Len(p) /\ SubSeq(p, 1, Len(q)) = q

Spoiled(id) == files[id].cid \in DOMAIN containers /\ Rekinded(files[id].cid, files[id].path)

(* What a folder's file is in the file table it is on the disk, through     *)
(* overlays, deletions and re-creations that keep its kind.                 *)
DiskFollows ==
  \A id \in FT!Ids :
    LET f == files[id]
    IN  /\ f.valid /\ f.cfid # 0
        /\ f.cid \in DOMAIN containers /\ containers[f.cid].kind = "folder"
        /\ ~Spoiled(id)
        => /\ f.directory => disk[f.cid][f.path] = Directory
           /\ ~f.directory => disk[f.cid][f.path] \in Text

(* CreateNew hands out the file of the path the client asked for, and it is *)
(* empty whatever was there before, on the disk or in another container.    *)
NewFileIsEmpty ==
  creating # Nobody =>
    /\ files[creating.id].valid
    /\ files[creating.id].path = creating.path
    /\ \/ files[creating.id].directory
       \/ TextOf(creating.id) = Empty
       \/ Spoiled(creating.id)

(* A write through a handle is what the next read of that file gives,       *)
(* through any handle, and no other file reads differently.                 *)
WriteTouchesOne ==
  [][\A h \in Handles, text \in Texts : Write(h, text) =>
       \A id \in 1 .. MaxFiles :
         \/ TextOf(id)' = IF id = FileOf(h) THEN text ELSE TextOf(id)
         \/ id = FileOf(h) /\ (Spoiled(id) \/ files[id].directory)]_clientVars

(* No call changes what two files read as, except that a closed container's *)
(* files can no longer be read.                                             *)
OneFileAtATime ==
  [][\A i, j \in 1 .. MaxFiles :
       i # j /\ TextOf(i)' # TextOf(i) /\ TextOf(j)' # TextOf(j)
       => TextOf(i)' = Fails /\ TextOf(j)' = Fails]_clientVars

(* A valid file that can be read can be read after every step that does not *)
(* delete it, close its container or stop the program, or drop an object    *)
(* that its container only watches: an overlay replaces what it reads as.   *)
StaysReadable ==
  [][\A id \in 1 .. MaxFiles :
       files[id].valid /\ ~files[id].directory /\ TextOf(id) # Fails /\ TextOf(id)' = Fails
       => \/ files'[id].deleted \/ aborted' \/ Spoiled(id)'
          \/ containers[files[id].cid].open /\ ~containers'[files[id].cid].open
          \/ objects[files[id].cid][files[id].cfid] = "watched" /\ objects' # objects]_clientVars

(* The size in the table is the length of what a read gives. *)
Measured(id) ==
  FT!ValidFile(id) /\ TextOf(id) # Fails => sizes[id] = TextOf(id)

(* The size in the table, by which the server cuts its answer to OpenFile   *)
(* out of what it read, stays right but for two cases: the container writes *)
(* a file and does not tell the table, and a generated file is registered   *)
(* before its text exists.                                                  *)
SizeIsLength ==
  [][\A id \in 1 .. MaxFiles :
       Measured(id) /\ ~Measured(id)'
       => \/ Spoiled(id)'
          \/ \E h \in Handles, text \in Texts : Write(h, text) /\ FileOf(h) = id
          \/ call.op = "force" /\ files'[id].path = call.path]_clientVars

(* Clients, mounts and deletions use handles, and change the files they     *)
(* refer to, only as FileRefs allows, which HandleTable implements.         *)
UsesFileRefs == Refs!Spec
=============================================================================
