------------------------------ MODULE StarVFS ------------------------------
(***************************************************************************)
(* StarVFS: containers are mounted over one FileTable, which routes every  *)
(* file to the container that holds its content (container id and the      *)
(* container's own file id), and clients create, delete and register files.*)
(*                                                                         *)
(* A folder and an archive register their content entry by entry; a        *)
(* virtual container is mounted empty and registers files later, forcing   *)
(* the directories on the way.  The calls of one client are sequential, so *)
(* only the steps of the call in progress are enabled; they are separate   *)
(* because a server thread may read the tables in between.                 *)
(***************************************************************************)
EXTENDS Integers, Sequences, FiniteSets

CONSTANTS
  Paths, NoPath, MaxFiles,   \* as in FileTable, with room for all paths
  Contents,                  \* what folders and archives hold: sequences of entries
  MaxMounts,                 \* bound: calls of CreateContainer
  MaxEntries                 \* bound: entries of one container

VARIABLES
  files, allocated, aborted, \* the FileTable
  interfaces,                \* m_Interfaces: the last container id given out
  containers,                \* m_Containers, without the reserved first one
  call                       \* the call in progress and how far it has come

vars == <<files, allocated, aborted, interfaces, containers, call>>

FT == INSTANCE FileTable WITH ContainerIDs <- 1 .. MaxMounts,
                              ContainerFileIDs <- 1 .. MaxEntries

Entry == [path : Paths, dir : BOOLEAN]

(* Directories come before what is in them, and no path comes twice. *)
WellFormed(content) ==
  \A i \in DOMAIN content :
    /\ content[i].path # FT!Root
    /\ \A j \in 1 .. i - 1 : content[j].path # content[i].path
    /\ \/ FT!Parent(content[i].path) = FT!Root
       \/ \E j \in 1 .. i - 1 : content[j] = [path |-> FT!Parent(content[i].path), dir |-> TRUE]

Names == UNION {{p[i] : i \in DOMAIN p} : p \in Paths}

ASSUME StarVFSAssumption ==
  /\ FT!Root \in Paths
  /\ \A p \in Paths : p \in Seq(Names) /\ \A k \in 1 .. Len(p) : SubSeq(p, 1, k) \in Paths
  /\ Cardinality(Paths) <= MaxFiles /\ MaxFiles \in Nat \ {0}
  /\ MaxMounts \in Nat /\ MaxEntries \in Nat \ {0}
  /\ \A content \in Contents :
       content \in Seq(Entry) /\ WellFormed(content) /\ Len(content) < MaxEntries

Kinds == {"folder", "archive", "virtual"}

Idle == [op |-> "idle", cid |-> 0, at |-> 0, path |-> FT!Root]

(* An assertion failed, or a null pointer was used. *)
Stopped == [Idle EXCEPT !.op = "stopped"]

Call == [op : {"idle", "stopped", "reload", "folder", "archive", "force"},
         cid : 0 .. MaxMounts, at : Nat, path : Paths]

Container == [kind : Kinds, entries : Seq(Entry), open : BOOLEAN]

TypeOK ==
  /\ FT!TypeOK
  /\ interfaces \in 0 .. MaxMounts
  /\ containers \in Seq(Container)
  /\ \A c \in DOMAIN containers : Len(containers[c].entries) <= MaxEntries
  /\ call \in Call

Init ==
  /\ FT!Init
  /\ interfaces = 0
  /\ containers = << >>
  /\ call = Idle

Entries(c) == containers[c].entries

(* The next entry to register; beyond the last one when all are. *)
Current == Entries(call.cid)[call.at]

HasCurrent == call.at <= Len(Entries(call.cid))

(* Faulty: the loop does not advance. *)
SameEntry == call' = call

NextEntry == call' = [call EXCEPT !.at = @ + 1]

(* The path has no file and cannot get one: its directory is missing, is a *)
(* file, or was deleted.                                                   *)
Refused(p) == FT!Lookup(p) = 0 /\ ~FT!Accepts(p)

-----------------------------------------------------------------------------
(* CreateContainer takes a container id before anything can fail; then the *)
(* container does not initialise, or the callback cancels the mount.       *)
MountRefused ==
  /\ call = Idle
  /\ interfaces < MaxMounts
  /\ interfaces' = interfaces + 1
  /\ UNCHANGED <<files, allocated, aborted, containers, call>>

(* CreateContainer up to MountContainer's call of ReloadContainer. *)
MountAdded(kind) ==
  /\ call = Idle
  /\ interfaces < MaxMounts
  /\ interfaces' = interfaces + 1
  /\ containers' = Append(containers, [kind |-> kind, entries |-> << >>, open |-> TRUE])
  /\ call' = [Idle EXCEPT !.op = "reload", !.cid = interfaces']
  /\ UNCHANGED <<files, allocated, aborted>>

(* The assertion of ReloadContainer. *)
ReloadAsserts ==
  /\ call.op = "reload"
  /\ call.cid > Len(containers)
  /\ call' = Stopped
  /\ UNCHANGED <<files, allocated, aborted, interfaces, containers>>

(* The container reads its content.  An archive's own table starts with the *)
(* root directory, which is not registered; a virtual container is done.    *)
Reload(content) ==
  /\ call.op = "reload"
  /\ call.cid <= Len(containers)
  /\ LET kind == containers[call.cid].kind
     IN  /\ kind = "virtual" => content = << >>
         /\ containers' = [containers EXCEPT ![call.cid].entries =
              IF kind = "archive" THEN <<[path |-> FT!Root, dir |-> TRUE]>> \o content ELSE content]
         /\ call' = CASE kind = "folder"  -> [call EXCEPT !.op = kind, !.at = 1]
                      [] kind = "archive" -> [call EXCEPT !.op = kind, !.at = 2]
                      [] kind = "virtual" -> Idle
  /\ UNCHANGED <<files, allocated, aborted, interfaces>>

(* The content cannot be read: the container stays mounted without any. *)
ReloadFails ==
  /\ call.op = "reload"
  /\ call.cid <= Len(containers)
  /\ containers[call.cid].kind # "virtual"
  /\ call' = Idle
  /\ UNCHANGED <<files, allocated, aborted, interfaces, containers>>

-----------------------------------------------------------------------------
(* FolderContainer::RegisterContent goes on when an entry gets no file. *)
RegisterFolderEntry ==
  /\ call.op = "folder"
  /\ HasCurrent
  /\ \/ /\ \/ FT!AddNew(Current.path, Current.dir, call.cid, call.at)
           \/ FT!PutOver(Current.path, Current.dir, call.cid, call.at)
        /\ NextEntry
     \/ /\ Refused(Current.path)
        /\ NextEntry
        /\ UNCHANGED <<files, allocated, aborted>>
     \/ /\ FT!PutAborts(Current.path, Current.dir, call.cid)
        /\ call' = Stopped
  /\ UNCHANGED <<interfaces, containers>>

(* RegisterStructureTable gives up when an entry gets no file. *)
RegisterArchiveEntry ==
  /\ call.op = "archive"
  /\ HasCurrent
  /\ \/ /\ \/ FT!AddNew(Current.path, Current.dir, call.cid, call.at)
           \/ FT!RegisterOver(Current.path, Current.dir, call.cid, call.at)
        /\ NextEntry
     \/ /\ Refused(Current.path)
        /\ call' = Idle
        /\ UNCHANGED <<files, allocated, aborted>>
  /\ UNCHANGED <<interfaces, containers>>

MountSucceeds ==
  /\ call.op \in {"folder", "archive"}
  /\ ~HasCurrent
  /\ call' = Idle
  /\ UNCHANGED <<files, allocated, aborted, interfaces, containers>>

(* Faulty: the container's files are cleared in the table. *)
CloseContainerWiping(c) ==
  /\ call = Idle
  /\ containers' = [containers EXCEPT ![c].open = FALSE]
  /\ files' = [id \in FT!FileIDs |-> IF files[id].cid = c THEN FT!Blank ELSE files[id]]
  /\ UNCHANGED <<allocated, aborted, interfaces, call>>

(* The container is taken out of the list; nothing is done to its files. *)
CloseContainer(c) ==
  /\ call = Idle
  /\ containers' = [containers EXCEPT ![c].open = FALSE]
  /\ UNCHANGED <<files, allocated, aborted, interfaces, call>>

-----------------------------------------------------------------------------
(* Faulty: the index of the entry that is last so far. *)
NewEntryIDOfLast(c) == Len(Entries(c))

(* The index AllocateFile gives a folder's new entry. *)
NewEntryID(c) == Len(Entries(c)) + 1

(* OpenFile in mode CreateNew, and CreateDirectory: the container that owns *)
(* the directory adds an entry below the one it knows the directory by.     *)
(* Only folders can; the other containers refuse.                           *)
Create(p, dir) ==
  LET base == FT!Lookup(FT!Parent(p))
      c    == files[base].cid
      n    == files[base].cfid
      q    == Append(Entries(c)[n].path, p[Len(p)])
      new  == NewEntryID(c)
  IN  /\ call = Idle
      /\ FT!ValidDirectory(base)
      /\ c \in DOMAIN containers /\ containers[c].open /\ containers[c].kind = "folder"
      /\ n \in DOMAIN Entries(c)
      /\ new <= MaxEntries
      /\ \/ /\ FT!AddNew(q, dir, c, new) \/ FT!PutOver(q, dir, c, new)
            /\ UNCHANGED call
         \/ /\ FT!PutAborts(q, dir, c)
            /\ call' = Stopped
      /\ containers' = [containers EXCEPT ![c].entries = Append(@, [path |-> q, dir |-> dir])]
      /\ UNCHANGED interfaces

DeleteFile(id) ==
  /\ call = Idle
  /\ FT!DeleteFile(id)
  /\ UNCHANGED <<interfaces, containers, call>>

(* VirtualFileContainer::AddFile and RegisterFile, up to ForceAllocFileID. *)
AddVirtual(c, p) ==
  /\ call = Idle
  /\ containers[c].kind = "virtual"
  /\ Len(Entries(c)) < MaxEntries
  /\ containers' = [containers EXCEPT ![c].entries = Append(@, [path |-> p, dir |-> FALSE])]
  /\ call' = [op |-> "force", cid |-> c, at |-> 1, path |-> p]
  /\ UNCHANGED <<files, allocated, aborted, interfaces>>

(* One component of the path in ForceAllocFileID: a directory on the way is *)
(* made if it is missing, and belongs to the container under no id.         *)
ForceDirectory ==
  LET p == SubSeq(call.path, 1, call.at)
  IN  /\ call.op = "force"
      /\ call.at < Len(call.path)
      /\ \/ /\ FT!AddNew(p, TRUE, call.cid, 0)
            /\ NextEntry
         \/ /\ FT!ValidDirectory(FT!Lookup(p))
            /\ NextEntry
            /\ UNCHANGED <<files, allocated, aborted>>
         \/ /\ Refused(p) \/ (FT!Lookup(p) # 0 /\ ~FT!ValidDirectory(FT!Lookup(p)))
            /\ call' = Idle
            /\ UNCHANGED <<files, allocated, aborted>>
      /\ UNCHANGED <<interfaces, containers>>

(* m_InternalIDCounter when the last file was added. *)
InternalID(c) == Len(Entries(c))

(* The last component is refused if anything is there, deleted or not; over *)
(* a directory the search goes on behind the end of the path.               *)
ForceFile ==
  /\ call.op = "force"
  /\ call.at = Len(call.path)
  /\ \/ /\ FT!AddNew(call.path, FALSE, call.cid, InternalID(call.cid))
        /\ call' = Idle
     \/ /\ FT!ValidDirectory(FT!Lookup(call.path))
        /\ call' = Stopped
        /\ UNCHANGED <<files, allocated, aborted>>
     \/ /\ \/ Refused(call.path)
           \/ FT!Lookup(call.path) # 0 /\ ~FT!ValidDirectory(FT!Lookup(call.path))
        /\ call' = Idle
        /\ UNCHANGED <<files, allocated, aborted>>
  /\ UNCHANGED <<interfaces, containers>>

-----------------------------------------------------------------------------
(* A call in progress goes on. *)
Step ==
  \/ ReloadAsserts
  \/ \E content \in Contents \cup {<< >>} : Reload(content)
  \/ ReloadFails
  \/ RegisterFolderEntry
  \/ RegisterArchiveEntry
  \/ MountSucceeds
  \/ ForceDirectory
  \/ ForceFile

Begin ==
  \/ MountRefused
  \/ \E kind \in Kinds : MountAdded(kind)
  \/ \E c \in DOMAIN containers : CloseContainer(c)
  \/ \E p \in Paths \ {FT!Root}, dir \in BOOLEAN : Create(p, dir)
  \/ \E id \in FT!FileIDs : DeleteFile(id)
  \/ \E c \in DOMAIN containers, p \in Paths \ {FT!Root} : AddVirtual(c, p)

Next == Begin \/ Step

Spec == Init /\ [][Next]_vars

-----------------------------------------------------------------------------
(* A file that its container knows by an id of its own has its own path     *)
(* there: through overlays, deletions, re-creations and failed mounts, the  *)
(* content read through the VFS is that of the right entry.                 *)
Routed ==
  \A id \in FT!Ids : files[id].cfid # 0 =>
    /\ files[id].cid \in DOMAIN containers
    /\ files[id].cfid \in DOMAIN Entries(files[id].cid)
    /\ Entries(files[id].cid)[files[id].cfid].path = files[id].path

(* While a mount goes on, what it has registered stays visible: a folder's  *)
(* entries are its own, unless the root directory is deleted and they had   *)
(* no file; an archive's are its own, or directories of others.             *)
RegisteredSoFar ==
  call.op \in {"folder", "archive"} =>
    \A i \in (IF call.op = "folder" THEN 1 ELSE 2) .. call.at - 1 :
      LET e  == Entries(call.cid)[i]
          id == FT!Lookup(e.path)
          own == id # 0 /\ files[id].cid = call.cid /\ files[id].cfid = i
      IN  IF call.op = "folder"
          THEN \/ own /\ files[id].valid /\ files[id].directory = e.dir
               \/ id = 0 /\ ~files[1].valid
          ELSE FT!ValidDirectory(id) \/ (own /\ files[id].valid)

(* Every call returns, or stops the program. *)
CallsReturn == call.op \notin {"idle", "stopped"} ~> call.op \in {"idle", "stopped"}

(* Mounting and clients use the file table only through its operations. *)
ImplementsFileTable == FT!Spec

(* ReloadContainer's assertion: the id of the mounted container is in range. *)
MountedIdInRange == call.op = "reload" => call.cid <= Len(containers)

(* FileTableInterface's assertions: neither may be reached. *)
NeverAsserts == ~aborted
=============================================================================
