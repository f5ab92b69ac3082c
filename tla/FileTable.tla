----------------------------- MODULE FileTable -----------------------------
(***************************************************************************)
(* FileTable: the files of the virtual file system, in an array indexed by *)
(* file id, linked into one tree by parent, first-child and next-sibling   *)
(* ids, together with the operations FileTableInterface offers containers. *)
(*                                                                         *)
(* A path is the sequence of its names; the path index is the growing      *)
(* injective map PathIndex, which HashFileTable implements, so looking a   *)
(* path up is finding the file with that path (paths of equal hash are     *)
(* left out, and so are ids beyond the last one, see HashFileTable).       *)
(* Names, sizes and type hashes carry no control and are abstracted away.  *)
(* The specification allows any sequence of calls by any containers.       *)
(***************************************************************************)
EXTENDS Integers, Sequences

CONSTANTS
  Paths,            \* the paths in use, as sequences of names
  NoPath,           \* the path of an entry that holds no file
  MaxFiles,         \* bound: how many files the table may hold
  ContainerIDs,     \* ids of containers; 0 is no container
  ContainerFileIDs  \* ids containers give their own files; 0 is no file

Root == << >>

Parent(p) == SubSeq(p, 1, Len(p) - 1)

ASSUME FileTableAssumption ==
  /\ Root \in Paths
  /\ NoPath \notin Paths
  /\ \A p \in Paths \ {Root} : Parent(p) \in Paths
  /\ MaxFiles \in Nat \ {0}

VARIABLES
  files,            \* m_FileTable
  allocated,        \* m_Allocated: the next id to hand out
  aborted           \* an assert(false) of FileTableInterface was reached

vars == <<files, allocated, aborted>>

FileIDs == 1 .. MaxFiles

Ids == 1 .. allocated - 1

File == [path : Paths \cup {NoPath},
         parent : 0 .. MaxFiles, first : 0 .. MaxFiles, next : 0 .. MaxFiles,
         valid : BOOLEAN, directory : BOOLEAN, deleted : BOOLEAN,
         cid : ContainerIDs \cup {0}, cfid : ContainerFileIDs \cup {0}]

Blank == [path |-> NoPath, parent |-> 0, first |-> 0, next |-> 0,
          valid |-> FALSE, directory |-> FALSE, deleted |-> FALSE,
          cid |-> 0, cfid |-> 0]

TypeOK ==
  /\ files \in [FileIDs -> File]
  /\ allocated \in 2 .. MaxFiles + 1
  /\ aborted \in BOOLEAN

Init ==
  /\ files = [id \in FileIDs |->
                IF id = 1 THEN [Blank EXCEPT !.path = Root, !.valid = TRUE, !.directory = TRUE]
                ELSE Blank]
  /\ allocated = 2
  /\ aborted = FALSE

-----------------------------------------------------------------------------
(* IsValid: a deleted file is still known. *)
Known(id) == id \in Ids /\ (files[id].valid \/ files[id].deleted)

ValidDirectory(id) == id \in Ids /\ files[id].valid /\ files[id].directory

ValidFile(id) == id \in Ids /\ files[id].valid /\ ~files[id].directory

(* Faulty: a deleted file is not looked for. *)
LookupValid(p) ==
  IF \E id \in Ids : files[id].path = p /\ files[id].valid
  THEN CHOOSE id \in Ids : files[id].path = p /\ files[id].valid
  ELSE 0

Lookup(p) ==
  IF \E id \in Ids : files[id].path = p
  THEN CHOOSE id \in Ids : files[id].path = p
  ELSE 0

(* EnsureCapacity(1); running out of ids is left to HashFileTable. *)
Room == allocated <= MaxFiles

(* GetFileFirstChild and GetFileNextSibling, 0 where they return nullptr. *)
FirstChild(id) == IF Known(files[id].first) THEN files[id].first ELSE 0

NextSibling(id) == IF Known(files[id].next) THEN files[id].next ELSE 0

(* Faulty: the parent's children are not kept behind the new one. *)
NewFileAlone(p, pid, c) == [Blank EXCEPT !.path = p, !.parent = pid, !.cid = c]

(* Faulty: every file is a child of the root. *)
NewFileInRoot(p, pid, c) ==
  [Blank EXCEPT !.path = p, !.parent = 1, !.next = files[pid].first, !.cid = c]

(* What AllocNewFile and AllocFileID leave in a new entry. *)
NewFile(p, pid, c) ==
  [Blank EXCEPT !.path = p, !.parent = pid, !.next = files[pid].first, !.cid = c]

(* Faulty: the flags are not reset. *)
MadeOverFlags(f, dir, n) ==
  [f EXCEPT !.cfid = n, !.valid = TRUE, !.directory = @ \/ dir]

(* CreateFile and CreateDirectory reset every flag. *)
Made(f, dir, n) ==
  [f EXCEPT !.cfid = n, !.valid = TRUE, !.directory = dir, !.deleted = FALSE]

(* Faulty: the file is no longer valid and not marked as deleted. *)
Forgotten(f) == [f EXCEPT !.valid = FALSE]

Deleted(f) == [f EXCEPT !.valid = FALSE, !.deleted = TRUE]

(* The parent AllocFile needs for a path that has no file yet. *)
Accepts(p) == ValidDirectory(Lookup(Parent(p)))

-----------------------------------------------------------------------------
(* A path without a file, under a valid directory, gets one: AllocFileID   *)
(* and then CreateFile or CreateDirectory, or one entry of an archive in   *)
(* RegisterStructureTable.  It becomes its parent's first child.           *)
AddNew(p, dir, c, n) ==
  LET pid == Lookup(Parent(p))
  IN  /\ ~aborted
      /\ Room
      /\ Lookup(p) = 0
      /\ Accepts(p)
      /\ files' = [files EXCEPT ![allocated] = Made(NewFile(p, pid, c), dir, n),
                                ![pid].first = allocated]
      /\ allocated' = allocated + 1
      /\ UNCHANGED aborted

(* AllocFileID of a path that has a file gives the file to the caller, and *)
(* CreateFile or CreateDirectory makes it what the caller says.            *)
PutOver(p, dir, c, n) ==
  LET id == Lookup(p)
  IN  /\ ~aborted
      /\ id # 0
      /\ IF dir THEN ~ValidFile(id) ELSE ~ValidDirectory(id)
      /\ files' = [files EXCEPT ![id] = Made([@ EXCEPT !.cid = c], dir, n)]
      /\ UNCHANGED <<allocated, aborted>>

(* The assert(false) of CreateFile over a directory and of CreateDirectory *)
(* over a file, after AllocFileID has changed the owner.                   *)
PutAborts(p, dir, c) ==
  LET id == Lookup(p)
  IN  /\ ~aborted
      /\ id # 0
      /\ IF dir THEN ValidFile(id) ELSE ValidDirectory(id)
      /\ files' = [files EXCEPT ![id].cid = c, ![id].cfid = 0]
      /\ aborted' = TRUE
      /\ UNCHANGED allocated

(* An entry of RegisterStructureTable whose path has a file: a directory   *)
(* stays as it is, a file changes its owner but not its kind, and a        *)
(* deleted file becomes valid without losing any flag.                     *)
RegisterOver(p, dir, c, n) ==
  LET id == Lookup(p)
  IN  /\ ~aborted
      /\ id # 0
      /\ files' = IF ValidDirectory(id) THEN files
                  ELSE [files EXCEPT ![id].cid = c, ![id].cfid = n, ![id].valid = TRUE,
                                     ![id].directory = @ \/ (dir /\ ~files[id].valid)]
      /\ UNCHANGED <<allocated, aborted>>

(* DeleteFile(fid), and with an owner DeleteFile(fid, cid). *)
DeleteFile(id) ==
  /\ ~aborted
  /\ Known(id)
  /\ files' = [files EXCEPT ![id] = Deleted(@)]
  /\ UNCHANGED <<allocated, aborted>>

DeleteOwned(id, c) ==
  /\ files[id].cid = c
  /\ DeleteFile(id)

Next ==
  \/ \E p \in Paths \ {Root}, dir \in BOOLEAN,
        c \in ContainerIDs, n \in ContainerFileIDs \cup {0} :
       \/ AddNew(p, dir, c, n)
       \/ PutOver(p, dir, c, n)
       \/ PutAborts(p, dir, c)
       \/ RegisterOver(p, dir, c, n)
  \/ \E id \in FileIDs : DeleteFile(id) \/ \E c \in ContainerIDs : DeleteOwned(id, c)

Spec == Init /\ [][Next]_vars

-----------------------------------------------------------------------------
(* A path has at most one file, deleted or not: a client that kept a file  *)
(* id and one that looks the path up again reach the same file.            *)
OnePathOneFile ==
  \A i, j \in Ids : files[i].path = files[j].path => i = j

(* The parent of a file is the file of its parent's path, so the path      *)
(* GetFilePath builds from the names on the way to the root is the path    *)
(* the file was created with, and looking it up returns the file.          *)
ParentHoldsParentPath ==
  \A id \in Ids \ {1} :
    /\ Known(files[id].parent)
    /\ files[id].parent < id
    /\ files[files[id].parent].path = Parent(files[id].path)

(* HandleEnumerateChildren ends, and only shows children: every sibling it *)
(* goes on to has a smaller id and the same parent.                        *)
EnumerationSound ==
  \A id \in Ids :
    /\ FirstChild(id) # 0 => files[FirstChild(id)].parent = id
    /\ NextSibling(id) # 0 => /\ NextSibling(id) < id
                              /\ files[NextSibling(id)].parent = files[id].parent

(* HandleEnumerateChildren and the exporter miss no child, not even behind *)
(* a deleted one: every set that holds the first child and is closed under *)
(* going on to the next sibling holds all files that name this parent.     *)
EnumerationComplete ==
  \A id \in Ids : \A S \in SUBSET Ids :
    /\ FirstChild(id) # 0 => FirstChild(id) \in S
    /\ \A s \in S : NextSibling(s) # 0 => NextSibling(s) \in S
    => {k \in Ids : files[k].parent = id} \subseteq S

(* So an enumeration shows a directory's children, all of them, and ends. *)
EnumerationExact == EnumerationSound /\ EnumerationComplete

(* A file that IsValid accepts is accepted for ever, with its path and its *)
(* parent: what HandleTable relies on for handles that stay open.          *)
KnownForever ==
  [][\A id \in FileIDs : Known(id) =>
       /\ Known(id)'
       /\ files'[id].path = files[id].path
       /\ files'[id].parent = files[id].parent]_vars

(* The files a recursive listing visits, starting at the root. *)
Listed ==
  {id \in Ids : \A S \in SUBSET Ids :
     /\ 1 \in S
     /\ \A s \in S : /\ FirstChild(s) # 0 => FirstChild(s) \in S
                     /\ NextSibling(s) # 0 => NextSibling(s) \in S
     => id \in S}

Tree == INSTANCE PathTree WITH shown <- {files[id].path : id \in Listed}

(* The linked entries implement a growing tree of paths. *)
ImplementsPathTree == Tree!Spec
=============================================================================
