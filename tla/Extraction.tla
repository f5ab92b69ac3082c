----------------------------- MODULE Extraction -----------------------------
(***************************************************************************)
(* What becomes of the list an export has made.  FSExporter writes its     *)
(* files into a folder, which may hold other files.  Or it has become an   *)
(* archive, and a file manager opens that.  The RDCReader plugin mounts it *)
(* in a file system that has the file of the log already, adds two files   *)
(* about the archive, and hands out all files one after another, by their  *)
(* ids; each may be extracted before the next one is asked for.            *)
(***************************************************************************)
EXTENDS Exporter

CONSTANTS
  Targets,      \* what the folder may hold before
  Unreadable    \* paths of files whose containers fail to read them

VARIABLES
  target,       \* what is at each path below the folder
  before,       \* history: what was there
  metas,        \* how many calls of RDCMetaModule's AddFile have ended
  iterator,     \* m_TraverseIterator
  extracted     \* the last file extracted: its id, and the content it got

extractionVars == <<target, before, metas, iterator, extracted>>

allVars == <<vars, extractionVars>>

Nothing == [kind |-> "nothing", from |-> 0]

Folder == [kind |-> "folder", from |-> 0]

OtherFile == [kind |-> "file", from |-> 0]

FileWith(id) == [kind |-> "file", from |-> id]

ExtractionInit ==
  /\ Init
  /\ target = [p \in Paths |-> Nothing]
  /\ before = target
  /\ metas = 0
  /\ iterator = 0
  /\ extracted = [id |-> 0, from |-> 0]

(* The list is for FSExporter: WriteLocalFile, into some folder. *)
BeginFolder ==
  /\ phase = "exported"
  /\ phase' = "write"
  /\ at' = 1
  /\ target' \in Targets
  /\ before' = target'
  /\ UNCHANGED <<source, mounted, base, list, stack, metas, iterator, extracted>>

Above(p) == {SubSeq(p, 1, n) : n \in 1 .. Len(p) - 1}

(* create_directories *)
WithFolders(p) == [q \in Paths |-> IF q \in Above(p) THEN Folder ELSE target[q]]

(* Faulty: what cannot be read ends the export. *)
WriteOrGiveUp ==
  LET id == list[at].vfs
      p == files[id].path
  IN  /\ phase = "write"
      /\ at \in DOMAIN list
      /\ ~\E q \in Above(p) : target[q].kind = "file"
      /\ IF list[at].dir
         THEN at' = at + 1 /\ UNCHANGED target
         ELSE IF p \in Unreadable
         THEN at' = Len(list) + 1 /\ target' = WithFolders(p)
         ELSE at' = at + 1 /\ target' = [WithFolders(p) EXCEPT ![p] = FileWith(id)]
      /\ UNCHANGED <<source, mounted, base, list, stack, phase, before, metas, iterator, extracted>>

(* The next entry.  A file that cannot be read is logged only, and one in   *)
(* whose place there is a folder fails to open unnoticed.                   *)
WriteEntry ==
  LET id == list[at].vfs
      p == files[id].path
  IN  /\ phase = "write"
      /\ at \in DOMAIN list
      /\ list[at].dir \/ ~\E q \in Above(p) : target[q].kind = "file"
      /\ target' = IF list[at].dir THEN target
                   ELSE IF p \in Unreadable \/ target[p].kind = "folder" THEN WithFolders(p)
                   ELSE [WithFolders(p) EXCEPT ![p] = FileWith(id)]
      /\ at' = at + 1
      /\ UNCHANGED <<source, mounted, base, list, stack, phase, before, metas, iterator, extracted>>

(* Where a folder must be there is a file: create_directories throws, and   *)
(* nobody catches it.                                                       *)
WriteThrows ==
  /\ phase = "write"
  /\ at \in DOMAIN list
  /\ ~list[at].dir
  /\ \E q \in Above(files[list[at].vfs].path) : target[q].kind = "file"
  /\ phase' = "stopped"
  /\ UNCHANGED <<source, mounted, base, list, stack, at, extractionVars>>

(* The result is Sucess whatever was not written. *)
WriteEnds ==
  /\ phase = "write"
  /\ at \notin DOMAIN list
  /\ phase' = "written"
  /\ UNCHANGED <<source, mounted, base, list, stack, at, extractionVars>>

-----------------------------------------------------------------------------
(* A file manager opens the archive.  The log is container 1 and has the    *)
(* first file, the archive is container 2.  If its sections cannot be read  *)
(* the result is no other, only that nothing is registered.  If Initialize  *)
(* refuses it the next container, RDCMetaModule's, dies at the assertion    *)
(* about container ids.                                                     *)
OpenArchive ==
  /\ phase = "exported"
  /\ To!AddNew(Log, FALSE, 1, 1)
  /\ owner' = 2
  /\ \/ phase' = "mount" /\ at' = 2
     \/ phase' = "meta" /\ at' = 1
     \/ phase' = "stopped" /\ UNCHANGED at
  /\ UNCHANGED <<source, base, list, stack, extractionVars>>

(* AddFile for the next of RDCMetaModule's two files makes the directory    *)
(* they are in, as container 3, unless there is a file with its path.       *)
ForceDirectory ==
  /\ phase = "meta"
  /\ metas < 2
  /\ To!AddNew(Meta, TRUE, 3, 0)
  /\ UNCHANGED <<source, owner, base, list, stack, phase, at, extractionVars>>

(* Then it makes the file. *)
AddFile ==
  /\ phase = "meta"
  /\ metas < 2
  /\ To!AddNew(MetaFile[metas + 1], FALSE, 3, metas + 1)
  /\ metas' = metas + 1
  /\ UNCHANGED <<source, owner, base, list, stack, phase, at, target, before, iterator, extracted>>

(* "Cannot add child into file!", or the file is there: it is not replaced. *)
AddFileRefused ==
  /\ phase = "meta"
  /\ metas < 2
  /\ To!ValidFile(To!Lookup(Meta)) \/ To!ValidFile(To!Lookup(MetaFile[metas + 1]))
  /\ metas' = metas + 1
  /\ UNCHANGED <<source, mounted, base, list, stack, phase, at, target, before, iterator, extracted>>

(* A directory is there: the search for the next name begins behind a null  *)
(* pointer.                                                                 *)
AddFileCrashes ==
  /\ phase = "meta"
  /\ metas < 2
  /\ To!ValidDirectory(To!Lookup(MetaFile[metas + 1]))
  /\ phase' = "stopped"
  /\ UNCHANGED <<source, mounted, base, list, stack, at, extractionVars>>

(* The archive is open, whatever failed. *)
OpenEnds ==
  /\ phase = "meta"
  /\ metas = 2
  /\ phase' = "open"
  /\ iterator' = 2
  /\ UNCHANGED <<source, mounted, base, list, stack, at, target, before, metas, extracted>>

IsFileValid(id) == To!Known(id)

ReadHeader ==
  /\ phase = "open"
  /\ IF IsFileValid(iterator)
     THEN iterator' = iterator + 1 /\ UNCHANGED phase
     ELSE phase' = "listed" /\ UNCHANGED iterator
  /\ extracted' = [id |-> 0, from |-> 0]
  /\ UNCHANGED <<source, mounted, base, list, stack, at, target, before, metas>>

(* The archive has a file's content for the entry it is registered for.     *)
ContentOf(id) ==
  IF copy[id].cid = 2 /\ ~copy[id].directory /\ ~list[copy[id].cfid].dir
  THEN list[copy[id].cfid].vfs
  ELSE 0

(* Faulty: the file whose header comes next is opened. *)
ProcessNextFile ==
  /\ phase = "open"
  /\ iterator > 2
  /\ extracted' = [id |-> iterator - 1, from |-> IF iterator < copied THEN ContentOf(iterator) ELSE 0]
  /\ UNCHANGED <<source, mounted, base, list, stack, phase, at, target, before, metas, iterator>>

(* PK_EXTRACT for the file of the last header; directories have no content, *)
(* and the content of the log and the files about the archive is not of it. *)
ProcessFile ==
  /\ phase = "open"
  /\ iterator > 2
  /\ extracted' = [id |-> iterator - 1, from |-> ContentOf(iterator - 1)]
  /\ UNCHANGED <<source, mounted, base, list, stack, phase, at, target, before, metas, iterator>>

ExporterStep == Next /\ UNCHANGED extractionVars

OpenSteps ==
  \/ ForceDirectory
  \/ AddFile
  \/ AddFileRefused
  \/ AddFileCrashes
  \/ OpenEnds

OwnSteps ==
  \/ Step /\ UNCHANGED extractionVars
  \/ WriteEntry
  \/ WriteThrows
  \/ WriteEnds
  \/ OpenSteps

ExtractionNext ==
  \/ ExporterStep
  \/ BeginFolder
  \/ WriteEntry
  \/ WriteThrows
  \/ WriteEnds
  \/ OpenArchive
  \/ OpenSteps
  \/ ReadHeader
  \/ ProcessFile

(* Export, mount and OpenArchive are calls: the thread that made them goes  *)
(* on.  The file manager need not ask for anything.                         *)
ExtractionSpec == ExtractionInit /\ [][ExtractionNext]_allVars /\ WF_allVars(OwnSteps)

-----------------------------------------------------------------------------
(* The folder has every file a client could reach, with its content, but    *)
(* for those that cannot be read and those a folder was in the place of;    *)
(* and whatever else it had is as it was, or a file with the same path.     *)
FolderHoldsExport ==
  phase = "written" /\ base = Root =>
    \A p \in Paths \ {Root} :
      LET id == From!Lookup(p)
          exports(q) == Visible(q) /\ ~files[From!Lookup(q)].directory
          below == \E q \in Paths : exports(q) /\ p \in Above(q)
      IN  IF exports(p) /\ p \notin Unreadable /\ before[p].kind # "folder"
          THEN target[p] = FileWith(id)
          ELSE target[p] = IF below THEN Folder ELSE before[p]

(* What is in the archive, if its sections could be read. *)
Archived == IF at = 1 THEN {} ELSE {p \in Paths \ {Root} : Visible(p)}

ArchivedFiles == {p \in Archived : ~files[From!Lookup(p)].directory}

(* The archive has files below a directory with the name of the log's file, *)
(* where they cannot be registered: the mount ends there.                   *)
BelowLog == \E p \in Archived : Log \in Above(p)

(* A file manager that reads headers to the end has seen every path in the  *)
(* archive and those of the log and of the files about the archive (unless  *)
(* the archive has a file where their directory is), no other, and each     *)
(* once.                                                                    *)
HeadersShowArchive ==
  base = Root /\ phase = "listed" =>
    LET shown == {copy[id].path : id \in 2 .. iterator - 1}
    IN  /\ iterator = copied
        /\ \A i, j \in 2 .. iterator - 1 : copy[i].path = copy[j].path => i = j
        /\ ~BelowLog => shown = Archived \cup {Log, Meta} \cup
                          (IF Meta \in ArchivedFiles THEN {} ELSE {MetaFile[1], MetaFile[2]})

(* What it extracts after the header of a file of the archive is that       *)
(* file's content, and after any other header nothing of the archive.       *)
ExtractsWhatIsNamed ==
  base = Root /\ extracted.id # 0 =>
    LET p == copy[extracted.id].path
    IN  /\ extracted.from \in {0, From!Lookup(p)}
        /\ ~BelowLog => (extracted.from # 0) = (p \in ArchivedFiles)

ManagerSeesExport == HeadersShowArchive /\ ExtractsWhatIsNamed

Busy == {"scan", "mount", "write", "meta"}

(* Every call ends: the walk, and then writing the files, mounting the      *)
(* archive or opening it; or the process stopped.                           *)
ExportEnds == phase \in Busy ~> phase \notin Busy
=============================================================================
