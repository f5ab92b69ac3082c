------------------------------ MODULE Exporter ------------------------------
(***************************************************************************)
(* iExporter lists the files of a virtual file system, walking down from a *)
(* directory, and RDCContainer registers such a list in another one, where *)
(* the archive made of it is mounted: alone here, beside other containers  *)
(* in Extraction.  (What the archive does to the list on the way is in     *)
(* RDCArchive: nothing.)                                                   *)
(*                                                                         *)
(* The two file tables are FileTables; the first is in whatever state its  *)
(* containers brought it.  An entry of the list is registered by the hash  *)
(* of its path, kept from the first table, below the file that the entry   *)
(* of its parent was registered as.                                        *)
(***************************************************************************)
EXTENDS Integers, Sequences

CONSTANTS Names, Paths, NoPath, MaxFiles   \* as in FileTable

VARIABLES
  files, allocated, aborted,    \* the FileTable that is exported
  copy, copied, copyAborted,    \* the FileTable the archive is mounted in
  base,                         \* the directory that is exported
  list,                         \* m_FileList, from the root entry on
  stack,                        \* the open calls of ScanFid
  owner,                        \* the container the archive is mounted as
  phase, at                     \* how far the call is; the entry to register

source == <<files, allocated, aborted>>

mounted == <<copy, copied, copyAborted, owner>>

vars == <<source, mounted, base, list, stack, phase, at>>

(* What other containers have in the table the archive is mounted in. *)
Log == <<"$Log">>

Meta == <<"$Meta">>

MetaFile == <<<<"$Meta", "$FileHeader">>, <<"$Meta", "$SectionTable">>>>

Added == {Log, Meta, MetaFile[1], MetaFile[2]}

(* The list can be as long as the table and has an index for each file. *)
From == INSTANCE FileTable WITH ContainerIDs <- {1}, ContainerFileIDs <- {}

To == INSTANCE FileTable WITH files <- copy, allocated <- copied, aborted <- copyAborted,
                              Paths <- Paths \cup Added, MaxFiles <- MaxFiles + 4,
                              ContainerIDs <- 1 .. 3, ContainerFileIDs <- 1 .. MaxFiles + 1

ASSUME ExporterAssumption ==
  /\ From!Root \in Paths /\ NoPath \notin Paths \cup Added
  /\ \A p \in Paths : p \in Seq(Names) /\ \A k \in 1 .. Len(p) : SubSeq(p, 1, k) \in Paths
  /\ MaxFiles \in Nat \ {0}

Root == From!Root

Entry == [vfs : From!FileIDs, parent : 0 .. MaxFiles, dir : BOOLEAN]

Init ==
  /\ From!Init
  /\ To!Init
  /\ base = Root
  /\ list = << >>
  /\ stack = << >>
  /\ owner = 0
  /\ phase = "idle"
  /\ at = 0

(* Containers and clients work before the export. *)
Work ==
  /\ phase = "idle"
  /\ From!Next
  /\ UNCHANGED <<mounted, base, list, stack, phase, at>>

(* GenerateFileList up to the first ScanFid; without a directory it fails.  *)
(* A handle can be opened for a deleted directory, and it still is one.     *)
GenerateFileList(p) ==
  LET id == From!Lookup(p)
  IN  /\ phase = "idle"
      /\ ~aborted
      /\ From!Known(id)
      /\ files[id].directory
      /\ base' = p
      /\ list' = <<[vfs |-> id, parent |-> 0, dir |-> TRUE]>>
      /\ stack' = <<[child |-> From!FirstChild(id), index |-> 1]>>
      /\ phase' = "scan"
      /\ UNCHANGED <<source, mounted, at>>

Top == stack[Len(stack)]

(* The call of ScanFid goes on to the next sibling. *)
Advanced == [stack EXCEPT ![Len(stack)].child = From!NextSibling(Top.child)]

(* HandleEnumerateChildren passes over what is not valid. *)
SkipInvalid ==
  /\ phase = "scan"
  /\ Top.child # 0
  /\ ~files[Top.child].valid
  /\ stack' = Advanced
  /\ UNCHANGED <<source, mounted, base, list, phase, at>>

(* Faulty: every file is listed as one of the root. *)
NewFileInRoot(id) ==
  [vfs |-> id, parent |-> 1, dir |-> files[id].directory]

(* The entry of a child. *)
NewFile(id) ==
  [vfs |-> id, parent |-> Top.index, dir |-> files[id].directory]

(* ScanFid for the child, under the index of the entry it gets. *)
Descend(id) == [child |-> From!FirstChild(id), index |-> Len(list) + 1]

(* The handler: the child gets an entry, and its own children are listed    *)
(* before its siblings if it is a directory.                                *)
VisitChild ==
  LET id == Top.child
  IN  /\ phase = "scan"
      /\ id # 0
      /\ files[id].valid
      /\ base = Root
      /\ list' = Append(list, NewFile(id))
      /\ stack' = IF files[id].directory
                  THEN Append(Advanced, Descend(id))
                  ELSE Advanced
      /\ UNCHANGED <<source, mounted, base, phase, at>>

(* Below any other directory the hashes would have to be made anew: the     *)
(* handler's assertion fails.                                               *)
VisitAsserts ==
  /\ phase = "scan"
  /\ Top.child # 0
  /\ files[Top.child].valid
  /\ base # Root
  /\ phase' = "stopped"
  /\ UNCHANGED <<source, mounted, base, list, stack, at>>

(* Faulty: the scan of a directory begins again. *)
ReturnFromScanAgain ==
  /\ phase = "scan"
  /\ Top.child = 0
  /\ stack' = [stack EXCEPT ![Len(stack)].child = From!FirstChild(list[Top.index].vfs)]
  /\ UNCHANGED <<source, mounted, base, list, phase, at>>

(* A call of ScanFid returns; with the first one the list is complete. *)
ReturnFromScan ==
  /\ phase = "scan"
  /\ Top.child = 0
  /\ stack' = SubSeq(stack, 1, Len(stack) - 1)
  /\ phase' = IF Len(stack) = 1 THEN "exported" ELSE phase
  /\ UNCHANGED <<source, mounted, base, list, at>>

(* The archive is mounted alone in another file system: as container 1. *)
Mount ==
  /\ phase = "exported"
  /\ phase' = "mount"
  /\ at' = 2
  /\ owner' = 1
  /\ UNCHANGED <<source, copy, copied, copyAborted, base, list, stack>>

PathOf(k) == files[list[k].vfs].path

(* m_GlobalIndex: what an entry before this one was registered as. *)
GlobalIndex(k) == IF k = 1 THEN 1 ELSE To!Lookup(PathOf(k))

(* The file an entry is registered below; 0 would be a null pointer. *)
ParentID(k) ==
  LET i == list[k].parent
  IN  IF i = 0 THEN 1 ELSE IF i < k THEN GlobalIndex(i) ELSE 0

(* AllocFile, for a path that has no file. *)
CanAlloc(k) == To!ValidDirectory(ParentID(k)) /\ To!Room

Alloc(k) ==
  /\ To!Lookup(PathOf(k)) = 0
  /\ CanAlloc(k)
  /\ copy' = [copy EXCEPT
       ![copied] = To!Made(To!NewFile(PathOf(k), ParentID(k), owner), list[k].dir, k),
       ![ParentID(k)].first = copied]
  /\ copied' = copied + 1
  /\ UNCHANGED copyAborted

(* RegisterStructureTable registers the next entry. *)
RegisterEntry ==
  /\ phase = "mount"
  /\ at \in DOMAIN list
  /\ Alloc(at) \/ To!RegisterOver(PathOf(at), list[at].dir, owner, at)
  /\ at' = at + 1
  /\ UNCHANGED <<source, owner, base, list, stack, phase>>

(* The archive's own file system is all there is, or the plugin goes on. *)
MountEnds(result) == phase' = IF owner = 1 THEN result ELSE "meta"

(* "Failed to allocate file!": what was registered before stays. *)
RegisterFails ==
  /\ phase = "mount"
  /\ at \in DOMAIN list
  /\ To!Lookup(PathOf(at)) = 0
  /\ ~CanAlloc(at)
  /\ MountEnds("refused")
  /\ UNCHANGED <<source, mounted, base, list, stack, at>>

MountSucceeds ==
  /\ phase = "mount"
  /\ at \notin DOMAIN list
  /\ MountEnds("done")
  /\ UNCHANGED <<source, mounted, base, list, stack, at>>

Step ==
  \/ SkipInvalid
  \/ VisitChild
  \/ VisitAsserts
  \/ ReturnFromScan
  \/ RegisterEntry
  \/ RegisterFails
  \/ MountSucceeds

Next ==
  \/ Work
  \/ \E p \in Paths : GenerateFileList(p)
  \/ Mount
  \/ Step

-----------------------------------------------------------------------------
(* A client of the first file system that enumerates directories from the  *)
(* root on gets to p.  It gets to what is in the root even when the root   *)
(* itself was deleted: it can be opened, and it has its children.          *)
Visible(p) ==
  \A n \in 1 .. Len(p) :
    LET id == From!Lookup(SubSeq(p, 1, n))
    IN  id # 0 /\ files[id].valid /\ (n < Len(p) => files[id].directory)

(* What a client could reach before the export is what the mounted archive  *)
(* shows: the same paths, as files or directories as they were, each in the *)
(* directory its path says and with the content of the file that had it.    *)
RoundTrip ==
  phase = "done" /\ base = Root =>
    \A p \in Paths \ {Root} :
      LET id == To!Lookup(p)
          old == From!Lookup(p)
      IN  /\ (id # 0) = Visible(p)
          /\ id # 0 => /\ copy[id].valid
                       /\ copy[id].directory = files[old].directory
                       /\ copy[id].parent = To!Lookup(To!Parent(p))
                       /\ copy[id].cfid \in DOMAIN list
                       /\ list[copy[id].cfid].vfs = old
=============================================================================
