----------------------------- MODULE RDCArchive -----------------------------
(***************************************************************************)
(* RDCExporter writes an archive with Builder_v1 and RDCContainer mounts   *)
(* one with Reader_v1: a header, the contents of the files, six sections,  *)
(* the section table and, last, the footer that makes the file an archive. *)
(*                                                                         *)
(* The builder writes through a stdio stream.  Every block is preceded by  *)
(* a seek to the end, which flushes what was written before: the disk      *)
(* holds Cut(file, flushed), all but the block written last.  When the     *)
(* disk is full the flush keeps a part of the pending bytes, drops the     *)
(* rest and fails; room may return at any moment, and the stream then goes *)
(* on behind what it kept.  Another process may look at the disk at any    *)
(* moment, and the exporting one may crash at any moment.                  *)
(***************************************************************************)
EXTENDS BlockFile, Sequences

CONSTANTS
  Lists,          \* the file lists iExporter may have generated
  Contents,       \* the contents GetFileData may return
  ContentSize,    \* the bytes of each
  Archives,       \* the contents that begin and end as an archive does
  NoContent,      \* GetFileData failed, or the entry is not a valid file
  NameBytes,      \* bytes of one name in the string table
  PointerSpace,   \* a FilePointer holds locations modulo this (2^32)
  MaxExports,     \* bound: exports started
  MaxFills        \* bound: how often the disk fills

Entry == {"file", "directory"}

ASSUME RDCAssumption ==
  /\ Lists \subseteq Seq(Entry)
  /\ ContentSize \in [Contents -> Nat]
  /\ Archives \subseteq Contents
  /\ NoContent \notin Contents
  /\ NameBytes \in Nat
  /\ PointerSpace \in Nat \ {0}
  /\ MaxExports \in Nat /\ MaxFills \in Nat

VARIABLES
  file,      \* the archive as the builder's stream sees it
  flushed,   \* how many of its bytes have left the stream's buffer
  full,      \* no more bytes fit on the disk
  fills,     \* how often the disk has filled
  phase,     \* where Export is: one of Phases
  list,      \* m_FileList without its two leading entries
  given,     \* the content PushOffsetDataBlock took for each entry
  blocks,    \* blocktable: location and size of each entry's content
  sections,  \* the block of each section written so far
  table,     \* footer.SectionTableBlock
  next,      \* the entry or the section that comes next
  opened,    \* Builder's m_Flags.Opened
  result,    \* what the last export returned
  exports    \* exports started

vars == <<file, flushed, full, fills, phase, list, given, blocks, sections, table,
          next, opened, result, exports>>

Phases  == {"idle", "header", "files", "sections", "footer", "close", "failed"}
Results == {"None", "Sucess", "FatalError", "LocalFileWriteError", "Terminated"}

NoBlock == [at |-> 0, size |-> 0]
Block   == [at : 0 .. PointerSpace - 1, size : Nat]

HeaderSize == 16
FooterSize == 40
TableSize  == 280

(* The sections in the order Export creates them.  RawData is the run of   *)
(* contents itself: its WriteSection has nothing left to write.            *)
Sections == <<"MountEntry", "StringTable", "RawData", "OffsetDataBlockTable",
              "FileStructureTable", "HashTable">>

(* Every table has an entry 0 and one for the root before the files. *)
SectionSize(kind) ==
  CASE kind = "MountEntry"           -> 16
    [] kind = "StringTable"          -> 1 + NameBytes * Len(list)
    [] kind = "RawData"              -> 0
    [] kind = "OffsetDataBlockTable" -> 32 * (Len(list) + 2)
    [] kind = "FileStructureTable"   -> 16 * (Len(list) + 2)
    [] kind = "HashTable"            -> 4 * (Len(list) + 2)

(* Names, structure and hashes are functions of the list. *)
Payload(kind) ==
  CASE kind = "OffsetDataBlockTable" -> <<kind, blocks>>
    [] kind = "MountEntry"           -> <<kind>>
    [] OTHER                         -> <<kind, list>>

Init ==
  /\ file = EmptyFile
  /\ flushed = 0
  /\ full = FALSE
  /\ fills = 0
  /\ phase = "idle"
  /\ list = <<>>
  /\ given = <<>>
  /\ blocks = <<>>
  /\ sections = <<>>
  /\ table = NoBlock
  /\ next = 1
  /\ opened = FALSE
  /\ result = "None"
  /\ exports = 0
-----------------------------------------------------------------------------
(* The stream. *)

Disk == Cut(file, flushed)

(* How much of what is pending in f may reach the disk: none of it, whole  *)
(* blocks of it, or all of it but the last byte.                           *)
CutPoints(f, low) ==
  {n \in {low, f.size - 1} \cup {b.at + b.size : b \in f.blocks} :
     low =< n /\ n < f.size}

(* fseek: what was pending is on the disk, or partly dropped. *)
Flush ==
  IF full /\ flushed < file.size
  THEN {[file |-> Cut(file, n), ok |-> FALSE] : n \in CutPoints(file, flushed)}
  ELSE {[file |-> file, ok |-> TRUE]}

(* WriteAtEnd, its seek done: the block waits in the buffer, or does not   *)
(* fit in it and fails at once.                                            *)
Appended(f, data, n) ==
  LET w == Written(f, data, n)
  IN  {[file |-> w, flushed |-> f.size, ok |-> TRUE]} \cup
      {[file |-> Cut(w, c), flushed |-> c, ok |-> FALSE] :
         c \in IF full THEN CutPoints(w, f.size) ELSE {}}

(* BlockProcessor::WriteBlock.  The location is what GetSize returns, 0    *)
(* when its seek fails; the seek of WriteAtEnd then has nothing to flush.  *)
Location(f) == IF f.ok THEN f.file.size % PointerSpace ELSE 0

(* Faulty: the size is asked for once the block is written. *)
WriteBlockThenLocate(data, n) ==
  UNION {{[file |-> w.file, flushed |-> w.flushed, ok |-> w.ok,
           at |-> w.file.size % PointerSpace] :
            w \in Appended(f.file, data, n)} : f \in Flush}

WriteBlock(data, n) ==
  UNION {{[file |-> w.file, flushed |-> w.flushed, ok |-> w.ok, at |-> Location(f)] :
            w \in Appended(f.file, data, n)} : f \in Flush}
-----------------------------------------------------------------------------
(* BeginFile truncates the file and writes the header.                     *)
BeginFile(l) ==
  /\ phase = "idle"
  /\ exports < MaxExports
  /\ exports' = exports + 1
  /\ file' = Written(EmptyFile, <<"header">>, HeaderSize)
  /\ flushed' = 0
  /\ phase' = "header"
  /\ list' = l
  /\ given' = [i \in 1 .. Len(l) |-> NoContent]
  /\ blocks' = [i \in 1 .. Len(l) |-> NoBlock]
  /\ sections' = [i \in 1 .. Len(Sections) |-> NoBlock]
  /\ table' = NoBlock
  /\ next' = 1
  /\ opened' = TRUE
  /\ result' = "None"
  /\ UNCHANGED <<full, fills>>

(* The sections are created; RawData asks for the size at once, to know    *)
(* where the contents begin, and nobody looks whether its seek failed.     *)
CreateRawDataSection ==
  /\ phase = "header"
  /\ \E f \in Flush :
       /\ file' = f.file
       /\ flushed' = f.file.size
       /\ sections' = [i \in 1 .. Len(Sections) |->
                         IF Sections[i] = "RawData" THEN [at |-> Location(f), size |-> 0]
                         ELSE NoBlock]
  /\ phase' = "files"
  /\ UNCHANGED <<full, fills, list, given, blocks, table, next, opened, result, exports>>

(* The file cannot be created, or this builder still has one open. *)
BeginFileRefused ==
  /\ phase \in {"idle", "failed"}
  /\ result' = "LocalFileWriteError"
  /\ UNCHANGED <<file, flushed, full, fills, phase, list, given, blocks, sections,
                 table, next, opened, exports>>

(* The loop over the input files.  What cannot be read or written is only  *)
(* logged: the entry keeps an empty block, or a block with nothing in it.  *)
ExportEntry ==
  /\ phase = "files"
  /\ next =< Len(list)
  /\ next' = next + 1
  /\ \/ UNCHANGED <<file, flushed, given, blocks>>
     \/ /\ list[next] = "file"
        /\ \E c \in Contents :
             \E w \in WriteBlock(<<"content", c>>, ContentSize[c]) :
               /\ file' = w.file
               /\ flushed' = w.flushed
               /\ given' = [given EXCEPT ![next] = IF w.ok THEN c ELSE NoContent]
               /\ blocks' = [blocks EXCEPT ![next] =
                               [at |-> w.at, size |-> ContentSize[c]]]
  /\ UNCHANGED <<full, fills, phase, list, sections, table, opened, result, exports>>

(* CloseFile starts: WriteSections takes the sections in order. *)
CloseFile ==
  /\ phase = "files"
  /\ next > Len(list)
  /\ phase' = "sections"
  /\ next' = 1
  /\ UNCHANGED <<file, flushed, full, fills, list, given, blocks, sections, table,
                 opened, result, exports>>

(* A failed write ends CloseFile with Opened still set. *)
Fail(w) ==
  /\ file' = w.file
  /\ flushed' = w.flushed
  /\ phase' = "failed"
  /\ result' = "FatalError"

WriteSection ==
  /\ phase = "sections"
  /\ next =< Len(Sections)
  /\ \/ /\ Sections[next] = "RawData"
        /\ next' = next + 1
        /\ UNCHANGED <<file, flushed, phase, sections, result>>
     \/ /\ Sections[next] # "RawData"
        /\ \E w \in WriteBlock(Payload(Sections[next]), SectionSize(Sections[next])) :
             \/ /\ w.ok
                /\ file' = w.file
                /\ flushed' = w.flushed
                /\ sections' = [sections EXCEPT ![next] =
                                  [at |-> w.at, size |-> SectionSize(Sections[next])]]
                /\ next' = next + 1
                /\ UNCHANGED <<phase, result>>
             \/ /\ ~w.ok
                /\ Fail(w)
                /\ UNCHANGED <<sections, next>>
  /\ UNCHANGED <<full, fills, list, given, blocks, table, opened, exports>>

(* WriteFileFooter, first half: the table of all the sections. *)
WriteSectionTable ==
  /\ phase = "sections"
  /\ next > Len(Sections)
  /\ \E w \in WriteBlock(<<"table", sections>>, TableSize) :
       \/ /\ w.ok
          /\ file' = w.file
          /\ flushed' = w.flushed
          /\ table' = [at |-> w.at, size |-> TableSize]
          /\ phase' = "footer"
          /\ UNCHANGED result
       \/ /\ ~w.ok
          /\ Fail(w)
          /\ UNCHANGED table
  /\ UNCHANGED <<full, fills, list, given, blocks, sections, next, opened, exports>>

(* WriteFileFooter, second half: here the seek belongs to the write. *)
WriteFooter ==
  /\ phase = "footer"
  /\ \E f \in Flush :
       \/ /\ ~f.ok
          /\ Fail([file |-> f.file, flushed |-> f.file.size])
       \/ /\ f.ok
          /\ \E w \in Appended(f.file, <<"footer", table>>, FooterSize) :
               \/ /\ w.ok
                  /\ file' = w.file
                  /\ flushed' = w.flushed
                  /\ phase' = "close"
                  /\ UNCHANGED result
               \/ ~w.ok /\ Fail(w)
  /\ UNCHANGED <<full, fills, list, given, blocks, sections, table, next, opened, exports>>

(* The rest of CloseFile: fclose flushes, and its answer is not looked at. *)
ReleaseDevice ==
  /\ phase = "close"
  /\ \E f \in Flush : file' = f.file /\ flushed' = f.file.size
  /\ phase' = "idle"
  /\ opened' = FALSE
  /\ result' = "Sucess"
  /\ UNCHANGED <<full, fills, list, given, blocks, sections, table, next, exports>>

(* A builder whose CloseFile failed is destroyed: ~Builder calls CloseFile *)
(* again, which calls the pure virtual WriteSections; the program ends     *)
(* with nothing flushed.                                                   *)
DestroyBuilder ==
  /\ phase = "failed"
  /\ opened
  /\ file' = Disk
  /\ phase' = "idle"
  /\ opened' = FALSE
  /\ result' = "Terminated"
  /\ UNCHANGED <<flushed, full, fills, list, given, blocks, sections, table, next, exports>>

(* The process dies; the buffer may have been written in part. *)
Crash ==
  /\ phase # "idle"
  /\ \E n \in {file.size} \cup CutPoints(file, flushed) :
       /\ file' = Cut(file, n)
       /\ flushed' = n
  /\ phase' = "idle"
  /\ opened' = FALSE
  /\ result' = "None"
  /\ UNCHANGED <<full, fills, list, given, blocks, sections, table, next, exports>>

(* The disk fills, and has room again, at any time. *)
DiskFills ==
  /\ ~full
  /\ fills < MaxFills
  /\ full' = TRUE
  /\ fills' = fills + 1
  /\ UNCHANGED <<file, flushed, phase, list, given, blocks, sections, table,
                 next, opened, result, exports>>

DiskIsCleared ==
  /\ full
  /\ full' = FALSE
  /\ UNCHANGED <<file, flushed, fills, phase, list, given, blocks, sections, table,
                 next, opened, result, exports>>

Next ==
  \/ \E l \in Lists : BeginFile(l)
  \/ BeginFileRefused \/ CreateRawDataSection \/ ExportEntry \/ CloseFile \/ WriteSection
  \/ WriteSectionTable \/ WriteFooter \/ ReleaseDevice \/ DestroyBuilder
  \/ Crash \/ DiskFills \/ DiskIsCleared

Spec == Init /\ [][Next]_vars
-----------------------------------------------------------------------------
(* The reader, at any moment, of what is on the disk. *)

(* Reader::CanOpenFile: a header, and a footer signature at the end.  The  *)
(* contents that are archives have both.                                   *)
Footers(d) == {b \in LastBlocks(d) : b.data[1] = "footer" /\ b.size = FooterSize}

ForeignFooters(d) ==
  {b \in LastBlocks(d) : b.data[1] = "content" /\ b.data[2] \in Archives}

ForeignHeaders(d) ==
  {b \in d.blocks : b.at = 0 /\ b.data[1] = "content" /\ b.data[2] \in Archives}

CanOpenFile(d) ==
  /\ Read(d, 0, HeaderSize) = <<"header">> \/ ForeignHeaders(d) # {}
  /\ d.size >= FooterSize
  /\ Footers(d) \cup ForeignFooters(d) # {}

(* Reader_v1::Open and ReadSectionBlock: from the footer to the section    *)
(* table, from the table to a section; RDCContainer: from the offsets to   *)
(* the content of an entry.                                                *)
ReadBlock(d, block) == Read(d, block.at, block.size)

SectionTable(d) == ReadBlock(d, (CHOOSE b \in Footers(d) : TRUE).data[2])

LoadSection(d, i) == ReadBlock(d, SectionTable(d)[2][i])

GetFileData(d, i) == ReadBlock(d, LoadSection(d, 4)[2][i])

ContentOf(c) == IF ContentSize[c] = 0 THEN Nothing ELSE <<"content", c>>

Readable(d) ==
  /\ SectionTable(d) = <<"table", sections>>
  /\ \A i \in 1 .. Len(Sections) :
       Sections[i] # "RawData" => LoadSection(d, i) = Payload(Sections[i])
  /\ \A i \in 1 .. Len(list) :
       given[i] # NoContent => GetFileData(d, i) = ContentOf(given[i])
-----------------------------------------------------------------------------
TypeOK ==
  /\ file.size \in Nat
  /\ flushed \in 0 .. file.size
  /\ full \in BOOLEAN
  /\ fills \in 0 .. MaxFills
  /\ phase \in Phases
  /\ list \in Seq(Entry)
  /\ DOMAIN given = DOMAIN list
  /\ \A i \in DOMAIN list : given[i] \in Contents \cup {NoContent}
  /\ DOMAIN blocks = DOMAIN list
  /\ \A i \in DOMAIN list : blocks[i] \in Block
  /\ \A i \in DOMAIN sections : sections[i] \in Block
  /\ table \in Block
  /\ next \in Nat \ {0}
  /\ opened = (phase # "idle")
  /\ result \in Results
  /\ exports \in 0 .. MaxExports

(* What GetSize leaves when it lost the block that was pending: the block  *)
(* written next, be it a content, a section or the section table, is said  *)
(* to be at 0, where only the header can be.                               *)
LossIsMarked ==
  \/ table.at = 0
  \/ \E i \in 1 .. Len(Sections) : Sections[i] # "RawData" /\ sections[i].at = 0
  \/ \E i \in 1 .. Len(list) :
       /\ given[i] # NoContent \/ blocks[i].size # 0
       /\ blocks[i].at = 0

(* What another process, or a restarted one, finds on the disk and takes   *)
(* for an archive is a complete one: the footer leads to every section     *)
(* and to every content whose write did not fail.  It is incomplete only   *)
(* when a full disk lost a block and had room again before the next, which *)
(* neither Export nor the reader notices but the archive shows; when the   *)
(* file was cut just after a content that is itself an archive; or when it *)
(* is larger than a FilePointer can address.                               *)
AcceptedIsComplete ==
  CanOpenFile(Disk) /\ ForeignFooters(Disk) = {} /\ Disk.size =< PointerSpace
    => Readable(Disk) \/ LossIsMarked

(* The header was lost: RawData, which comes next, is said to be at 0.     *)
HeaderLost == \E i \in 1 .. Len(Sections) : Sections[i] = "RawData" /\ sections[i].at = 0

(* An export that returns Sucess while there is room on the disk leaves a  *)
(* file the reader accepts, whatever was lost before, unless it was the    *)
(* header: the footer is the very end of the file, no fill follows.        *)
SucessIsAccepted ==
  [][result # "Sucess" /\ result' = "Sucess" /\ ~full
       => Footers(Disk') # {} /\ (CanOpenFile(Disk)' \/ HeaderLost')]_vars
=============================================================================
