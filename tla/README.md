# A formal model of starVFS

starVFS is a virtual file system in C++: directories, archives and generated
files ("containers") are mounted over one another into one tree of files, which
clients open through handles, from a Lua shell or over a socket.  This directory
holds TLA+ modules translated from that code, the TLC configurations that check
them on small instances, and TLAPS proofs of what matters most for every size.

Paths below are relative to `src/core` unless they say otherwise.

## 1. The system

| Component | State it keeps | Operations | Correct if |
|---|---|---|---|
| `HandleTable`, `FileHandle` | an array of slots with generation counters, the slot to try next; in each client object an owner, a slot and a generation | open, clone, copy, move, swap, close, destroy | an open object never reaches another's or a closed file; slots are not leaked; allocation fails only when the table is full |
| `HashFileTable` | a sorted array of path hashes with file ids | Lookup, Add, Resize | sorted, in bounds, every file found, nothing rebound |
| `FileTable` | files in an array by id: flags, parent, first child, next sibling, owner container, id in the container, size | AllocFile, RegisterStructureTable, DeleteFile, lookup, growth | the links form one tree, every known file is on its directory's list, ids and paths stay bound |
| `Container/FileTableInterface` | a container's id | AllocFileID, ForceAllocFileID, CreateFile, CreateDirectory, DeleteFile, RegisterFileStructure, EnsureReserve | a container changes what it owns |
| `StarVFS` | the mounted containers by id, modules | mount, reload, close, open, create, delete | container ids agree between the file table and the list of containers |
| `Container/*` | their own lists of files | ReloadContainer, RegisterContent, AllocateFile, GetFileData, SetFileData | reading a file by its id in the container gives that file |
| `StringTable` | the names, one after another in one array of bytes that grows | add, get | a file's name is read back as it was written |
| `Exporter/iExporter` | a list of files | GenerateFileList, WriteLocalFile | lists what a client can reach, parents first |
| `RDC/*`, `Exporter/RDCExporter` | a file of aligned blocks, sections, a section table, a footer | Builder, BlockProcessor, Reader | what is accepted is complete; what was written is read back |
| `Exporter/FSExporter` | a folder on the disk | export | the folder holds what a client could read, and nothing else changes |
| `RDC/BlockProcessor`, `Utils/ZlibCompression` | a block's descriptor | compress, decompress | what was written is read back |
| `tcplugins/RDCReader`, `RDCMetaModule` | a file manager's position in a mounted archive | open, read header, process file | every file is shown once and extracted with its own content |
| `Module/MetaModule` | four generated files about the file system | enable | they do not get in anything's way |
| `Module/RemoteModule`, `Container/RemoteContainer` | two flags, a server thread, a socket, message buffers | Enable, Disable, serve; Connect, request | nothing is served after Disable; each request gets its own answer |
| `svfs/cli` | the console's loop on Lua's stack, the SIGINT handler and the hook | read, compile, call, print, interrupt | the stack is balanced; SIGINT stops a chunk and nothing else |
| `svfs/arguments`, `svfs/main`, `AttributeMap`, `Register` | the command line turned into one Lua script; one map of attributes | parse, run, mount, set attributes, export | an export sees all that was mounted and has the settings it was given |

**How they interact.** `StarVFS` owns everything.  `CreateContainer` takes a
container id from `FileTable::AllocateInterface`, builds the container around a
`FileTableInterface` with that id, and `MountContainer` initialises it, lets a
callback cancel it, adds it to the list, and calls `ReloadContainer` and
`RegisterContent`; these call back into the file table for every entry.
`FileTable` keeps `HashFileTable` beside its own array, and grows both in one
function.  A `FileHandle` names a slot of `HandleTable`, whose data names a file
id, whose file names a container and the container's own id of the file, from
which the content is read.  An exporter opens handles to enumerate directories
and writes an archive that `RDCContainer` later mounts.  A remote module answers
requests from a thread of its own, through the same calls and without a lock.
The command-line program makes all these calls from a Lua script that it writes
itself, and then from what the user types.

**What is hard.**  Nearly everything runs on one thread, and it is the long
sequences of legal calls that are hard to test: overlays of mounts, files that
are deleted and made again, objects assigned over open ones.  Failure is met in
two places: a mount that fails in the middle, and an export whose disk fills or
whose process dies.  Concurrency is in the remote module, and in the signal
handler of the console, which may come between any two steps of its loop.
Assertions (`StarVFSAssert` is `assert`) stop the process in the builds that
have them. `PROJECT.json` lists the hazards at their lines.

## 2. The modules

| Module | Models | Composes |
|---|---|---|
| `FileRefs` | the abstract handle: a value that refers to an open file or to nothing | |
| `HandleTable` | HandleTable.cpp, FileHandle.cpp/.h | implements `FileRefs` |
| `PathIndex` | the abstract index: an injective map from hashes to files that grows | |
| `HashFileTable` | HashFileTable.cpp and the capacity side of FileTable.cpp | implements `PathIndex` |
| `StringTable` | StringTable.h | |
| `FileNames` | the name each new file gets | composes `HashFileTable` and `StringTable` |
| `PathTree` | the abstract tree: a set of paths that grows downwards | |
| `FileTable` | FileTable.cpp's links and flags, FileTableInterface.cpp | implements `PathTree`; uses `PathIndex`'s lookup as a map |
| `StarVFS` | StarVFS.cpp, FolderContainer, VirtualFileContainer, RDCContainer::RegisterContent | an INSTANCE of `FileTable`, and implements it |
| `Clients` | OpenFile, reading, writing, sizes and the disk behind folders | composes `StarVFS` and `FileRefs` |
| `BlockFile` | the operators of BlockFileDevice: alignment, positions, what a read returns | |
| `RDCArchive` | RDCExporter, Builder, BlockProcessor, Sections, Reader | uses `BlockFile` |
| `BlockCodec` | BlockProcessor's and ZlibCompression's way from a text to a block and back | evaluated with `RDCArchive` |
| `Exporter` | iExporter, RegisterStructureTable into another file system | two INSTANCEs of `FileTable` |
| `Extraction` | FSExporter; tcplugins/RDCReader over a mounted archive | extends `Exporter` |
| `RemoteModule` | RemoteModule, RemoteHeaders, RemoteContainer's connection | |
| `LuaConsole` | svfs/cli.cpp | |
| `InitScript` | svfs/arguments.cpp, main.cpp, luainterface.cpp, AttributeMap.h, MetaModule's mount | |
| `Shell` | svfs as a process | composes `InitScript` and `LuaConsole` |
| `MC*` | values of the constants for TLC | the module they are named after |
| `HandleTableProofs`, `FileTableProofs`, `RemoteModuleProofs` | theorems about the module they are named after | |
| `FileNamesProofs` | theorems about `HashFileTable` and `FileNames` | |
| `ClientsProofs` | theorems about `StarVFS` and `Clients` | an INSTANCE of `FileTableProofs` |
| `RDCArchiveProofs` | theorems about `BlockCodec` and `RDCArchive` | |
| `ExtractionProofs` | theorems about `Exporter` and `Extraction` | an INSTANCE of `FileTableProofs` |
| `ShellProofs` | theorems about `LuaConsole`, `InitScript` and `Shell` | |

Definitions whose comment begins with "Faulty:" are variants of the definition
after them, with an error such code could have; no specification uses them.
`PROJECT.json` names, for every property, a variant that violates it.

### State and actions

* **HandleTable.**  `slots`, `last` and `handle` are `m_HandleTable`,
  `m_LastAllocatedID` and the client's objects.  Constructors and assignments
  are `CloneTo` and `MoveAssign` into an empty or an open object; the destructor
  is `Destroy`.  `valid` is the environment: the ids `FileTable::IsValid`
  accepts, which only grow (proved as `FilesStayKnown` of `FileTable`).  A null
  result of `AllocHandle` is dereferenced by its callers: `crashed`.
  `CloseFirst` states a discipline of clients, never to assign over an open
  object.
* **HashFileTable.**  `entry` is the array with its spare element, 1-based like
  the ids; `Add` performs the insertion by its result, `Inserted`, and the
  property `SwapLoopInserts` says that the code's loop of swaps (`SwapLoop`)
  gives it.  `AllocFile` grows the file table and the index when the code does.
  `written` is the entry of the file table that was cleared for the newest file.
  Ids run out at `FileLimit`; `IdSpace` is the width of `FileID` (2^16).
* **FileTable.**  One record for each file.  An action is one call of
  FileTableInterface, with all it does to the table: `AddNew`, `PutOver`,
  `PutAborts` (the `assert(false)` of CreateFile over a directory and of
  CreateDirectory over a file), `RegisterOver`, `DeleteFile`.  A path is the
  sequence of its names; looking up the file with a path stands for the index.
* **StarVFS.**  `call` is the call in progress and its loop counter, so a mount
  is one step per entry.  A folder's scan yields any well-formed content of a
  set; an archive's table begins with the root entry.  A virtual container
  registers files later, forcing directories component by component.  A mount
  that is refused uses up a container id (`interfaces`), and the next one stops
  at ReloadContainer's assertion.
* **FileNames.**  `StringTable` keeps the bytes of the names; a name is a value
  with a length, and reading one back follows the bytes up to the terminator.
  The table doubles once when a name does not fit, as the code does.
* **Clients.**  `refs` are the handles as `FileRefs` has them; `disk` is what is
  at each path of a folder, `objects` who keeps the object behind a virtual
  file, `sizes` the text whose length `m_Size` is.  Every step either is a step
  of `StarVFS` with its effect on those, or leaves `StarVFS`'s variables alone
  (proved as `ClientsImplementStarVFS`); so what `StarVFS` says of mounting is
  checked in the same run.  `Create` and `OpenCreated` are the two halves of
  CreateNew, between which `creating` holds the file.
* **RDCArchive.**  `file` is what the process believes to have written,
  `flushed` what has left its stdio buffer, and `Disk` what others see.  `Flush`
  happens where the code seeks; on a full disk it writes any part and drops the
  rest, after which the stream goes on.  The disk may have room again before any
  step, so that one block can be lost and the next ones written.  Phase `header`
  ends with the size RawData asks for when it is created, which is the first
  seek behind the header.  The reader is the operators from
  `CanOpenFile` to `Readable`, over any file.
* **Exporter.**  `stack` holds the open calls of the recursive `ScanFid`.  What
  is exported is any directory the handle opens, also a deleted one, since
  `!h` and `IsDirectory` accept that; its children are listed if they are valid.
  The list is registered entry by entry into the table `copy`, for the container
  `owner`, each below what its parent's entry was registered as (`GlobalIndex`,
  `ParentID`).  Paths are sequences of `Names`, with every prefix a path, as
  `StarVFS` has them; `Added` are those of the plugin's own files.  `Mount` is
  into a table that holds nothing else.
* **Extraction.**  `target` is the folder an export is written into, entry by
  entry; `create_directories` throws where the folder holds a file.  The file
  manager's calls are the plugin's.  `OpenArchive` opens the archive in a file
  system that already has the log's file, `/$Log`, as file 2 of container 1: the
  archive is container 2, and is mounted, or has sections that cannot be read
  (nothing is registered, and OpenArchive goes on), or is refused by Initialize,
  after which RDCMetaModule's container stops at the assertion of
  `mount_drift`.  Then RDCMetaModule, container 3, adds `/$Meta/$FileHeader` and
  `/$Meta/$SectionTable`, one call of AddFile after another (`metas` counts
  them), over whatever the archive has at these paths: it makes the directory or
  takes the one there, it is refused by a file in its place (`AddFileRefused`),
  and runs into a null pointer where a directory has the file's path
  (`AddFileCrashes`).  `iterator` counts ids up from 2 until one is not valid,
  and what is extracted is the id before it.
* **BlockCodec.**  `ProcessOutputBlock` and `ProcessInputBlock` are the outcomes
  of writing and reading a block, with each return code and assertion; zlib is
  external.
* **RemoteModule.**  `thread[t].pc` names the point where the thread is between
  two accesses to shared state: each test of `m_CanRun`, each read and write of
  a message's header or body.  A connection is queued at an open acceptor,
  served, or closed.  `raced` remembers that Enable, Disable or the destructor
  was called while a thread had been created and had not set `m_ThreadRunning`.
  A thread writes an answer part by part; `write_some` blocks (`Takes`) while
  the client has left `Buffers` parts unread and is not reading.
* **LuaConsole.**  `pc` is the place in the loop, `stack` the height of Lua's
  stack above the loop's base, `handler` and `hook` who receives SIGINT and
  whether Lua will raise it.  A chunk may return any number of results, raise an
  error, call exit(), change the prompt, run forever or catch the error.
* **InitScript.**  `script` is the lines still to be run, `mapClass` the class
  whose attributes the one static map has, `exported` what each export found.
  A mount of a file that is no archive does nothing; one of an archive that
  Initialize refuses (`Corrupt`) is remembered in `refused`, and the next mount
  stops the program (`MountAsserts`).
  `Shell` runs it in the state the console then uses.

## 3. What is checked

| Run | Instance | Shows |
|---|---|---|
| `handles` | 3 objects, 3 slots, generations wrap after 2 closes, 2 files | no stale or shared slot, exhaustion only when full; clients that close first leak nothing; handles behave as values (`FileRefs`) |
| `index` | 7 paths with 4 names, the root's hash in the middle, capacity 3, 8 ids, 4 bytes for names | in bounds, found, named; the swap loop inserts; implements `PathIndex`, up to the moment the last id is handed out |
| `index_wrap` | the same with 6 ids | **violation**: the counter wraps and the root is no longer known |
| `files` | 5 paths (two nested), 4 files, 1 container | links, enumeration, ids for ever; implements `PathTree` |
| `clients` | 4 paths, 2 mounts, 3 entries, one handle | every file is routed to its own content; mounts register what they say, and calls end; what is written is read, and nothing else changes; sizes are lengths; handles and the file table are used as `FileRefs` and `FileTable` say |
| `mount_drift` | `StarVFS` alone: 4 paths, 2 mounts, 3 entries | **violation**: a refused mount uses up a container id, the next mount asserts |
| `create_asserts` | the same | **violation**: creating a file over a directory stops the process |
| `rdc` | 2 exports of up to 2 files, one of them ending like an archive; 4 texts for the codec | what is accepted is complete; success is accepted; blocks read back |
| `export` | 7 paths (`/a`, `/a/b` and five with the names of the plugin's files), 4 files, 2 target folders | what was reachable is what the mounted archive shows, what the folder holds, and what a file manager extracts; the walk ends |
| `remote` | 2 threads, 2 connections, 2 requests each, 2 parts of a message in the buffers | one server at a time and none after Disable; answers match; Disable hangs only for want of a client to connect, to send or to read |
| `shell` | command lines with up to 2 mounts (also of a corrupt archive), 2 scripts and 2 exports, any number of lines at the console | Lua's stack is balanced; SIGINT aborts only where it must; exports see every mount and script, and have their settings; a chunk can be stopped |
| `console_end` | the same | **violation**: input that ends inside a statement leaves nothing where `loadline` asserts one value |

**Why the bounds are enough.**  *Handles:* two objects suffice to share a slot
and a third to be the bystander; three slots make the round-robin search pass
used ones and wrap.  *Index:* the capacity starts at 3, so the tables grow
twice, and hashes are added below, between and above those present in every
order; the string table holds 4 bytes, so that a name fits, makes it grow, or is
longer than the grown table.  *Files:* a directory with two children, one
nested, and one path more than there is room for; every deletion and re-creation
as the other kind happens.  *Clients:* two contents that overlay each other with
the same directory, and with a file where the other has a directory, as folders,
as archives, mounted, refused, failed half-way and closed, and a client that
deletes, creates and forces files between the mounts; a third mount adds no new
relation between owners, and the proofs hold for any number.  One handle
suffices, because texts do not depend on the
handle they are read through (how handles interfere is in `HandleTable`); a
nested directory, so that a path can be re-created with the other kind above
another file.  Nobody else changes the disk, no path is registered twice by a
container, and a generated text does not change.  *RDC:* two exports, the second
over what the first left; a file cut at every point a flush can cut it;
`PointerSpace` is small enough for the larger export to exceed what a file
pointer can address; the texts of the codec are empty, shrink, stay as long as
they are, and grow.  *Export:* the root and a directory with a child, deleted,
re-created and swapped for files in every way; a file and a directory, empty or
not, with the name of the log's file and of each of the plugin's directory and
file; a folder that is empty, and one that has a file where the export has a
directory and the reverse.
*Shell:* mounts that can be opened, cannot, and have a quote in their name;
scripts of each kind, alone and in pairs where two objects' attributes matter.
*Remote:* two threads make every race of starting and stopping, two connections
a client that waits in the queue of another's server or comes back; the sizes
lie exactly at, and one byte above, the limit of a message; with room for two
parts a Pong and a header fit, and the body behind them blocks its writer.

**Fairness.**  `Clients` and `Extraction`: weak fairness of the step of the call
in progress, since the calling thread runs on and no step waits for anything; a
client or a file manager need not call again.  `Shell`: weak fairness of the steps the
process takes by itself; none for the user's input, for the end of a chunk that
runs forever, or for SIGINT. `RemoteModule`: weak fairness of each server
thread's steps and of the return of Disable, since the operating system
schedules threads; none for clients, and none for the calls of the program, nor
for errors of `accept`.  A read of an empty stream and a write into full buffers
are not enabled, so fairness grants neither.

**Properties worth a second look.**  `Routed` relates three numberings (global
id, container id, the container's own id) through every overlay.
`EnumerationExact` quantifies over all closed sets, which says without recursion
that following the links misses no child.  `SizeIsLength` says at which steps
the size that cuts the server's answers may become wrong: a write through a
folder, and registering a file that is generated later; every other step keeps
it right.  `StaysReadable` lists the reasons for which a file may stop being
readable.  `DiskFollows`, `NewFileIsEmpty` and `StaysReadable` exempt paths a
folder has had as a file and as a directory (`Rekinded`): the disk still has
what the table deleted, and refuses.  `AbortsOnlyFor` names the one moment in
which SIGINT outside a call leaves a hook behind.  `ExportConfigured` says what
the code does: settings are in force only if their class is the first that was
given any.  `AcceptedIsComplete` speaks of the file another process finds.
It does not say that a loss is noticed, because it is not: when a full disk
drops the block before and has room again, `Export` returns Sucess and the
reader accepts the file.  What it says is that such a loss shows (`LossIsMarked`):
the block written next is said to be at 0, where only the header can be, because
`GetSize` answers 0 for the seek that failed.  It also exempts what the format
cannot tell apart: a file cut behind a stored content that itself ends like an
archive, and a file larger than 2^32 bytes.  `SucessIsAccepted` exempts the
header lost in this way, which RawData's location shows.
`StoppedWhenDisabled`, `AnsweredInOrder` and `GetsWhatItAsked` hold unless `raced`.  The exemption is needed: with it removed, TLC destroys the
module under a thread that is about to start, and, with three threads, has a
server that stopped inside a message, and was enabled again, answer a body as if
it were a header. `DisableReturnsOrClientWaited` says that Disable blocks for
ever only if from some moment on a thread always waits for a client, in
`accept`, in a read, or in a write that the client does not take.
`StackBalanced` speaks of input that does not end inside a statement; that what
does breaks the balance is the violation of `LoadLineAssertion`.
`ExportsSeeEverything` speaks of the exports that are reached: a mount after a
refused one stops the program before them.

### Disagreements found

* `FirstEntryReserved` (FileTable.cpp:21, config.h:22: id 0 is no file): the
  16-bit counter wraps, and the entry cleared just before is past the end of the
  file table, since the request to grow is cut to 16 bits (0) as well.  That
  write is the one access `AccessInBounds` excepts.
* `MountedIdInRange` (StarVFS.cpp:326): the assertion fails after any refused or
  cancelled mount.
* `NeverAsserts` (FileTableInterface.cpp:106, :123): reachable by a client.
* `LoadLineAssertion` (svfs/cli.cpp:280; the comment at :204 says that the caller
  pops the prompt): when the input ends inside a statement, nothing is left on
  Lua's stack, and `report` takes a message that is not there.

## 4. What is proved

For all values of the constants that satisfy the modules' `ASSUME`s, each
component has an inductive invariant (`Init => IInv`, `IInv /\ [Next]_vars =>
IInv'`, and `IInv` implies the properties), with a step for each action.  TLC checks the
same properties, and checked the invariants, on the instances above.

* **HandleTableProofs.**  `IInv` is the type invariant, that used slots name
  known files, that an open object's slot is in use with the object's
  generation, and that no two open objects have one slot.  The last is what
  makes the rest inductive: closing one object must leave the slot of any other
  alone.  From it follow `HandlesOwnTheirSlots` (the generation check that the
  code leaves out could never have failed), `ExhaustionIsReal` (the
  round-robin search visits every slot), `DisciplineFreesSlots` (with
  `CloseFirst`), and `HandlesAreValues`, the refinement of `FileRefs`.
* **FileNamesProofs.**  Until the ids run out, `IInv` couples the counts and the
  capacities of the two tables, says that the memory behind the last entry is
  blank (`Add` reads it), that entries and files are in one-to-one
  correspondence, and that the array is sorted.  When the last id is handed out
  the state is `Wrapped`: the counter is 0, the index is as it was, and nothing
  is allocated any more.  The invariant is that one or the other holds, so
  nothing is assumed of `FileLimit`: `IndexStaysSorted` holds across
  the wrap that `index_wrap` shows, and so do `IndexCorrect` and `IndexIsGrowingMap`
  (refinement of `PathIndex`).  `OnlyLastFileOutOfBounds` names the one access
  outside the arrays: the last id's entry, which no capacity of 16 bits covers.
  `SwapLoopIsInsertion` is about the recursion the loop of swaps is: the array
  with the element behind the end taken to the place where the loop stands, and
  the entries from there on moved up, solves its equation, and by induction
  downwards (the least counterexample, counted from the end) nothing else does.
  For the names, `NamesAreKept` keeps that each file's name lies at its index,
  below `allocated`, where the next one begins; a name longer than a new table
  is the exception that ends it, once, as the property says.
  `NamesImplementIndex` makes the theorems about the index hold of both
  together.
* **FileTableProofs.**  `IInv`: every allocated entry is known, one file for a
  path, parents are smaller and hold the parent's path, links lead to smaller
  siblings of the same directory, and every file is its directory's first child
  or some sibling's next (`OnAList`).  Completeness of enumeration follows by
  taking the largest missed child, and with soundness gives
  `EnumerationsAreExact`.  `FilesStayKnown` is the environment
  assumption of `HandleTable`; `FilesFormTree` is the refinement of `PathTree`.
* **RDCArchiveProofs.**  `IInv`: positions in the file are aligned and below its
  end; every entry, section and table written so far is where its descriptor
  points, or some descriptor points to 0 (`LossesMarked`); the header is on the
  disk or RawData points to 0 (`HeaderKept`); a footer in the file leads over the
  section table and the sections to every content, or a loss is marked; and the
  footer is the last thing written.  The argument: bytes are dropped only by a
  seek that fails; the seek is GetSize's, which then answers 0 for the block
  that follows, or the footer's own, which ends the export; and a file that is
  cut anywhere else has no footer at its end.
  `AcceptedArchivesAreComplete` and `SuccessfulExportsAreAccepted` follow.
  `BlocksReadBack` and `RawSizesAreLengths` are about single blocks, by the
  cases of the mode asked for and of zlib's answer.  They need only that sizes
  fit the descriptor and what the module says about zlib.
* **ClientsProofs, mounting.**  `IInv`: the list of containers is no longer than
  the ids handed out (shorter after a refused mount), owners in the file table
  are on the list, the container that is about to load has the last id and owns nothing yet, a loop
  stays on entries of its container, none but an archive's first is the root,
  and every file is routed.  Ownership of nothing before loading is what makes
  `Routed` inductive: loading replaces all entries at once.  `Routed` is in turn
  what the refinement needs: the path of a new file is built from the entry its
  directory is known by, and only because that has the directory's own path is
  it a path a client may ask for.  `EveryFileIsRouted` and `UsesFileTable` (the
  refinement of `FileTable`) follow; with the latter, what `FileTableProofs`
  proves of the table holds under any mounts.  `MountedEntriesShow` adds
  (`MountInv`) that a path has one file, taken from `FileTableProofs`, that what
  a container has loaded is well-formed, and that each entry the loop has passed
  shows.  A folder's entry keeps showing because a later one of the same folder
  has another path; an archive's may only give way to a directory.
* **ClientsProofs, clients.**  `ClientsInv` relates the table to the disk in both
  directions: what is on a folder's disk has an entry of that kind
  (`DiskListed`), and an entry that a file leads to is on the disk unless the
  folder lists the path as both kinds (`EntriesOnDisk`, which also says that
  below a directory of the disk every entry has something, since that is what
  makes a later creation in it succeed).  A mount writes texts while it scans,
  so the loop's place is in it (`Mounting`), and so is the file between the two
  halves of CreateNew (`Making`).  `FilesAreOnDisk` and `NewFilesAreEmpty`
  follow from it.  The action properties rest on one statement about a step
  (`Kept`): either at most one file reads differently, or all that do have
  become unreadable; a readable file stays so and a size stays a length, but for
  the reasons listed.  It is shown for each action by naming the one file it is
  about; for all others the container, its entry and its text stay (`Still`).
  From it: `OneFileChanges`, `FilesStayReadable`, `SizesStayLengths`, and
  `WritesTouchOne`.  `ClientsUseFileRefs` and `ClientsImplementStarVFS` are the
  refinements of the two modules `Clients` composes.
* **ExtractionProofs.**  The invariant contains `FileTable`'s, and about the walk
  that an open call of `ScanFid` has listed exactly the valid children with a
  greater id than the one it is at (`CallSound`).  That is inductive because
  sibling lists descend in id with no child left out between two of them
  (`NoChildBetween`, by the greatest child that would be passed over), and
  because two open calls are about different directories.  A directory of the
  list has all its children listed or an open call (`ScanSound`), so at the end
  the list is complete: a file a client can reach but no entry is about would
  have a directory of which the same is true, with a smaller id, and so on to
  the root (the least such id).  That the root itself may be deleted changes
  nothing in this: it is the directory the walk begins at, and `Visible` is what
  enumerating from it comes to.  No entry is about a file twice, so the list
  fits a table of the same size; in the table it is registered in, each file is
  that of an entry or of one of the plugin's other containers (`Registered`).
  `NoEntryIsRefused` says that RegisterStructureTable, which tests none of this,
  always finds the parent in its table, as a directory, the path new and room
  left, if the archive is mounted alone; `ExportsRoundTrip` is the comparison of
  the two file systems.  A folder holds what the entries written so far amount to
  (`Written`): files, folders above them, and elsewhere what it had;
  `FoldersHoldExports` follows.  In the plugin's table the log's file comes first,
  so an entry of that path is registered over it, and stays a file even if it is
  a directory (`IsDir`); only files below that path are refused, which ends the
  mount (`BelowLog`), and then less is shown than the archive has.  What
  RDCMetaModule has made or found after each call is in `Opened`, and where the
  file manager is in `Read`.  `ManagersSeeExports` follows, since ids are counted
  up over the table: its two parts are `HeadersShowArchive` (each path once, and
  no other) and `ExtractsWhatIsNamed` (the content is that of the path).  All of
  it is about exports of the root; any other
  directory with a valid child stops at an assertion (the action
  `VisitAsserts`, a hazard).
* **RemoteModuleProofs.**  `IInv`: the types, with who has a connection or a part
  of a message to take; and `FlagTells`: unless a call has overtaken a starting
  thread, a thread that is past its first step has `m_ThreadRunning` set, and
  none is starting while somebody waits for threads.  So whoever finds the flag
  cleared is alone (`FlagClearedAlone`): that is what `Enable` and `Disable`
  rely on.  And the thread that clears the flag was the only one: without the
  uniqueness the flag would say nothing of the others.
  `NoThreadOutlivesDisable` follows, for any number of threads, connections and
  requests, whatever clients do and wherever binding or accepting fails.
  `AnswerInv` is about messages.  A connection has at most two things to be
  answered: the first Ping (`ping`) and one request (`due`), of which the client
  may have sent the header alone (`cut`), since it asks again only when it has
  an answer.  `Agreed` says where they are, in the stream (`Reading`), in the
  thread (`Writing`), in the client (`Asking`) and in the two histories
  (`Counted`); that some such three exist (`Sound`) is inductive while `m_CanRun`
  is set, and after that for a thread that is blocked in a write, which ends with
  the part it has begun (`Kept`).  Any other thread may stop inside a message and
  never answers again, so of it only what was answered already, and what the
  client has not read yet (`Leftover`), is kept: this is enough for
  `AnswersMatch` and `ClientGetsIt`.  A step of one connection leaves the others
  alone because each has its own thread, or is queued at one (`Hosted`).
* **ShellProofs.**  For `LuaConsole`, `Inv` gives the height of the stack, the
  handler and the hook at each place of the loop, for any number of results.
  `ConsoleStackIsBalanced` and `ConsoleAbortsOnlyFor` follow.  For `Shell`,
  `ShellImplementsConsole`: every step of svfs is one of the console or leaves
  it alone, so that both properties hold of the program.
* **ShellProofs, the init script.**  What a line may rely on is where it is in
  the script, and that is put together from the lists of a command line with
  operators of the library (`FlattenSeq`, `SetToSeq`).  So the first part is about
  those: a recursive definition has a solution (`PrefixesExist`) and its value is
  the lists laid end to end (`FlattenLaid`), by the least counterexample; an
  enumerated set lists each of its members (`SettingsListed`).  It ends in
  `Layout`: modules, mounts and scripts stand before the first export, and export
  `e` is a block of its own, the exporter's creation, its settings and its run,
  from `ends[e - 1]` to `ends[e]` (`ScriptLaid`).  `ScriptInv` says that for the
  command line given there is such a layout, `k` lines of which have run and `e`
  exports are done (`Progress`), and what those lines have done: what they
  mounted (`Mounted`), that no script of them raised an error (`RanScripts`),
  whose attributes the one map holds (`ClassSoFar`), the exporter and its
  attributes within a block (`Prepared`), and what each export found
  (`History`); `Phases` is about scripts that do not compile.  The class of the
  map is the reason for most of it: it depends on the first line, of all the
  script, that asks for attributes, and that one may be of the modules or in the
  block of any export (`ClassAt`).  `ShellExportsSeeEverything` and
  `ShellExportConfigured` follow.

**Assumptions.**  Paths are sequences closed under taking prefixes; contents of
folders are well formed (every entry's directory is one of them, paths are
distinct), as a scan of a disk yields; ids, capacities and numbers of things are
positive; nothing is assumed of how many there are.  The lists of a command line
are finite, and so is what is set of an export; every exporter and RemoteModule
have a list of attributes, "nil" and "none" name no class, and no corrupt archive
is among the containers that can be mounted (`ShellAssumption`).

**Only model-checked.**  The liveness properties (`CallsReturn`, `ExportEnds`,
`DisableReturnsOrClientWaited`, `InterruptStops`) need fairness and ENABLED, which
the provers do not have, and stay with TLC.  The four violations are single
behaviours that TLC finds.

## 5. What is left out, and why

* *Mount points.*  Containers can be given one, but FileTableInterface ignores
  it: everything is mounted at the root.
* *Path hashes that collide*, of which the second is dropped by `Add`; a path is
  its own hash everywhere but in `HashFileTable`.
* *Container ids beyond 255* wrap; the number of mounts is bounded below that.
* *Names, sizes, type hashes, contents.*  Values without structure, but for
  names' lengths in `StringTable` and texts in `Clients`.
* *Reloading a mounted folder*, which nothing calls, and the content of a closed
  container, which `CloseContainer` leaks by `release()` and leaves registered.
* *Compression of exports.*  The exporter's setters that would turn it on are
  commented out; `BlockCodec` models what the builder and the reader can do.
* *Archives:* signatures that occur by accident in hashes or names;
  exporting into the file of an archive that is mounted (a hazard without a
  property).  (Headers.h:59 puts the empty section "at the end of section
  table"; the code and the model put it at index 0.)
* *Remote:* opening by path, the tables being changed while they are sent (a
  data race), the flags' lack of atomicity beyond interleaving, the port.  The
  client's container refuses to load (`ReloadContainer` returns false), so its
  connection is modelled as a client only.  In a build with assertions
  `GetFileData` stops the client with every file it receives
  (RemoteContainer.cpp:78 writes one past the size it checks); the model lets
  the client end at any time.
* *Virtual files* whose text changes between two reads, and dropping one
  (`DropFile` is a stub).
* *Lua itself:* what scripts compute, the bindings' conversions, and coroutines;
  a chunk is one of the things it can do to the console, and one of the things
  it can do to the file system.
* *Not at all:* the hash function (MurmurHash is a vendored pure function, and
  collisions are excluded above), `unique_table` (ownership of a buffer), the
  legacy archive format (InternalContainer, InternalExporter, ContainerFile: most
  of it compiled out, the rest not registered), RDCReader's `main.cpp` (compiled
  out), the plugin SVFSRemote (it returns constants), the plugins' SDK headers,
  logging and the build scripts.

## 6. Plan

Done, in this order: handles, path index with names, file tree, mounting,
archives and their blocks, export to archives and folders, extraction, remote
access, clients, the command line and the console; proofs of every component's
safety properties.

1. A mounted archive whose file is written again: `RDCArchive`'s reader with the
   offsets of an older file.
2. The data race on the tables a server sends while the program's thread grows
   them: copies that are torn between two allocations.
