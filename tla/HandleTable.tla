---------------------------- MODULE HandleTable ----------------------------
(***************************************************************************)
(* HandleTable and the FileHandle objects that point into it.              *)
(*                                                                         *)
(* The table is an array of slots handed out round-robin; a FileHandle     *)
(* holds an owner pointer, a slot index and the generation the slot had    *)
(* when it was handed out.  The table never compares generations, so a     *)
(* slot is safe only if no two live objects ever hold the same index.      *)
(* A constructor runs on an object in the state Empty, so the copy and the *)
(* move constructor are CloneTo and MoveAssign into an Empty object, and   *)
(* a destructor is Destroy, which leaves its object Empty again.           *)
(***************************************************************************)
EXTENDS Integers, FiniteSets

CONSTANTS
  Handles,      \* the FileHandle objects of the program
  FileIDs,      \* file ids a client may pass to OpenFile; 0 is no id
  Modes,        \* access modes a client may ask for
  TableSize,    \* Settings::Initial::HandleTableSize (1024)
  GenSpace,     \* number of values of the uint16_t generation (65536)
  NoMode,       \* RWMode::None
  NoRef         \* what an empty object refers to

ASSUME HandleTableAssumption ==
  /\ TableSize \in Nat \ {0}
  /\ GenSpace \in Nat \ {0, 1}
  /\ FileIDs \subseteq Nat \ {0}
  /\ NoRef \notin [fid : FileIDs, mode : Modes]

VARIABLES
  slots,        \* m_HandleTable: the slots
  last,         \* m_LastAllocatedID: where the next search starts
  handle,       \* the FileHandle objects
  valid,        \* the ids FileTable::IsValid accepts (valid or deleted files)
  crashed,      \* the process died on the null result of AllocHandle
  disciplined   \* history: no object was assigned to while it was open

vars == <<slots, last, handle, valid, crashed, disciplined>>

Slot == 0 .. TableSize - 1

SlotData == [used : BOOLEAN, gen : 0 .. GenSpace - 1,
             fid : FileIDs \cup {0}, mode : Modes \cup {NoMode}]

FileHandle == [owner : BOOLEAN, hid : Slot, gen : 0 .. GenSpace - 1]

Empty == [owner |-> FALSE, hid |-> 0, gen |-> 0]

TypeOK ==
  /\ slots \in [Slot -> SlotData]
  /\ last \in Slot
  /\ handle \in [Handles -> FileHandle]
  /\ valid \subseteq FileIDs
  /\ crashed \in BOOLEAN
  /\ disciplined \in BOOLEAN

Init ==
  /\ slots = [s \in Slot |-> [used |-> FALSE, gen |-> 1, fid |-> 0, mode |-> NoMode]]
  /\ last = 0
  /\ handle = [h \in Handles |-> Empty]
  /\ valid \in SUBSET FileIDs
  /\ crashed = FALSE
  /\ disciplined = TRUE

-----------------------------------------------------------------------------
(* The table's helpers, over the slots sl they are called on.              *)

Probe(k) == (last + k) % TableSize

(* Faulty: the first slot probed is taken without a look at its flag. *)
FoundUnchecked(sl, k) == k = 0

(* The slot AllocHandle finds after passing k used ones. *)
FoundAfter(sl, k) ==
  /\ ~sl[Probe(k)].used
  /\ \A j \in 0 .. k - 1 : sl[Probe(j)].used

(* Faulty: the search stops one slot early. *)
NoneFoundEarly(sl) == \A k \in 0 .. TableSize - 2 : sl[Probe(k)].used

NoneFound(sl) == \A k \in 0 .. TableSize - 1 : sl[Probe(k)].used

(* GetDataFromHandle finds the slot of index hid: no generation is compared. *)
HasData(sl, hid) == sl[hid].used /\ sl[hid].fid \in valid

Released(data) ==
  [used |-> FALSE, gen |-> (data.gen + 1) % GenSpace, fid |-> 0, mode |-> NoMode]

(* FileHandle::Close on an object in state obj, as the slots it leaves. *)
AfterClose(sl, obj) ==
  IF obj.owner /\ HasData(sl, obj.hid)
  THEN [sl EXCEPT ![obj.hid] = Released(sl[obj.hid])]
  ELSE sl

(* Faulty: a closed object still points to its table. *)
ClosedObjectKept(obj) == obj

ClosedObject(obj) == IF obj.owner THEN Empty ELSE obj

(* A slot is taken for (fid, mode) and handed to object h. *)
Take(sl, h, fid, mode) ==
  \E k \in 0 .. TableSize - 1 :
    /\ FoundAfter(sl, k)
    /\ slots' = [sl EXCEPT ![Probe(k)].used = TRUE,
                           ![Probe(k)].fid = fid,
                           ![Probe(k)].mode = mode]
    /\ handle' = [handle EXCEPT ![h] =
                    [owner |-> TRUE, hid |-> Probe(k), gen |-> sl[Probe(k)].gen]]
    /\ last' = Probe(k + 1)
    /\ UNCHANGED <<valid, crashed>>

(* AllocHandle returns nullptr and its caller dereferences it. *)
CrashOnExhaustion(sl) ==
  /\ NoneFound(sl)
  /\ crashed' = TRUE
  /\ UNCHANGED <<slots, last, handle, valid>>

(* A client that follows the discipline closes an object before it assigns. *)
Assign(h) == disciplined' = (disciplined /\ ~handle[h].owner)

-----------------------------------------------------------------------------
(* FileTable makes an id valid; deleting a file keeps its id valid. *)
FileAppears(fid) ==
  /\ ~crashed
  /\ valid' = valid \cup {fid}
  /\ UNCHANGED <<slots, last, handle, crashed, disciplined>>

(* h = vfs.OpenFile(fid, mode): the result is move-assigned, so an object  *)
(* that was open keeps no trace of the slot it held.                       *)
Open(h, fid, mode) ==
  /\ ~crashed
  /\ Assign(h)
  /\ \/ /\ fid \in valid
        /\ Take(slots, h, fid, mode) \/ CrashOnExhaustion(slots)
     \/ /\ fid \notin valid
        /\ handle' = [handle EXCEPT ![h] = Empty]
        /\ UNCHANGED <<slots, last, valid, crashed>>

(* src.CloneTo(dst), copy assignment and copy construction.  The            *)
(* destination is closed before the source is looked up, so with src = dst  *)
(* the lookup reads slot 0.                                                 *)
CloneTo(src, dst) ==
  LET closed == AfterClose(slots, handle[dst])
      obj    == IF src = dst THEN ClosedObject(handle[dst]) ELSE handle[src]
  IN  /\ ~crashed
      /\ handle[src].owner
      /\ UNCHANGED disciplined
      /\ \/ /\ HasData(closed, obj.hid)
            /\ \/ Take(closed, dst, closed[obj.hid].fid, closed[obj.hid].mode)
               \/ CrashOnExhaustion(closed)
         \/ /\ ~HasData(closed, obj.hid)
            /\ slots' = closed
            /\ handle' = [handle EXCEPT ![dst] = ClosedObject(@)]
            /\ UNCHANGED <<last, valid, crashed>>

(* dst = std::move(src): the slot dst held is not released. *)
MoveAssign(src, dst) ==
  /\ ~crashed
  /\ Assign(dst)
  /\ handle' = [handle EXCEPT ![dst] = handle[src], ![src].owner = FALSE]
  /\ UNCHANGED <<slots, last, valid, crashed>>

Swap(g, h) ==
  /\ ~crashed
  /\ handle' = [handle EXCEPT ![g] = handle[h], ![h] = handle[g]]
  /\ UNCHANGED <<slots, last, valid, crashed, disciplined>>

Close(h) ==
  /\ ~crashed
  /\ slots' = AfterClose(slots, handle[h])
  /\ handle' = [handle EXCEPT ![h] = ClosedObject(@)]
  /\ UNCHANGED <<last, valid, crashed, disciplined>>

(* Faulty: the destructor does not close the file. *)
DestroyOpen(h) ==
  /\ ~crashed
  /\ handle' = [handle EXCEPT ![h] = Empty]
  /\ UNCHANGED <<slots, last, valid, crashed, disciplined>>

(* ~FileHandle; the next object built in this place starts Empty. *)
Destroy(h) ==
  /\ ~crashed
  /\ slots' = AfterClose(slots, handle[h])
  /\ handle' = [handle EXCEPT ![h] = Empty]
  /\ UNCHANGED <<last, valid, crashed, disciplined>>

Next ==
  \/ \E fid \in FileIDs : FileAppears(fid)
  \/ \E h \in Handles, fid \in FileIDs, mode \in Modes : Open(h, fid, mode)
  \/ \E src, dst \in Handles :
       CloneTo(src, dst) \/ MoveAssign(src, dst) \/ Swap(src, dst)
  \/ \E h \in Handles : Close(h) \/ Destroy(h)

Spec == Init /\ [][Next]_vars

-----------------------------------------------------------------------------
(* The slot an open object points to is in use, still has the generation   *)
(* the object was given, and names a file the file table knows: so the     *)
(* comparison GetDataFromHandle leaves out could never have failed.        *)
NoStaleHandle ==
  \A h \in Handles : handle[h].owner =>
    /\ HasData(slots, handle[h].hid)
    /\ slots[handle[h].hid].gen = handle[h].gen
    /\ slots[handle[h].hid].mode \in Modes

(* No two open objects share a slot, whatever sequence of copies, moves    *)
(* and swaps produced them: closing one cannot close the other's file.     *)
SlotsNotShared ==
  \A g, h \in Handles :
    handle[g].owner /\ handle[h].owner /\ handle[g].hid = handle[h].hid => g = h

(* As long as clients close an object before assigning to it, every slot in *)
(* use belongs to an open object: slots are not leaked.                    *)
NoSlotLeaked ==
  disciplined =>
    \A s \in Slot : slots[s].used =>
      \E h \in Handles : handle[h].owner /\ handle[h].hid = s

(* AllocHandle gives up, and its caller crashes, only when every slot of   *)
(* the table is in use: the search misses none.                            *)
CrashOnlyWhenFull == crashed => \A s \in Slot : slots[s].used

(* What object h refers to. *)
RefOf(h) ==
  IF handle[h].owner
  THEN [fid |-> slots[handle[h].hid].fid, mode |-> slots[handle[h].hid].mode]
  ELSE NoRef

Abstract == INSTANCE FileRefs WITH refs <- [h \in Handles |-> RefOf(h)]

(* The table implements handles with value semantics. *)
ImplementsFileRefs == Abstract!Spec
=============================================================================
