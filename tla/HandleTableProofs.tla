------------------------- MODULE HandleTableProofs -------------------------
(***************************************************************************)
(* Proofs about HandleTable, for every number of objects, slots, files and *)
(* generations.                                                            *)
(***************************************************************************)
EXTENDS HandleTable, TLAPS

(* Every slot in use names a file the file table knows: a slot is filled   *)
(* only after the file was looked up, and file ids never become invalid.   *)
UsedSlotsNameFiles ==
  \A s \in Slot : slots[s].used => slots[s].fid \in valid /\ slots[s].mode \in Modes

(* The inductive invariant: with slots only taken when unused, each open   *)
(* object is the only one that can name, and so release, its slot.         *)
IInv ==
  /\ TypeOK
  /\ UsedSlotsNameFiles
  /\ NoStaleHandle
  /\ SlotsNotShared

-----------------------------------------------------------------------------
(* Every slot the search looks at is a slot of the table. *)
LEMMA ProbeInSlot == ASSUME TypeOK, NEW k \in Nat PROVE Probe(k) \in Slot
BY HandleTableAssumption DEF TypeOK, Probe, Slot

(* A released slot and a slot just taken hold data of the right kind. *)
LEMMA ReleasedType == ASSUME NEW d \in SlotData
                      PROVE  Released(d) \in SlotData /\ ~Released(d).used
<1>1. (d.gen + 1) % GenSpace \in 0 .. GenSpace - 1
  BY HandleTableAssumption DEF SlotData
<1> QED BY <1>1 DEF Released, SlotData

(* The empty object is a FileHandle. *)
LEMMA EmptyType == Empty \in FileHandle
BY HandleTableAssumption DEF Empty, FileHandle, Slot

(* A closed object is a FileHandle that is not open. *)
LEMMA ClosedObjectType ==
  ASSUME NEW obj \in FileHandle
  PROVE  ClosedObject(obj) \in FileHandle /\ ~ClosedObject(obj).owner
BY EmptyType DEF ClosedObject, FileHandle, Empty

(* Closing one object leaves a well-formed table in which every slot of    *)
(* another open object is as it was.                                       *)
LEMMA CloseKeepsOthers ==
  ASSUME IInv, NEW d \in Handles, NEW sl, sl = AfterClose(slots, handle[d])
  PROVE  /\ sl \in [Slot -> SlotData]
         /\ \A s \in Slot : sl[s].used => sl[s] = slots[s]
         /\ \A h \in Handles \ {d} : handle[h].owner =>
               sl[handle[h].hid] = slots[handle[h].hid]
<1> DEFINE obj == handle[d]
<1>0. obj \in FileHandle /\ slots \in [Slot -> SlotData]
  BY DEF IInv, TypeOK
<1>1. CASE sl = slots
  BY <1>1, <1>0
<1>2. CASE obj.owner /\ HasData(slots, obj.hid)
  <2>1. obj.hid \in Slot
    BY <1>0 DEF FileHandle
  <2>2. sl = [slots EXCEPT ![obj.hid] = Released(slots[obj.hid])]
    BY <1>2 DEF AfterClose
  <2>3. Released(slots[obj.hid]) \in SlotData /\ ~Released(slots[obj.hid]).used
    BY <2>1, <1>0, ReleasedType
  <2>4. sl \in [Slot -> SlotData]
    BY <2>1, <2>2, <2>3, <1>0
  <2>5. \A s \in Slot : sl[s].used => sl[s] = slots[s]
    BY <2>1, <2>2, <2>3, <1>0
  <2>6. \A h \in Handles \ {d} : handle[h].owner => handle[h].hid # obj.hid
    BY <1>2 DEF IInv, SlotsNotShared
  <2>7. \A h \in Handles : handle[h].hid \in Slot
    BY DEF IInv, TypeOK, FileHandle
  <2>8. \A h \in Handles \ {d} : handle[h].owner =>
               sl[handle[h].hid] = slots[handle[h].hid]
    BY <2>2, <2>6, <2>7, <1>0
  <2> QED BY <2>4, <2>5, <2>8
<1> QED BY <1>1, <1>2 DEF AfterClose

(* Closing object d, and leaving in its place an object that is not open.  *)
LEMMA ClosePreserves ==
  ASSUME IInv, NEW d \in Handles, NEW obj \in FileHandle, ~obj.owner,
         slots' = AfterClose(slots, handle[d]),
         handle' = [handle EXCEPT ![d] = obj],
         UNCHANGED <<last, valid, crashed>>, disciplined' \in BOOLEAN
  PROVE  IInv'
<1>1. /\ slots' \in [Slot -> SlotData]
      /\ \A s \in Slot : slots'[s].used => slots'[s] = slots[s]
      /\ \A h \in Handles \ {d} : handle[h].owner =>
            slots'[handle[h].hid] = slots[handle[h].hid]
  BY CloseKeepsOthers
<1>2. /\ handle' \in [Handles -> FileHandle]
      /\ handle'[d] = obj
      /\ \A h \in Handles \ {d} : handle'[h] = handle[h]
  BY DEF IInv, TypeOK
<1>3. TypeOK'
  BY <1>1, <1>2 DEF IInv, TypeOK
<1>4. UsedSlotsNameFiles'
  BY <1>1 DEF IInv, UsedSlotsNameFiles
<1>5. NoStaleHandle'
  BY <1>1, <1>2 DEF IInv, NoStaleHandle, HasData
<1>6. SlotsNotShared'
  BY <1>2 DEF IInv, SlotsNotShared
<1> QED BY <1>3, <1>4, <1>5, <1>6 DEF IInv

(* Taking a slot for object h, in a table where h itself is not open but   *)
(* every other open object still has its slot.                             *)
LEMMA TakePreserves ==
  ASSUME IInv, NEW h \in Handles, NEW fid \in valid, NEW mode \in Modes,
         NEW sl \in [Slot -> SlotData],
         \A s \in Slot : sl[s].used => sl[s] = slots[s],
         \A g \in Handles \ {h} : handle[g].owner =>
            sl[handle[g].hid] = slots[handle[g].hid],
         Take(sl, h, fid, mode), disciplined' \in BOOLEAN
  PROVE  IInv'
<1>1. PICK k \in 0 .. TableSize - 1 :
        /\ FoundAfter(sl, k)
        /\ slots' = [sl EXCEPT ![Probe(k)].used = TRUE,
                               ![Probe(k)].fid = fid,
                               ![Probe(k)].mode = mode]
        /\ handle' = [handle EXCEPT ![h] =
                        [owner |-> TRUE, hid |-> Probe(k), gen |-> sl[Probe(k)].gen]]
        /\ last' = Probe(k + 1)
        /\ UNCHANGED <<valid, crashed>>
  BY DEF Take
<1> DEFINE p == Probe(k)
<1>2. p \in Slot /\ last' \in Slot
  BY <1>1, ProbeInSlot, HandleTableAssumption DEF IInv
<1>3. ~sl[p].used
  BY <1>1 DEF FoundAfter
<1>4. fid \in FileIDs
  BY DEF IInv, TypeOK
<1>5. /\ slots' \in [Slot -> SlotData]
      /\ slots'[p].used /\ slots'[p].fid = fid /\ slots'[p].mode = mode
      /\ slots'[p].gen = sl[p].gen
      /\ \A s \in Slot \ {p} : slots'[s] = sl[s]
  BY <1>1, <1>2, <1>4 DEF SlotData
<1>6. sl[p].gen \in 0 .. GenSpace - 1
  BY <1>2 DEF SlotData
<1>7. /\ handle' \in [Handles -> FileHandle]
      /\ handle'[h] = [owner |-> TRUE, hid |-> p, gen |-> sl[p].gen]
      /\ \A g \in Handles \ {h} : handle'[g] = handle[g]
  BY <1>1, <1>2, <1>6 DEF IInv, TypeOK, FileHandle
<1>8. \A g \in Handles \ {h} : handle[g].owner =>
         /\ handle[g].hid \in Slot
         /\ handle[g].hid # p
         /\ slots'[handle[g].hid] = slots[handle[g].hid]
  <2> SUFFICES ASSUME NEW g \in Handles \ {h}, handle[g].owner
               PROVE  /\ handle[g].hid \in Slot
                      /\ handle[g].hid # p
                      /\ slots'[handle[g].hid] = slots[handle[g].hid]
    OBVIOUS
  <2>1. handle[g].hid \in Slot
    BY DEF IInv, TypeOK, FileHandle
  <2>2. slots[handle[g].hid].used
    BY DEF IInv, NoStaleHandle, HasData
  <2>3. sl[handle[g].hid].used
    BY <2>2
  <2> QED BY <2>1, <2>3, <1>3, <1>5
<1>9. TypeOK'
  BY <1>1, <1>2, <1>5, <1>7 DEF IInv, TypeOK
<1>10. UsedSlotsNameFiles'
  BY <1>1, <1>5 DEF IInv, UsedSlotsNameFiles
<1>11. NoStaleHandle'
  BY <1>1, <1>5, <1>7, <1>8 DEF IInv, NoStaleHandle, HasData
<1>12. SlotsNotShared'
  BY <1>7, <1>8 DEF IInv, SlotsNotShared
<1> QED BY <1>9, <1>10, <1>11, <1>12 DEF IInv

(* The crash on a full table changes neither slots nor objects. *)
LEMMA CrashPreserves ==
  ASSUME IInv, NEW sl, CrashOnExhaustion(sl), disciplined' \in BOOLEAN
  PROVE  IInv'
BY DEF CrashOnExhaustion, IInv, TypeOK, UsedSlotsNameFiles, NoStaleHandle,
       SlotsNotShared, HasData

-----------------------------------------------------------------------------
(* The type invariant, the agreement of every open object with its slot,   *)
(* and the exclusive ownership of slots hold in every reachable state.     *)
THEOREM HandleInvariant == Spec => []IInv
<1>1. Init => IInv
  <2> SUFFICES ASSUME Init PROVE IInv
    OBVIOUS
  <2>1. handle \in [Handles -> FileHandle] /\ \A h \in Handles : ~handle[h].owner
    BY EmptyType DEF Init, Empty
  <2>2. \A s \in Slot : slots[s] \in SlotData /\ ~slots[s].used
    BY HandleTableAssumption DEF Init, SlotData
  <2>3. slots \in [Slot -> SlotData]
    BY <2>2 DEF Init
  <2>4. last \in Slot
    BY HandleTableAssumption DEF Init, Slot
  <2> QED
    BY <2>1, <2>2, <2>3, <2>4
    DEF Init, IInv, TypeOK, UsedSlotsNameFiles, NoStaleHandle, SlotsNotShared
<1>2. IInv /\ [Next]_vars => IInv'
  <2> SUFFICES ASSUME IInv, [Next]_vars PROVE IInv'
    OBVIOUS
  <2>0. /\ slots \in [Slot -> SlotData]
        /\ handle \in [Handles -> FileHandle]
    BY DEF IInv, TypeOK
  <2> disciplined' \in BOOLEAN
    BY DEF IInv, TypeOK, Next, FileAppears, Open, Assign, CloneTo, MoveAssign, Swap,
           Close, Destroy, vars
  <2>1. ASSUME NEW fid \in FileIDs, FileAppears(fid) PROVE IInv'
    BY <2>1 DEF FileAppears, IInv, TypeOK, UsedSlotsNameFiles, NoStaleHandle,
                SlotsNotShared, HasData
  <2>2. ASSUME NEW h \in Handles, NEW fid \in FileIDs, NEW mode \in Modes,
               Open(h, fid, mode)
        PROVE  IInv'
    <3>1. CASE fid \in valid /\ Take(slots, h, fid, mode)
      BY <3>1, <2>0, TakePreserves
    <3>2. CASE CrashOnExhaustion(slots)
      BY <3>2, CrashPreserves
    <3>3. CASE /\ handle' = [handle EXCEPT ![h] = Empty]
               /\ UNCHANGED <<slots, last, valid, crashed>>
      <4>1. ~Empty.owner
        BY DEF Empty
      <4>2. /\ handle' \in [Handles -> FileHandle]
            /\ handle'[h] = Empty
            /\ \A g \in Handles \ {h} : handle'[g] = handle[g]
        BY <3>3, <2>0, EmptyType
      <4> QED BY <3>3, <4>1, <4>2
              DEF IInv, TypeOK, UsedSlotsNameFiles, NoStaleHandle, SlotsNotShared, HasData
    <3> QED BY <2>2, <3>1, <3>2, <3>3 DEF Open
  <2>3. ASSUME NEW src \in Handles, NEW dst \in Handles, CloneTo(src, dst)
        PROVE  IInv'
    <3> DEFINE closed == AfterClose(slots, handle[dst])
               obj    == IF src = dst THEN ClosedObject(handle[dst]) ELSE handle[src]
    <3>1. /\ closed \in [Slot -> SlotData]
          /\ \A s \in Slot : closed[s].used => closed[s] = slots[s]
          /\ \A h \in Handles \ {dst} : handle[h].owner =>
                closed[handle[h].hid] = slots[handle[h].hid]
      BY CloseKeepsOthers
    <3>2. obj \in FileHandle
      BY <2>0, ClosedObjectType
    <3>3. CASE /\ HasData(closed, obj.hid)
               /\ Take(closed, dst, closed[obj.hid].fid, closed[obj.hid].mode)
      <4>1. obj.hid \in Slot
        BY <3>2 DEF FileHandle
      <4>2. closed[obj.hid].fid \in valid /\ closed[obj.hid].mode \in Modes
        BY <3>1, <3>3, <4>1 DEF HasData, IInv, UsedSlotsNameFiles
      <4> HIDE DEF closed, obj
      <4> QED BY <3>1, <3>3, <4>2, TakePreserves
    <3>4. CASE CrashOnExhaustion(closed)
      BY <3>4, CrashPreserves
    <3>5. CASE /\ slots' = closed
               /\ handle' = [handle EXCEPT ![dst] = ClosedObject(@)]
               /\ UNCHANGED <<last, valid, crashed>>
      <4>1. ClosedObject(handle[dst]) \in FileHandle /\ ~ClosedObject(handle[dst]).owner
        BY <2>0, ClosedObjectType
      <4> QED BY <3>5, <4>1, ClosePreserves
    <3> QED BY <2>3, <3>3, <3>4, <3>5 DEF CloneTo
  <2>4. ASSUME NEW src \in Handles, NEW dst \in Handles, MoveAssign(src, dst)
        PROVE  IInv'
    <3>1. /\ handle' \in [Handles -> FileHandle]
          /\ ~handle'[src].owner
          /\ src # dst => handle'[dst] = handle[src]
          /\ \A h \in Handles \ {src, dst} : handle'[h] = handle[h]
      BY <2>4, <2>0 DEF MoveAssign, FileHandle
    <3> QED BY <2>4, <3>1
            DEF MoveAssign, IInv, TypeOK, UsedSlotsNameFiles, NoStaleHandle,
                SlotsNotShared, HasData
  <2>5. ASSUME NEW g \in Handles, NEW h \in Handles, Swap(g, h)
        PROVE  IInv'
    <3>1. /\ handle' \in [Handles -> FileHandle]
          /\ handle'[g] = handle[h] /\ handle'[h] = handle[g]
          /\ \A x \in Handles \ {g, h} : handle'[x] = handle[x]
      BY <2>5, <2>0 DEF Swap
    <3> QED BY <2>5, <3>1
            DEF Swap, IInv, TypeOK, UsedSlotsNameFiles, NoStaleHandle,
                SlotsNotShared, HasData
  <2>6. ASSUME NEW h \in Handles, Close(h) PROVE IInv'
    <3>1. ClosedObject(handle[h]) \in FileHandle /\ ~ClosedObject(handle[h]).owner
      BY <2>0, ClosedObjectType
    <3> QED BY <2>6, <3>1, ClosePreserves DEF Close
  <2>7. ASSUME NEW h \in Handles, Destroy(h) PROVE IInv'
    <3>1. ~Empty.owner
      BY DEF Empty
    <3> QED BY <2>7, <3>1, EmptyType, ClosePreserves DEF Destroy
  <2>8. CASE UNCHANGED vars
    BY <2>8 DEF vars, IInv, TypeOK, UsedSlotsNameFiles, NoStaleHandle,
                SlotsNotShared, HasData
  <2> QED BY <2>1, <2>2, <2>3, <2>4, <2>5, <2>6, <2>7, <2>8 DEF Next
<1> QED BY <1>1, <1>2, PTL DEF Spec

(* An open object points to a live slot of its own generation, and to a   *)
(* slot no other open object has: no closed file is reached through it.    *)
COROLLARY HandlesOwnTheirSlots == Spec => [](NoStaleHandle /\ SlotsNotShared)
<1>1. IInv => NoStaleHandle /\ SlotsNotShared
  BY DEF IInv
<1> QED BY <1>1, HandleInvariant, PTL

-----------------------------------------------------------------------------
(* The search visits every slot: slot s is passed after (s - last) modulo  *)
(* the table's size steps.                                                 *)
LEMMA SearchVisitsAll ==
  ASSUME TypeOK, NEW s \in Slot
  PROVE  \E k \in 0 .. TableSize - 1 : Probe(k) = s
<1>0. /\ TableSize \in Nat \ {0}
      /\ last \in 0 .. TableSize - 1
      /\ s \in 0 .. TableSize - 1
  BY HandleTableAssumption DEF TypeOK, Slot
<1>1. CASE last <= s
  <2>1. s - last \in 0 .. TableSize - 1 /\ last + (s - last) = s /\ s % TableSize = s
    BY <1>0, <1>1
  <2> QED BY <2>1 DEF Probe
<1>2. CASE s < last
  <2>1. /\ s - last + TableSize \in 0 .. TableSize - 1
        /\ last + (s - last + TableSize) = s + TableSize
    BY <1>0, <1>2
  <2>2. (s + TableSize) % TableSize = s
    BY <1>0
  <2> QED BY <2>1, <2>2 DEF Probe
<1> QED BY <1>0, <1>1, <1>2

(* The null result of AllocHandle reaches a caller only when the table is full. *)
THEOREM ExhaustionIsReal == Spec => []CrashOnlyWhenFull
<1>1. Init => CrashOnlyWhenFull
  BY DEF Init, CrashOnlyWhenFull
<1>2. CrashOnlyWhenFull /\ IInv /\ [Next]_vars => CrashOnlyWhenFull'
  <2> SUFFICES ASSUME CrashOnlyWhenFull, IInv, [Next]_vars
               PROVE  CrashOnlyWhenFull'
    OBVIOUS
  <2>1. CASE crashed
    <3>1. UNCHANGED vars
      BY <2>1 DEF Next, FileAppears, Open, CloneTo, MoveAssign, Swap, Close, Destroy
    <3> QED BY <3>1 DEF vars, CrashOnlyWhenFull
  <2>2. ASSUME NEW sl, CrashOnExhaustion(sl),
               \A s \in Slot : sl[s].used => slots[s].used
        PROVE  CrashOnlyWhenFull'
    BY <2>2, SearchVisitsAll DEF CrashOnExhaustion, NoneFound, CrashOnlyWhenFull, IInv
  <2>3. ASSUME UNCHANGED crashed, ~crashed PROVE CrashOnlyWhenFull'
    BY <2>3 DEF CrashOnlyWhenFull
  <2>4. ASSUME NEW sl, NEW h, NEW fid, NEW mode, Take(sl, h, fid, mode), ~crashed
        PROVE  CrashOnlyWhenFull'
    BY <2>4, <2>3 DEF Take
  <2>5. ASSUME NEW h \in Handles, NEW fid \in FileIDs, NEW mode \in Modes,
               Open(h, fid, mode)
        PROVE  CrashOnlyWhenFull'
    BY <2>5, <2>2, <2>3, <2>4 DEF Open
  <2>6. ASSUME NEW src \in Handles, NEW dst \in Handles, CloneTo(src, dst)
        PROVE  CrashOnlyWhenFull'
    <3> DEFINE closed == AfterClose(slots, handle[dst])
    <3>1. \A s \in Slot : closed[s].used => slots[s].used
      BY CloseKeepsOthers
    <3>2. \/ CrashOnExhaustion(closed)
          \/ \E fid, mode : Take(closed, dst, fid, mode)
          \/ UNCHANGED crashed
      BY <2>6 DEF CloneTo
    <3>3. CASE ~crashed
      <4> HIDE DEF closed
      <4> QED BY <3>1, <3>2, <3>3, <2>2, <2>3, <2>4
    <3> QED BY <2>1, <3>3
  <2>7. CASE \/ \E fid \in FileIDs : FileAppears(fid)
             \/ \E src, dst \in Handles : MoveAssign(src, dst) \/ Swap(src, dst)
             \/ \E h \in Handles : Close(h) \/ Destroy(h)
             \/ UNCHANGED vars
    <3>1. UNCHANGED crashed
      BY <2>7 DEF FileAppears, MoveAssign, Swap, Close, Destroy, vars
    <3> QED BY <3>1, <2>1, <2>3
  <2> QED BY <2>5, <2>6, <2>7 DEF Next
<1> QED BY <1>1, <1>2, HandleInvariant, PTL DEF Spec

-----------------------------------------------------------------------------
(* Closing an open object frees its slot. *)
LEMMA CloseFrees ==
  ASSUME IInv, NEW d \in Handles, handle[d].owner
  PROVE  ~AfterClose(slots, handle[d])[handle[d].hid].used
<1>1. handle[d].hid \in Slot /\ slots \in [Slot -> SlotData]
  BY DEF IInv, TypeOK, FileHandle
<1>2. HasData(slots, handle[d].hid)
  BY DEF IInv, NoStaleHandle
<1>3. ~Released(slots[handle[d].hid]).used
  BY <1>1, ReleasedType
<1> QED BY <1>1, <1>2, <1>3 DEF AfterClose

(* Under the discipline of closing before assigning, the slots in use are  *)
(* exactly those of the open objects.                                      *)
THEOREM DisciplineFreesSlots == Spec => []NoSlotLeaked
<1>1. Init => NoSlotLeaked
  BY DEF Init, NoSlotLeaked
<1>2. NoSlotLeaked /\ IInv /\ [Next]_vars => NoSlotLeaked'
  <2> SUFFICES ASSUME disciplined', NoSlotLeaked, IInv, [Next]_vars,
                      NEW s \in Slot, slots'[s].used
               PROVE  \E h \in Handles : handle'[h].owner /\ handle'[h].hid = s
    BY DEF NoSlotLeaked
  <2> disciplined
    BY DEF Next, FileAppears, Open, Assign, CloneTo, MoveAssign, Swap, Close, Destroy, vars
  <2> DEFINE Owned == \E h \in Handles : handle'[h].owner /\ handle'[h].hid = s
  <2>0. /\ slots \in [Slot -> SlotData]
        /\ handle \in [Handles -> FileHandle]
        /\ slots[s].used => \E h \in Handles : handle[h].owner /\ handle[h].hid = s
    BY DEF IInv, TypeOK, NoSlotLeaked
  <2>1. CASE UNCHANGED <<slots, handle>>
    BY <2>0, <2>1
  <2>2. ASSUME NEW d \in Handles, NEW sl \in [Slot -> SlotData],
               NEW fid, NEW mode, Take(sl, d, fid, mode),
               sl[s].used => \E h \in Handles \ {d} : handle[h].owner /\ handle[h].hid = s
        PROVE  Owned
    <3>1. PICK k \in 0 .. TableSize - 1 :
            /\ slots' = [sl EXCEPT ![Probe(k)].used = TRUE,
                                   ![Probe(k)].fid = fid,
                                   ![Probe(k)].mode = mode]
            /\ handle' = [handle EXCEPT ![d] =
                            [owner |-> TRUE, hid |-> Probe(k), gen |-> sl[Probe(k)].gen]]
      BY <2>2 DEF Take
    <3>2. CASE s = Probe(k)
      BY <3>1, <3>2, <2>0
    <3>3. CASE s # Probe(k)
      <4>1. slots'[s] = sl[s]
        BY <3>1, <3>3
      <4>2. PICK h \in Handles \ {d} : handle[h].owner /\ handle[h].hid = s
        BY <4>1, <2>2
      <4>3. handle'[h] = handle[h]
        BY <3>1
      <4> QED BY <4>2, <4>3
    <3> QED BY <3>2, <3>3
  <2>3. ASSUME NEW d \in Handles, slots' = AfterClose(slots, handle[d]),
               NEW obj, handle' = [handle EXCEPT ![d] = obj]
        PROVE  Owned
    <3>1. slots'[s] = slots[s]
      BY <2>3, CloseKeepsOthers
    <3>2. PICK h \in Handles : handle[h].owner /\ handle[h].hid = s
      BY <3>1, <2>0
    <3>3. h # d
      BY <3>2, <2>3, CloseFrees
    <3> QED BY <3>2, <3>3, <2>3, <2>0
  <2>4. ASSUME NEW h \in Handles, NEW fid \in FileIDs, NEW mode \in Modes,
               Open(h, fid, mode)
        PROVE  Owned
    <3>1. ~handle[h].owner
      BY <2>4 DEF Open, Assign
    <3>2. CASE Take(slots, h, fid, mode)
      BY <3>1, <3>2, <2>0, <2>2
    <3>3. CASE CrashOnExhaustion(slots)
      BY <3>3, <2>1 DEF CrashOnExhaustion
    <3>4. CASE handle' = [handle EXCEPT ![h] = Empty] /\ UNCHANGED slots
      BY <3>1, <3>4, <2>0
    <3> QED BY <2>4, <3>2, <3>3, <3>4 DEF Open
  <2>5. ASSUME NEW src \in Handles, NEW dst \in Handles, CloneTo(src, dst)
        PROVE  Owned
    <3> DEFINE closed == AfterClose(slots, handle[dst])
    <3>1. closed \in [Slot -> SlotData] /\ (closed[s].used => slots[s].used)
      BY CloseKeepsOthers
    <3>2. closed[s].used => \E h \in Handles \ {dst} : handle[h].owner /\ handle[h].hid = s
      BY <3>1, <2>0, CloseFrees
    <3>3. ASSUME NEW fid, NEW mode, Take(closed, dst, fid, mode) PROVE Owned
      <4> HIDE DEF closed
      <4> QED BY <3>1, <3>2, <3>3, <2>2
    <3>4. CASE CrashOnExhaustion(closed)
      BY <3>4, <2>1 DEF CrashOnExhaustion
    <3>5. CASE /\ slots' = closed
               /\ handle' = [handle EXCEPT ![dst] = ClosedObject(@)]
      BY <3>5, <2>3
    <3> QED BY <2>5, <3>3, <3>4, <3>5 DEF CloneTo
  <2>6. ASSUME NEW src \in Handles, NEW dst \in Handles, MoveAssign(src, dst)
        PROVE  Owned
    <3>1. ~handle[dst].owner /\ slots' = slots
      BY <2>6 DEF MoveAssign, Assign
    <3>2. PICK h \in Handles : handle[h].owner /\ handle[h].hid = s
      BY <3>1, <2>0
    <3>3. h # dst
      BY <3>1, <3>2
    <3>4. CASE h = src
      <4>1. handle'[dst] = handle[h]
        BY <3>3, <3>4, <2>6, <2>0 DEF MoveAssign
      <4> QED BY <4>1, <3>2
    <3>5. CASE h # src
      <4>1. handle'[h] = handle[h]
        BY <3>3, <3>5, <2>6, <2>0 DEF MoveAssign
      <4> QED BY <4>1, <3>2
    <3> QED BY <3>4, <3>5
  <2>7. ASSUME NEW g \in Handles, NEW h \in Handles, Swap(g, h)
        PROVE  Owned
    BY <2>7, <2>0 DEF Swap
  <2>8. ASSUME NEW h \in Handles, Close(h) \/ Destroy(h) PROVE Owned
    BY <2>8, <2>3 DEF Close, Destroy
  <2>9. CASE UNCHANGED vars
    BY <2>9, <2>1 DEF vars
  <2>10. ASSUME NEW fid \in FileIDs, FileAppears(fid) PROVE Owned
    BY <2>10, <2>1 DEF FileAppears
  <2> QED BY <2>4, <2>5, <2>6, <2>7, <2>8, <2>9, <2>10 DEF Next
<1> QED BY <1>1, <1>2, HandleInvariant, PTL DEF Spec

-----------------------------------------------------------------------------
(* What open objects refer to is a file reference, never NoRef. *)
LEMMA OpenMeansRef ==
  ASSUME IInv, NEW h \in Handles, handle[h].owner
  PROVE  /\ RefOf(h) \in [fid : FileIDs, mode : Modes]
         /\ RefOf(h) # NoRef
         /\ RefOf(h) = [fid |-> slots[handle[h].hid].fid, mode |-> slots[handle[h].hid].mode]
<1>1. RefOf(h) = [fid |-> slots[handle[h].hid].fid, mode |-> slots[handle[h].hid].mode]
  BY DEF RefOf
<1>2. slots[handle[h].hid].fid \in FileIDs /\ slots[handle[h].hid].mode \in Modes
  BY DEF IInv, TypeOK, NoStaleHandle, HasData
<1>3. RefOf(h) \in [fid : FileIDs, mode : Modes]
  BY <1>1, <1>2
<1> QED BY <1>1, <1>3, HandleTableAssumption

(* Putting an object that is not open in the place of d, with d's slot     *)
(* released or not, changes what d refers to and nothing else.             *)
LEMMA ReplaceByEmpty ==
  ASSUME IInv, NEW d \in Handles, NEW obj, ~obj.owner,
         slots' = AfterClose(slots, handle[d]) \/ slots' = slots,
         handle' = [handle EXCEPT ![d] = obj],
         UNCHANGED valid
  PROVE  Abstract!Close(d)
<1>1. \A g \in Handles \ {d} : RefOf(g)' = RefOf(g)
  <2> SUFFICES ASSUME NEW g \in Handles \ {d} PROVE RefOf(g)' = RefOf(g)
    OBVIOUS
  <2>1. handle'[g] = handle[g]
    BY DEF IInv, TypeOK
  <2>2. handle[g].owner => slots'[handle[g].hid] = slots[handle[g].hid]
    BY CloseKeepsOthers
  <2> QED BY <2>1, <2>2 DEF RefOf
<1>2. RefOf(d)' = NoRef
  BY DEF IInv, TypeOK, RefOf
<1> QED BY <1>1, <1>2 DEF Abstract!Close

(* After a slot is taken for h, h refers to the file it was taken for and  *)
(* every other object to what it referred to before.                       *)
LEMMA TakeRefers ==
  ASSUME IInv, NEW h \in Handles, NEW fid \in valid, NEW mode \in Modes,
         NEW sl \in [Slot -> SlotData],
         \A g \in Handles \ {h} : handle[g].owner =>
            sl[handle[g].hid] = slots[handle[g].hid],
         Take(sl, h, fid, mode)
  PROVE  [g \in Handles |-> RefOf(g)'] =
         [[g \in Handles |-> RefOf(g)] EXCEPT ![h] = [fid |-> fid, mode |-> mode]]
<1>1. PICK k \in 0 .. TableSize - 1 :
        /\ FoundAfter(sl, k)
        /\ slots' = [sl EXCEPT ![Probe(k)].used = TRUE,
                               ![Probe(k)].fid = fid,
                               ![Probe(k)].mode = mode]
        /\ handle' = [handle EXCEPT ![h] =
                        [owner |-> TRUE, hid |-> Probe(k), gen |-> sl[Probe(k)].gen]]
  BY DEF Take
<1>2. Probe(k) \in Slot /\ ~sl[Probe(k)].used
  BY <1>1, ProbeInSlot DEF FoundAfter, IInv
<1>3. /\ slots'[Probe(k)].fid = fid /\ slots'[Probe(k)].mode = mode
      /\ \A s \in Slot \ {Probe(k)} : slots'[s] = sl[s]
  BY <1>1, <1>2 DEF SlotData
<1>4. handle'[h].owner /\ handle'[h].hid = Probe(k)
  BY <1>1 DEF IInv, TypeOK
<1>5. RefOf(h)' = [fid |-> fid, mode |-> mode]
  BY <1>3, <1>4 DEF RefOf
<1>6. \A g \in Handles \ {h} : RefOf(g)' = RefOf(g)
  <2> SUFFICES ASSUME NEW g \in Handles \ {h} PROVE RefOf(g)' = RefOf(g)
    OBVIOUS
  <2>1. handle'[g] = handle[g]
    BY <1>1 DEF IInv, TypeOK
  <2>2. handle[g].owner => handle[g].hid \in Slot \ {Probe(k)}
    BY <1>2 DEF IInv, TypeOK, FileHandle, NoStaleHandle, HasData
  <2>3. handle[g].owner => slots'[handle[g].hid] = slots[handle[g].hid]
    BY <2>2, <1>3
  <2> QED BY <2>1, <2>3 DEF RefOf
<1> QED BY <1>5, <1>6

(* HandleTable gives its clients handles with value semantics. *)
THEOREM HandlesAreValues == Spec => ImplementsFileRefs
<1>1. Init => Abstract!Init
  BY DEF Init, Abstract!Init, RefOf, Empty
<1>2. IInv /\ [Next]_vars => [Abstract!Next]_(Abstract!vars)
  <2> SUFFICES ASSUME IInv, [Next]_vars PROVE [Abstract!Next]_(Abstract!vars)
    OBVIOUS
  <2>0. /\ slots \in [Slot -> SlotData]
        /\ handle \in [Handles -> FileHandle]
    BY DEF IInv, TypeOK
  <2>1. CASE UNCHANGED <<slots, handle, valid>>
    BY <2>1 DEF RefOf, Abstract!vars
  <2>2. ASSUME NEW fid \in FileIDs, FileAppears(fid) PROVE Abstract!Next
    <3>1. Abstract!FileAppears(fid)
      BY <2>2 DEF FileAppears, Abstract!FileAppears, RefOf
    <3> QED BY <3>1 DEF Abstract!Next
  <2>3. ASSUME NEW sl, CrashOnExhaustion(sl) PROVE UNCHANGED <<slots, handle, valid>>
    BY <2>3 DEF CrashOnExhaustion
  <2>4. ASSUME NEW h \in Handles, Abstract!Close(h) PROVE Abstract!Next
    BY <2>4 DEF Abstract!Next
  <2>5. ASSUME NEW h \in Handles, NEW fid \in FileIDs, NEW mode \in Modes,
               Open(h, fid, mode)
        PROVE  [Abstract!Next]_(Abstract!vars)
    <3>1. CASE fid \in valid /\ Take(slots, h, fid, mode)
      <4>1. [g \in Handles |-> RefOf(g)'] =
            [[g \in Handles |-> RefOf(g)] EXCEPT ![h] = [fid |-> fid, mode |-> mode]]
        BY <3>1, <2>0, TakeRefers
      <4>2. Abstract!Open(h, fid, mode)
        BY <3>1, <4>1 DEF Abstract!Open, Take
      <4> QED BY <4>2 DEF Abstract!Next
    <3>2. CASE CrashOnExhaustion(slots)
      BY <3>2, <2>1, <2>3
    <3>3. CASE handle' = [handle EXCEPT ![h] = Empty] /\ UNCHANGED <<slots, valid>>
      <4>1. ~Empty.owner
        BY DEF Empty
      <4> QED BY <3>3, <4>1, <2>4, ReplaceByEmpty
    <3> QED BY <2>5, <3>1, <3>2, <3>3 DEF Open
  <2>6. ASSUME NEW src \in Handles, NEW dst \in Handles, CloneTo(src, dst)
        PROVE  [Abstract!Next]_(Abstract!vars)
    <3> DEFINE closed == AfterClose(slots, handle[dst])
               obj    == IF src = dst THEN ClosedObject(handle[dst]) ELSE handle[src]
    <3>0. /\ closed \in [Slot -> SlotData]
          /\ \A s \in Slot : closed[s].used => closed[s] = slots[s]
          /\ \A h \in Handles \ {dst} : handle[h].owner =>
                closed[handle[h].hid] = slots[handle[h].hid]
      BY CloseKeepsOthers
    <3>1. CASE /\ HasData(closed, obj.hid)
               /\ Take(closed, dst, closed[obj.hid].fid, closed[obj.hid].mode)
      <4> DEFINE fid == closed[obj.hid].fid
                 mode == closed[obj.hid].mode
      <4>1. obj.hid \in Slot
        BY <2>0, ClosedObjectType DEF FileHandle
      <4>2. fid \in valid /\ mode \in Modes
        BY <3>0, <3>1, <4>1 DEF HasData, IInv, UsedSlotsNameFiles
      <4>3. [g \in Handles |-> RefOf(g)'] =
            [[g \in Handles |-> RefOf(g)] EXCEPT ![dst] = [fid |-> fid, mode |-> mode]]
        <5> HIDE DEF closed, obj
        <5> QED BY <3>0, <3>1, <4>2, TakeRefers
      <4>4. UNCHANGED valid
        BY <3>1 DEF Take
      <4>5. handle[src].owner
        BY <2>6 DEF CloneTo
      <4>6. CASE src = dst
        <5>1. [fid |-> fid, mode |-> mode] \in Abstract!Ref
          BY <4>2 DEF Abstract!Ref, IInv, TypeOK
        <5>2. Abstract!SelfClone(src)
          BY <4>3, <4>4, <4>5, <4>6, <5>1, OpenMeansRef DEF Abstract!SelfClone
        <5> QED BY <5>2 DEF Abstract!Next
      <4>7. CASE src # dst
        <5>1. closed[obj.hid] = slots[handle[src].hid]
          BY <3>0, <4>5, <4>7
        <5>2. [fid |-> fid, mode |-> mode] = RefOf(src)
          BY <5>1, <4>5, OpenMeansRef
        <5>3. Abstract!Clone(src, dst)
          BY <4>3, <4>4, <4>5, <4>7, <5>2, OpenMeansRef DEF Abstract!Clone
        <5> QED BY <5>3 DEF Abstract!Next
      <4> QED BY <4>6, <4>7
    <3>2. CASE CrashOnExhaustion(closed)
      BY <3>2, <2>1, <2>3
    <3>3. CASE /\ slots' = closed
               /\ handle' = [handle EXCEPT ![dst] = ClosedObject(@)]
               /\ UNCHANGED valid
      <4>1. ~ClosedObject(handle[dst]).owner
        BY <2>0, ClosedObjectType
      <4> QED BY <3>3, <4>1, <2>4, ReplaceByEmpty
    <3> QED BY <2>6, <3>1, <3>2, <3>3 DEF CloneTo
  <2>7. ASSUME NEW src \in Handles, NEW dst \in Handles, MoveAssign(src, dst)
        PROVE  Abstract!Next
    <3>1. /\ ~handle'[src].owner
          /\ src # dst => handle'[dst] = handle[src]
          /\ \A h \in Handles \ {src, dst} : handle'[h] = handle[h]
      BY <2>7, <2>0 DEF MoveAssign, FileHandle
    <3>2. slots' = slots /\ valid' = valid
      BY <2>7 DEF MoveAssign
    <3>3. Abstract!Move(src, dst)
      BY <3>1, <3>2 DEF RefOf, Abstract!Move
    <3> QED BY <3>3 DEF Abstract!Next
  <2>8. ASSUME NEW g \in Handles, NEW h \in Handles, Swap(g, h)
        PROVE  Abstract!Next
    <3>1. Abstract!Swap(g, h)
      BY <2>8, <2>0 DEF Swap, RefOf, Abstract!Swap
    <3> QED BY <3>1 DEF Abstract!Next
  <2>9. ASSUME NEW h \in Handles, Close(h) \/ Destroy(h) PROVE Abstract!Next
    <3>1. ~ClosedObject(handle[h]).owner /\ ~Empty.owner
      BY <2>0, ClosedObjectType DEF Empty
    <3>2. Abstract!Close(h)
      BY <2>9, <3>1, ReplaceByEmpty DEF Close, Destroy
    <3> QED BY <3>2, <2>4
  <2>10. CASE UNCHANGED vars
    BY <2>10, <2>1 DEF vars
  <2> QED BY <2>2, <2>5, <2>6, <2>7, <2>8, <2>9, <2>10 DEF Next
<1> QED BY <1>1, <1>2, HandleInvariant, PTL
        DEF Spec, ImplementsFileRefs, Abstract!Spec
=============================================================================
