------------------------------ MODULE FileRefs ------------------------------
(***************************************************************************)
(* What a FileHandle promises its user, with no table behind it: an object *)
(* either refers to an open file with an access mode, or to nothing, and   *)
(* it behaves as a value.  Opening, cloning, moving, swapping and closing  *)
(* one object never changes what any other object refers to.               *)
(***************************************************************************)
CONSTANTS
  Handles,    \* the FileHandle objects of the program
  FileIDs,    \* the file ids a client may pass to OpenFile
  Modes,      \* the access modes a client may ask for
  NoRef       \* what an empty FileHandle refers to

VARIABLES
  refs,       \* refs[h]: the file and mode object h refers to, or NoRef
  valid       \* the ids the file table answers IsValid for

vars == <<refs, valid>>

Ref == [fid : FileIDs, mode : Modes]

Init ==
  /\ refs = [h \in Handles |-> NoRef]
  /\ valid \in SUBSET FileIDs

(* The file table gains a file; a file it knows stays known (a deleted one too). *)
FileAppears(fid) ==
  /\ valid' = valid \cup {fid}
  /\ UNCHANGED refs

Open(h, fid, mode) ==
  /\ refs' = [refs EXCEPT ![h] = IF fid \in valid
                                 THEN [fid |-> fid, mode |-> mode]
                                 ELSE NoRef]
  /\ UNCHANGED valid

(* Cloning an empty object leaves the destination as it was. *)
Clone(src, dst) ==
  /\ src # dst
  /\ refs[src] # NoRef
  /\ refs' = [refs EXCEPT ![dst] = refs[src]]
  /\ UNCHANGED valid

(* Cloning an object onto itself is the one case with no value semantics:  *)
(* the object is closed first and then reads whatever slot 0 holds.        *)
SelfClone(h) ==
  /\ refs[h] # NoRef
  /\ \E r \in Ref \cup {NoRef} : refs' = [refs EXCEPT ![h] = r]
  /\ UNCHANGED valid

Move(src, dst) ==
  /\ refs' = [refs EXCEPT ![dst] = refs[src], ![src] = NoRef]
  /\ UNCHANGED valid

Swap(g, h) ==
  /\ refs' = [refs EXCEPT ![g] = refs[h], ![h] = refs[g]]
  /\ UNCHANGED valid

Close(h) ==
  /\ refs' = [refs EXCEPT ![h] = NoRef]
  /\ UNCHANGED valid

Next ==
  \/ \E fid \in FileIDs : FileAppears(fid)
  \/ \E h \in Handles, fid \in FileIDs, mode \in Modes : Open(h, fid, mode)
  \/ \E src, dst \in Handles : Clone(src, dst) \/ Move(src, dst) \/ Swap(src, dst)
  \/ \E h \in Handles : SelfClone(h) \/ Close(h)

Spec == Init /\ [][Next]_vars
=============================================================================
