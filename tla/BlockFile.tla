----------------------------- MODULE BlockFile -----------------------------
(***************************************************************************)
(* The file behind RDC/BlockFileDevice: a stream of blocks appended with   *)
(* WriteAtEnd, each followed by the zero bytes CheckWriteAligment adds.    *)
(* Sizes are those of the program; the bytes of a block are one value.     *)
(***************************************************************************)
EXTENDS Integers

BlockAlignmentValue == 8

(* What a read returns besides the data of a block. *)
Nothing == <<"nothing">>       \* no bytes were asked for
Failed  == <<"failed">>        \* the bytes asked for are not all in the file
Garbage == <<"garbage">>       \* bytes that are not one whole block

(* Faulty: the same fill after every block that does not end on a boundary. *)
GapFixed(pos) ==
  IF pos % BlockAlignmentValue = 0 THEN 0 ELSE BlockAlignmentValue - 1

(* The fill stops one byte short of the boundary, so that every later     *)
(* block starts one byte before it.                                       *)
Gap(pos) ==
  LET r == pos % BlockAlignmentValue
  IN  IF r = 0 THEN 0 ELSE BlockAlignmentValue - r - 1

EmptyFile == [size |-> 0, blocks |-> {}]

(* The file after n bytes of data and their fill went to its end. *)
Written(f, data, n) ==
  IF n = 0 THEN f
  ELSE [size   |-> f.size + n + Gap(f.size + n),
        blocks |-> f.blocks \cup {[at |-> f.size, size |-> n, data |-> data]}]

(* What is left of the file when only its first n bytes reached the disk. *)
Cut(f, n) ==
  [size |-> n, blocks |-> {b \in f.blocks : b.at + b.size =< n}]

BlocksAt(f, at, n) == {b \in f.blocks : b.at = at /\ b.size = n}

(* ReadFromBegining: n bytes at a location taken from a header. *)
Read(f, at, n) ==
  IF n = 0 THEN Nothing
  ELSE IF at + n > f.size THEN Failed
  ELSE IF BlocksAt(f, at, n) = {} THEN Garbage
  ELSE (CHOOSE b \in BlocksAt(f, at, n) : TRUE).data

(* The blocks that end where the file ends: what ReadFromEnd sees. *)
LastBlocks(f) == {b \in f.blocks : b.at + b.size = f.size}
=============================================================================
