---------------------------- MODULE StringTable ----------------------------
(***************************************************************************)
(* DynamicStringTable: the names of all files, one after the other in one  *)
(* array, each ended by a zero.  A name is added at the end and is known   *)
(* by the index of its first character; index 0 is the empty name.  The    *)
(* array is doubled once when a name might not fit, however long it is.    *)
(* Character k of name n is the pair <<n, k>>.  The indexes are 32 bits    *)
(* wide; the table is taken to be smaller than that.                       *)
(***************************************************************************)
EXTENDS Integers

CONSTANTS
  Names,            \* the names files may have
  Length,           \* the length of each name
  InitialStrings,   \* capacity of a new table (1024)
  End,              \* the character that ends a name
  Junk              \* what new memory holds

StringTableAssumption ==
  /\ Length \in [Names -> Nat]
  /\ InitialStrings \in Nat \ {0, 1}
  /\ \A n \in Names : \A k \in 1 .. Length[n] : <<n, k>> \notin {End, Junk}
  /\ End # Junk

VARIABLES
  memory,           \* m_Memory
  capacity,         \* m_Capacity
  allocated,        \* m_Allocated
  overrun           \* a name was written past the end of the memory

vars == <<memory, capacity, allocated, overrun>>

Char == (UNION {{<<n, k>> : k \in 1 .. Length[n]} : n \in Names}) \cup {End, Junk}

TypeOK ==
  /\ capacity \in Nat \ {0}
  /\ allocated \in 1 .. capacity
  /\ memory \in [0 .. capacity - 1 -> Char]
  /\ overrun \in BOOLEAN

Init ==
  /\ memory = [i \in 0 .. InitialStrings - 1 |-> IF i = 0 THEN End ELSE Junk]
  /\ capacity = InitialStrings
  /\ allocated = 1
  /\ overrun = FALSE

(* Faulty: the zero is not counted. *)
CapacityWithoutEnd(n) ==
  IF allocated + Length[n] > capacity THEN 2 * capacity ELSE capacity

(* The capacity Alloc sees to before it writes name n. *)
CapacityFor(n) ==
  IF allocated + Length[n] + 1 >= capacity THEN 2 * capacity ELSE capacity

(* Faulty: the next name is written over the zero. *)
WrittenWithoutEnd(n) == Length[n]

(* How far the end of the table moves. *)
Written(n) == Length[n] + 1

(* Realloc keeps what is there; memcpy and the zero come behind it. *)
Stored(n) ==
  [i \in 0 .. CapacityFor(n) - 1 |->
     IF i \in allocated .. allocated + Length[n] - 1 THEN <<n, i - allocated + 1>>
     ELSE IF i = allocated + Length[n] THEN End
     ELSE IF i < capacity THEN memory[i]
     ELSE Junk]

(* The index Alloc returns. *)
IndexOf(n) == IF Length[n] = 0 THEN 0 ELSE allocated

AllocEmpty(n) ==
  /\ Length[n] = 0
  /\ UNCHANGED <<memory, capacity, allocated, overrun>>

AllocFits(n) ==
  /\ Length[n] # 0
  /\ allocated + Length[n] + 1 <= CapacityFor(n)
  /\ memory' = Stored(n)
  /\ capacity' = CapacityFor(n)
  /\ allocated' = allocated + Written(n)
  /\ UNCHANGED overrun

AllocOverruns(n) ==
  /\ Length[n] # 0
  /\ allocated + Length[n] + 1 > CapacityFor(n)
  /\ overrun' = TRUE
  /\ UNCHANGED <<memory, capacity, allocated>>

Alloc(n) ==
  /\ ~overrun
  /\ AllocEmpty(n) \/ AllocFits(n) \/ AllocOverruns(n)

Next == \E n \in Names : Alloc(n)

Spec == Init /\ [][Next]_vars

-----------------------------------------------------------------------------
(* What Get(i) points to, read up to the zero, is name n. *)
Reads(i, n) ==
  /\ i < allocated
  /\ \A k \in 1 .. Length[n] : memory[i + k - 1] = <<n, k>>
  /\ memory[i + Length[n]] = End
=============================================================================
