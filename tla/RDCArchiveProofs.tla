-------------------------- MODULE RDCArchiveProofs --------------------------
(***************************************************************************)
(* Proofs about RDCArchive for any lists and contents of any sizes, and     *)
(* about BlockCodec for any texts and whatever zlib makes of them.         *)
(***************************************************************************)
EXTENDS RDCArchive, BlockCodec, TLAPS

(* Blocks lie inside the file and never begin at the same place. *)
WellFormed(f) ==
  /\ f.size \in Nat
  /\ \A b \in f.blocks : /\ b.at \in Nat
                         /\ b.size \in Nat \ {0}
                         /\ b.at + b.size =< f.size
  /\ \A b, c \in f.blocks : b.at = c.at => b = c

(* The file holds data where the descriptor d points. *)
Stored(f, d, data) ==
  d.size # 0 => \E b \in f.blocks : /\ b.data = data
                                    /\ b.size = d.size
                                    /\ d.at = b.at % PointerSpace

ContentsStored(f) ==
  \A i \in DOMAIN list : given[i] # NoContent =>
    /\ blocks[i].size = ContentSize[given[i]]
    /\ Stored(f, blocks[i], <<"content", given[i]>>)

SectionsStored(f, n) ==
  \A i \in 1 .. 6 : i < n /\ Sections[i] # "RawData" =>
    /\ i \in DOMAIN sections
    /\ sections[i].size = SectionSize(Sections[i])
    /\ Stored(f, sections[i], Payload(Sections[i]))

TableStored(f) ==
  table.size = TableSize /\ Stored(f, table, <<"table", sections>>)

Linked(f) == ContentsStored(f) /\ SectionsStored(f, 7) /\ TableStored(f)

HeaderStored(f) ==
  \E b \in f.blocks : b.at = 0 /\ b.size = HeaderSize /\ b.data = <<"header">>

(* An entry, or a section, that is said to be where only the header is. *)
EntryMarked(i) == (given[i] # NoContent \/ blocks[i].size # 0) /\ blocks[i].at = 0

EntriesMarked(n) == \E i \in DOMAIN list : i < n /\ EntryMarked(i)

SectionsMarked(n) ==
  \E i \in 1 .. 6 : i < n /\ Sections[i] # "RawData" /\ sections[i].at = 0

(* While an export is under way nothing was lost so far, or what was       *)
(* written next shows it.                                                  *)
LossesMarked ==
  /\ phase \in {"header", "files", "sections", "footer"} =>
       \A b \in file.blocks : b.data[1] # "footer"
  /\ phase = "sections" => next \in 1 .. 7
  /\ phase \in {"header", "files", "sections"} => DOMAIN sections = 1 .. 6
  /\ phase = "header" => \A i \in DOMAIN list : given[i] = NoContent
  /\ phase = "files" => ContentsStored(file) \/ EntriesMarked(next)
  /\ phase = "sections" =>
       \/ ContentsStored(file) /\ SectionsStored(file, next)
       \/ EntriesMarked(Len(list) + 1) \/ SectionsMarked(next)
  /\ phase = "footer" => /\ Linked(file) \/ LossIsMarked
                         /\ flushed < file.size
                         /\ file.size % 8 \in {0, 7}

(* The header is in the buffer until RawData asks for the size; from then  *)
(* on it is on the disk, or RawData's location says it is lost.            *)
HeaderKept ==
  /\ phase = "header" => HeaderStored(file)
  /\ phase \in {"files", "sections", "footer", "close"} =>
       HeaderLost \/ (HeaderStored(file) /\ flushed >= HeaderSize)

(* The footer comes after everything it leads to. *)
FooterLeadsToAll(f) ==
  \A b \in f.blocks : b.data[1] = "footer" =>
    /\ b.data = <<"footer", table>>
    /\ Linked(f) \/ LossIsMarked
    /\ \A c \in f.blocks : c.at + c.size =< b.at + b.size

(* Before the device is released the footer is the end of the file. *)
FooterWritten ==
  phase = "close" =>
    /\ file.size >= FooterSize
    /\ \E b \in file.blocks : /\ b.data[1] = "footer"
                              /\ b.size = FooterSize
                              /\ b.at + b.size = file.size

IInv ==
  /\ TypeOK
  /\ WellFormed(file)
  /\ LossesMarked
  /\ HeaderKept
  /\ FooterLeadsToAll(file)
  /\ FooterWritten

-----------------------------------------------------------------------------
(* The file's operators. *)

LEMMA GapSpec ==
  ASSUME NEW pos \in Nat
  PROVE  Gap(pos) \in Nat /\ (pos + Gap(pos)) % 8 \in {0, 7}
         /\ (pos % 8 \in {0, 7} => Gap(pos) = 0)
BY DEF Gap, BlockAlignmentValue

(* Appending keeps the blocks, adds one unless there is nothing to write,  *)
(* and ends at 0 or 7 modulo 8.                                            *)
LEMMA WrittenSpec ==
  ASSUME NEW f, WellFormed(f), NEW data, NEW n \in Nat
  PROVE  /\ WellFormed(Written(f, data, n))
         /\ Written(f, data, n).size >= f.size
         /\ f.blocks \subseteq Written(f, data, n).blocks
         /\ \A b \in Written(f, data, n).blocks :
              b \in f.blocks \/ b = [at |-> f.size, size |-> n, data |-> data]
         /\ n # 0 => /\ [at |-> f.size, size |-> n, data |-> data] \in Written(f, data, n).blocks
                     /\ Written(f, data, n).size = f.size + n + Gap(f.size + n)
                     /\ Written(f, data, n).size % 8 \in {0, 7}
         /\ n = 0 => Written(f, data, n) = f
<1>1. CASE n = 0
  BY <1>1 DEF Written, WellFormed
<1>2. CASE n # 0
  <2> DEFINE w == Written(f, data, n)
             new == [at |-> f.size, size |-> n, data |-> data]
  <2>1. w = [size |-> f.size + n + Gap(f.size + n), blocks |-> f.blocks \cup {new}]
    BY <1>2 DEF Written
  <2>2. f.size \in Nat /\ f.size + n \in Nat
    BY DEF WellFormed
  <2>3. Gap(f.size + n) \in Nat /\ (f.size + n + Gap(f.size + n)) % 8 \in {0, 7}
    BY <2>2, GapSpec
  <2>4. new.at = f.size /\ new.size = n /\ new.size \in Nat \ {0}
    BY <1>2
  <2>5. w.size \in Nat /\ w.size >= f.size + n /\ w.blocks = f.blocks \cup {new}
    BY <2>1, <2>2, <2>3
  <2>6. WellFormed(w)
    <3>1. \A b \in w.blocks : b.at \in Nat /\ b.size \in Nat \ {0} /\ b.at + b.size =< w.size
      BY <2>2, <2>4, <2>5 DEF WellFormed
    <3>2. \A b \in f.blocks : b.at # new.at
      BY <2>2, <2>4 DEF WellFormed
    <3>3. \A b, c \in w.blocks : b.at = c.at => b = c
      BY <2>5, <3>2 DEF WellFormed
    <3> QED BY <2>5, <3>1, <3>3 DEF WellFormed
  <2> QED BY <1>2, <2>1, <2>2, <2>3, <2>5, <2>6
<1> QED BY <1>1, <1>2

LEMMA CutSpec ==
  ASSUME NEW f, WellFormed(f), NEW n \in Nat
  PROVE  /\ WellFormed(Cut(f, n))
         /\ Cut(f, n).size = n
         /\ Cut(f, n).blocks = {b \in f.blocks : b.at + b.size =< n}
         /\ Cut(f, n).blocks \subseteq f.blocks
         /\ n >= f.size => Cut(f, n).blocks = f.blocks
BY DEF WellFormed, Cut

(* What was appended reads back. *)
LEMMA ReadSpec ==
  ASSUME NEW f, WellFormed(f), NEW b \in f.blocks
  PROVE  Read(f, b.at, b.size) = b.data
<1>1. BlocksAt(f, b.at, b.size) = {b}
  BY DEF BlocksAt, WellFormed
<1>2. b.size # 0 /\ ~(b.at + b.size > f.size)
  BY DEF WellFormed
<1> QED BY <1>1, <1>2 DEF Read

-----------------------------------------------------------------------------
(* The stream. *)

LEMMA CutPointsSpec ==
  ASSUME NEW f, WellFormed(f), NEW low \in Nat, NEW c \in CutPoints(f, low)
  PROVE  c \in Nat /\ low =< c /\ c < f.size
<1>1. c \in {low, f.size - 1} \cup {b.at + b.size : b \in f.blocks} /\ low =< c /\ c < f.size
  BY DEF CutPoints
<1>2. CASE c = low
  BY <1>1, <1>2
<1>3. CASE c = f.size - 1
  BY <1>1, <1>3 DEF WellFormed
<1>4. CASE c \in {b.at + b.size : b \in f.blocks}
  BY <1>1, <1>4 DEF WellFormed
<1> QED BY <1>1, <1>2, <1>3, <1>4

LEMMA FlushSpec ==
  ASSUME TypeOK, WellFormed(file), NEW f \in Flush
  PROVE  /\ WellFormed(f.file)
         /\ f.ok \in BOOLEAN
         /\ f.file.blocks \subseteq file.blocks
         /\ f.ok => f.file = file
         /\ ~full => f.ok
         /\ full /\ flushed < file.size => ~f.ok
         /\ ~f.ok => \E n \in Nat : f.file = Cut(file, n)
         /\ f.file.size >= flushed
         /\ \A b \in file.blocks : b.at + b.size =< flushed => b \in f.file.blocks
<1>1. CASE full /\ flushed < file.size
  <2>1. PICK n \in CutPoints(file, flushed) : f = [file |-> Cut(file, n), ok |-> FALSE]
    BY <1>1 DEF Flush
  <2>2. n \in Nat /\ flushed =< n
    BY CutPointsSpec DEF TypeOK, WellFormed
  <2> DEFINE g == Cut(file, n)
  <2>3. /\ WellFormed(g) /\ g.size = n
        /\ g.blocks = {b \in file.blocks : b.at + b.size =< n}
    BY <2>2, CutSpec
  <2>4. f.file = g /\ f.ok = FALSE
    BY <2>1
  <2> HIDE DEF g
  <2>5. \A b \in file.blocks : b.at + b.size =< flushed => b.at + b.size =< n
    BY <2>2 DEF WellFormed, TypeOK
  <2>6. \A b \in file.blocks : b.at + b.size =< flushed => b \in f.file.blocks
    BY <2>3, <2>4, <2>5
  <2>7. f.file.size >= flushed /\ f.file.blocks \subseteq file.blocks
    BY <2>2, <2>3, <2>4
  <2> QED BY <1>1, <2>2, <2>3, <2>4, <2>6, <2>7 DEF g
<1>2. CASE ~(full /\ flushed < file.size)
  <2>1. f = [file |-> file, ok |-> TRUE]
    BY <1>2 DEF Flush
  <2>2. file.size >= flushed
    BY DEF TypeOK
  <2> QED BY <1>2, <2>1, <2>2
<1> QED BY <1>1, <1>2

LEMMA AppendedSpec ==
  ASSUME TypeOK, NEW f, WellFormed(f), NEW data, NEW n \in Nat,
         NEW w \in Appended(f, data, n)
  PROVE  /\ WellFormed(w.file)
         /\ w.flushed \in 0 .. w.file.size
         /\ w.ok \in BOOLEAN
         /\ \A b \in w.file.blocks :
              b \in f.blocks \/ b = [at |-> f.size, size |-> n, data |-> data]
         /\ ~full => w.ok
         /\ w.ok => w.file = Written(f, data, n) /\ w.flushed = f.size
         /\ n = 0 => w.ok
         /\ w.flushed >= f.size
         /\ f.blocks \subseteq w.file.blocks
<1> DEFINE x == Written(f, data, n)
<1>1. WellFormed(x) /\ x.size >= f.size /\ f.size \in Nat /\ x.size \in Nat
  <2>1. WellFormed(x)
    BY WrittenSpec
  <2>2. x.size >= f.size
    BY WrittenSpec
  <2> QED BY <2>1, <2>2 DEF WellFormed
<1>2. /\ f.blocks \subseteq x.blocks
      /\ \A b \in x.blocks : b \in f.blocks \/ b = [at |-> f.size, size |-> n, data |-> data]
      /\ n = 0 => x = f
  BY WrittenSpec
<1>3. w \in {[file |-> x, flushed |-> f.size, ok |-> TRUE]} \cup
           {[file |-> Cut(x, c), flushed |-> c, ok |-> FALSE] :
              c \in IF full THEN CutPoints(x, f.size) ELSE {}}
  BY DEF Appended
<1> HIDE DEF x
<1>4. CASE w = [file |-> x, flushed |-> f.size, ok |-> TRUE]
  <2>1. w.file = x /\ w.flushed = f.size /\ w.ok = TRUE
    BY <1>4
  <2>2. WellFormed(w.file)
    BY <1>1, <2>1
  <2>3. w.flushed \in 0 .. w.file.size
    BY <1>1, <2>1
  <2>4. \A b \in w.file.blocks :
          b \in f.blocks \/ b = [at |-> f.size, size |-> n, data |-> data]
    BY <1>2, <2>1
  <2>5. w.flushed >= f.size /\ f.blocks \subseteq w.file.blocks
    BY <1>1, <1>2, <2>1
  <2> QED BY <2>1, <2>2, <2>3, <2>4, <2>5 DEF x
<1>5. CASE full /\ \E c \in CutPoints(x, f.size) :
             w = [file |-> Cut(x, c), flushed |-> c, ok |-> FALSE]
  <2>1. PICK c \in CutPoints(x, f.size) :
             w = [file |-> Cut(x, c), flushed |-> c, ok |-> FALSE]
    BY <1>5
  <2>2. w.file = Cut(x, c) /\ w.flushed = c /\ w.ok = FALSE
    BY <2>1
  <2>3. c \in Nat /\ f.size =< c /\ c < x.size
    BY <1>1, CutPointsSpec
  <2> DEFINE y == Cut(x, c)
  <2>4. /\ WellFormed(y) /\ y.size = c /\ y.blocks \subseteq x.blocks
        /\ y.blocks = {b \in x.blocks : b.at + b.size =< c}
    <3>1. WellFormed(x) /\ c \in Nat
      BY <1>1, <2>3
    <3> QED BY <3>1, CutSpec
  <2>5. w.file = y
    BY <2>2
  <2> HIDE DEF y
  <2>6. \A b \in w.file.blocks :
          b \in f.blocks \/ b = [at |-> f.size, size |-> n, data |-> data]
    BY <1>2, <2>4, <2>5
  <2>7. WellFormed(w.file) /\ w.flushed \in 0 .. w.file.size
    BY <2>2, <2>3, <2>4, <2>5
  <2>8. n # 0
    BY <1>1, <1>2, <2>3
  <2>9. f.blocks \subseteq w.file.blocks
    <3> SUFFICES ASSUME NEW b \in f.blocks PROVE b.at + b.size =< c
      BY <1>2, <2>4, <2>5
    <3>1. b.at + b.size =< f.size /\ b.at + b.size \in Nat
      BY DEF WellFormed
    <3> QED BY <1>1, <2>3, <3>1
  <2> QED BY <1>5, <2>2, <2>3, <2>6, <2>7, <2>8, <2>9
<1> QED BY <1>3, <1>4, <1>5

(* One block of an export: nothing is written but the block, what was on   *)
(* the disk stays, and unless the descriptor points to 0 nothing is lost   *)
(* and a block that could be written is where it points.                   *)
LEMMA WriteBlockSpec ==
  ASSUME TypeOK, WellFormed(file), NEW data, NEW n \in Nat,
         NEW w \in WriteBlock(data, n)
  PROVE  /\ WellFormed(w.file)
         /\ w.flushed \in 0 .. w.file.size
         /\ w.flushed >= flushed
         /\ w.ok \in BOOLEAN
         /\ w.at \in 0 .. PointerSpace - 1
         /\ \A b \in w.file.blocks : b \in file.blocks \/ b.data = data
         /\ \A b \in file.blocks : b.at + b.size =< flushed => b \in w.file.blocks
         /\ n = 0 => w.ok
         /\ w.ok /\ n # 0 => w.flushed < w.file.size /\ w.file.size % 8 \in {0, 7}
         /\ w.at # 0 => file.blocks \subseteq w.file.blocks
         /\ w.at # 0 /\ w.ok => Stored(w.file, [at |-> w.at, size |-> n], data)
<1>1. PICK f \in Flush : \E a \in Appended(f.file, data, n) :
             w = [file |-> a.file, flushed |-> a.flushed, ok |-> a.ok, at |-> Location(f)]
  BY DEF WriteBlock
<1>a. PICK a \in Appended(f.file, data, n) :
             w = [file |-> a.file, flushed |-> a.flushed, ok |-> a.ok, at |-> Location(f)]
  BY <1>1
<1>2. w.file = a.file /\ w.flushed = a.flushed /\ w.ok = a.ok /\ w.at = Location(f)
  BY <1>a
<1>3. /\ WellFormed(f.file) /\ f.file.size \in Nat /\ f.file.size >= flushed
      /\ f.ok \in BOOLEAN /\ (f.ok => f.file = file)
      /\ f.file.blocks \subseteq file.blocks
      /\ \A b \in file.blocks : b.at + b.size =< flushed => b \in f.file.blocks
  BY FlushSpec DEF WellFormed
<1>4. w.at \in 0 .. PointerSpace - 1 /\ (w.at # 0 => f.ok)
  BY <1>2, <1>3, RDCAssumption DEF Location
<1> DEFINE g == f.file
<1>5. /\ WellFormed(a.file)
      /\ a.flushed \in 0 .. a.file.size
      /\ a.ok \in BOOLEAN
      /\ \A b \in a.file.blocks : b \in g.blocks \/ b = [at |-> g.size, size |-> n, data |-> data]
      /\ a.ok => a.file = Written(g, data, n) /\ a.flushed = g.size
      /\ n = 0 => a.ok
      /\ a.flushed >= g.size
      /\ g.blocks \subseteq a.file.blocks
  BY <1>3, AppendedSpec
<1>6. \A b \in w.file.blocks : b \in file.blocks \/ b.data = data
  BY <1>2, <1>3, <1>5
<1>7. \A b \in file.blocks : b.at + b.size =< flushed => b \in w.file.blocks
  BY <1>2, <1>3, <1>5
<1>8. w.flushed >= flushed
  <2>1. w.flushed \in Nat /\ flushed \in Nat
    BY <1>2, <1>5 DEF TypeOK, WellFormed
  <2> QED BY <1>2, <1>3, <1>5, <2>1
<1>9. ASSUME w.ok, n # 0
      PROVE  w.flushed < w.file.size /\ w.file.size % 8 \in {0, 7}
  <2>1. w.file = Written(g, data, n) /\ w.flushed = g.size
    BY <1>2, <1>5, <1>9
  <2> HIDE DEF g
  <2>2. WellFormed(g) /\ g.size \in Nat
    BY <1>3 DEF g
  <2>3. /\ Written(g, data, n).size = g.size + n + Gap(g.size + n)
        /\ Written(g, data, n).size % 8 \in {0, 7}
    BY <1>9, <2>2, WrittenSpec
  <2>4. Gap(g.size + n) \in Nat
    BY <2>2, GapSpec
  <2> QED BY <1>9, <2>1, <2>2, <2>3, <2>4
<1>10. ASSUME w.at # 0
       PROVE  file.blocks \subseteq w.file.blocks
  BY <1>2, <1>3, <1>4, <1>5, <1>10
<1>11. ASSUME w.at # 0, w.ok
       PROVE  Stored(w.file, [at |-> w.at, size |-> n], data)
  <2>1. f.ok /\ g = file
    BY <1>3, <1>4, <1>11
  <2>2. w.file = Written(file, data, n) /\ w.at = file.size % PointerSpace
    BY <1>2, <1>5, <1>11, <2>1 DEF Location
  <2> DEFINE b == [at |-> file.size, size |-> n, data |-> data]
  <2>3. b.at = file.size /\ b.size = n /\ b.data = data
    OBVIOUS
  <2>4. n # 0 => b \in w.file.blocks
    BY <2>2, WrittenSpec
  <2> QED BY <2>2, <2>3, <2>4 DEF Stored
<1>12. /\ WellFormed(w.file) /\ w.flushed \in 0 .. w.file.size /\ w.ok \in BOOLEAN
       /\ n = 0 => w.ok
  BY <1>2, <1>5
<1> QED BY <1>4, <1>6, <1>7, <1>8, <1>9, <1>10, <1>11, <1>12

-----------------------------------------------------------------------------
(* What more blocks, or fewer, change in the parts of the invariant. *)

LEMMA StoredMore ==
  ASSUME NEW f, NEW g, f.blocks \subseteq g.blocks
  PROVE  /\ \A d, data : Stored(f, d, data) => Stored(g, d, data)
         /\ ContentsStored(f) => ContentsStored(g)
         /\ \A n : SectionsStored(f, n) => SectionsStored(g, n)
         /\ TableStored(f) => TableStored(g)
         /\ Linked(f) => Linked(g)
         /\ HeaderStored(f) => HeaderStored(g)
<1>1. \A d, data : Stored(f, d, data) => Stored(g, d, data)
  BY DEF Stored
<1>2. ContentsStored(f) => ContentsStored(g)
  BY <1>1 DEF ContentsStored
<1>3. \A n : SectionsStored(f, n) => SectionsStored(g, n)
  BY <1>1 DEF SectionsStored
<1>4. TableStored(f) => TableStored(g)
  BY <1>1 DEF TableStored
<1>5. HeaderStored(f) => HeaderStored(g)
  BY DEF HeaderStored
<1> QED BY <1>1, <1>2, <1>3, <1>4, <1>5 DEF Linked

(* A cut that keeps the footer keeps everything. *)
LEMMA CutKeepsFooter ==
  ASSUME NEW f, WellFormed(f), FooterLeadsToAll(f), NEW n \in Nat
  PROVE  FooterLeadsToAll(Cut(f, n))
<1> DEFINE g == Cut(f, n)
<1>1. g.blocks = {b \in f.blocks : b.at + b.size =< n}
  BY CutSpec
<1> HIDE DEF g
<1> SUFFICES ASSUME NEW b \in g.blocks, b.data[1] = "footer"
             PROVE  /\ b.data = <<"footer", table>>
                    /\ Linked(g) \/ LossIsMarked
                    /\ \A c \in g.blocks : c.at + c.size =< b.at + b.size
  BY DEF FooterLeadsToAll, g
<1>2. /\ b \in f.blocks
      /\ b.at + b.size =< n
      /\ b.data = <<"footer", table>>
      /\ Linked(f) \/ LossIsMarked
      /\ \A c \in f.blocks : c.at + c.size =< b.at + b.size
  BY <1>1 DEF FooterLeadsToAll
<1>3. f.blocks \subseteq g.blocks
  <2> SUFFICES ASSUME NEW c \in f.blocks PROVE c.at + c.size =< n
    BY <1>1
  <2>1. c.at + c.size \in Nat /\ b.at + b.size \in Nat
    BY <1>2 DEF WellFormed
  <2> QED BY <1>2, <2>1
<1> QED BY <1>1, <1>2, <1>3, StoredMore

(* What a footer leads to is read from the descriptors alone. *)
LEMMA DataUnchanged ==
  ASSUME UNCHANGED <<list, given, blocks, sections, table>>, FooterLeadsToAll(file')
  PROVE  FooterLeadsToAll(file)'
<1>1. Linked(file') => Linked(file)'
  BY DEF Linked, ContentsStored, SectionsStored, TableStored, Stored, SectionSize, Payload
<1>2. LossIsMarked => LossIsMarked'
  BY DEF LossIsMarked
<1> QED BY <1>1, <1>2 DEF FooterLeadsToAll

LEMMA SectionFacts ==
  ASSUME TypeOK
  PROVE  /\ Len(Sections) = 6
         /\ \A i \in 1 .. 6 :
              /\ SectionSize(Sections[i]) \in Nat
              /\ Sections[i] # "RawData" => SectionSize(Sections[i]) # 0
              /\ Payload(Sections[i])[1] # "footer"
         /\ \A i \in 1 .. 6 : Sections[i] = "RawData" <=> i = 3
         /\ Sections[4] = "OffsetDataBlockTable"
<1>1. /\ Len(Sections) = 6 /\ Sections[4] = "OffsetDataBlockTable"
      /\ \A i \in 1 .. 6 : Sections[i] = "RawData" <=> i = 3
  BY DEF Sections
<1>2. Len(list) \in Nat
  BY DEF TypeOK
<1>3. \A i \in 1 .. 6 : Sections[i] \in {"MountEntry", "StringTable", "RawData",
        "OffsetDataBlockTable", "FileStructureTable", "HashTable"}
  BY DEF Sections
<1>4. NameBytes * Len(list) \in Nat
  BY <1>2, RDCAssumption
<1>5. ASSUME NEW k \in {"MountEntry", "StringTable", "RawData",
        "OffsetDataBlockTable", "FileStructureTable", "HashTable"}
      PROVE  /\ SectionSize(k) \in Nat
             /\ k # "RawData" => SectionSize(k) # 0
             /\ Payload(k)[1] # "footer"
  <2>1. SectionSize(k) \in Nat /\ (k # "RawData" => SectionSize(k) # 0)
    BY <1>2, <1>4 DEF SectionSize
  <2>2. Payload(k)[1] # "footer"
    BY DEF Payload
  <2> QED BY <2>1, <2>2
<1> QED BY <1>1, <1>3, <1>5

-----------------------------------------------------------------------------
(* The steps. *)

LEMMA InitInv == Init => IInv
<1> SUFFICES ASSUME Init PROVE IInv
  OBVIOUS
<1>1. file.size = 0 /\ file.blocks = {}
  BY DEF Init, EmptyFile
<1>2. TypeOK
  <2>1. /\ list = <<>> /\ given = <<>> /\ blocks = <<>> /\ sections = <<>>
        /\ table = [at |-> 0, size |-> 0]
        /\ flushed = 0 /\ phase = "idle" /\ next = 1 /\ fills = 0
        /\ result = "None" /\ exports = 0
    BY DEF Init, NoBlock
  <2>2. opened = (phase # "idle")
    BY DEF Init
  <2>3. list \in Seq(Entry) /\ DOMAIN list = {} /\ DOMAIN given = {}
        /\ DOMAIN blocks = {} /\ DOMAIN sections = {}
    BY <2>1
  <2>4. table \in Block
    BY <2>1, RDCAssumption DEF Block
  <2>5. file.size \in Nat /\ flushed \in 0 .. file.size /\ exports \in 0 .. MaxExports
        /\ fills \in 0 .. MaxFills
    BY <1>1, <2>1, RDCAssumption
  <2>6. phase \in Phases /\ result \in Results /\ next \in Nat \ {0}
    BY <2>1 DEF Phases, Results
  <2>7. full \in BOOLEAN
    BY DEF Init
  <2> QED BY <2>2, <2>3, <2>4, <2>5, <2>6, <2>7 DEF TypeOK
<1>3. WellFormed(file)
  BY <1>1 DEF WellFormed
<1>4. LossesMarked /\ HeaderKept /\ FooterLeadsToAll(file) /\ FooterWritten
  BY <1>1 DEF Init, LossesMarked, HeaderKept, FooterLeadsToAll, FooterWritten
<1> QED BY <1>2, <1>3, <1>4 DEF IInv

LEMMA BeginFileInv ==
  ASSUME IInv, NEW l \in Lists, BeginFile(l)
  PROVE  IInv'
<1> DEFINE header == <<"header">>
<1>1. WellFormed(EmptyFile) /\ EmptyFile.size = 0 /\ EmptyFile.blocks = {}
  BY DEF EmptyFile, WellFormed
<1>2. file' = Written(EmptyFile, header, 16) /\ flushed' = 0 /\ phase' = "header"
  BY DEF BeginFile, HeaderSize
<1>4. file'.size = 16 /\ file'.blocks = {[at |-> 0, size |-> 16, data |-> header]}
  BY <1>1, <1>2 DEF Written, Gap, BlockAlignmentValue
<1>3. WellFormed(file')
  BY <1>4 DEF WellFormed
<1>5. TypeOK'
  <2>1. l \in Seq(Entry) /\ DOMAIN l = 1 .. Len(l)
    BY RDCAssumption
  <2>2. file'.size \in Nat /\ flushed' \in 0 .. file'.size
    BY <1>2, <1>4
  <2>3. /\ list' \in Seq(Entry)
        /\ DOMAIN given' = DOMAIN list'
        /\ \A i \in DOMAIN list' : given'[i] \in Contents \cup {NoContent}
        /\ DOMAIN blocks' = DOMAIN list'
        /\ \A i \in DOMAIN list' : blocks'[i] \in Block
        /\ \A i \in DOMAIN sections' : sections'[i] \in Block
        /\ table' \in Block
    BY <2>1, RDCAssumption DEF BeginFile, Block, NoBlock
  <2>4. /\ full' \in BOOLEAN /\ fills' \in 0 .. MaxFills
        /\ next' \in Nat \ {0}
        /\ exports' \in 0 .. MaxExports
        /\ phase' \in Phases /\ result' \in Results
    BY RDCAssumption DEF IInv, TypeOK, BeginFile, Phases, Results
  <2>5. opened' = (phase' # "idle")
    BY <1>2 DEF BeginFile
  <2> QED BY <2>2, <2>3, <2>4, <2>5 DEF TypeOK
<1>6. \A b \in file'.blocks : b.data[1] # "footer"
  BY <1>4
<1>7. (\A i \in DOMAIN list : given[i] = NoContent)' /\ HeaderStored(file)'
  <2>1. \A i \in DOMAIN list' : given'[i] = NoContent
    BY RDCAssumption DEF BeginFile
  <2>2. HeaderStored(file)'
    BY <1>4 DEF HeaderStored, HeaderSize
  <2> QED BY <2>1, <2>2
<1>8. LossesMarked' /\ HeaderKept'
  <2>1. DOMAIN sections' = 1 .. 6
    BY DEF BeginFile, Sections
  <2> QED BY <1>2, <1>4, <1>6, <1>7, <2>1 DEF LossesMarked, HeaderKept
<1>9. FooterLeadsToAll(file)' /\ FooterWritten'
  BY <1>2, <1>6 DEF FooterLeadsToAll, FooterWritten
<1> QED BY <1>3, <1>5, <1>8, <1>9 DEF IInv

(* What is on the disk stays there, the header with it. *)
LEMMA HeaderStays ==
  ASSUME IInv, phase \in {"files", "sections", "footer"}, phase' # "header",
         HeaderLost => HeaderLost', flushed' \in Nat, flushed' >= flushed,
         \A b \in file.blocks : b.at + b.size =< flushed => b \in file'.blocks
  PROVE  HeaderKept'
<1>1. CASE HeaderLost
  BY <1>1 DEF HeaderKept
<1>2. CASE HeaderStored(file) /\ flushed >= HeaderSize
  <2>1. PICK b \in file.blocks : b.at = 0 /\ b.size = HeaderSize /\ b.data = <<"header">>
    BY <1>2 DEF HeaderStored
  <2>2. b \in file'.blocks
    BY <1>2, <2>1 DEF HeaderSize, IInv, TypeOK
  <2>3. flushed' >= HeaderSize
    BY <1>2 DEF HeaderSize, IInv, TypeOK
  <2> QED BY <2>1, <2>2, <2>3 DEF HeaderKept, HeaderStored
<1> QED BY <1>1, <1>2 DEF IInv, HeaderKept

LEMMA CreateRawDataSectionInv ==
  ASSUME IInv, CreateRawDataSection
  PROVE  IInv'
<1>1. /\ phase = "header" /\ phase' = "files"
      /\ UNCHANGED <<full, fills, list, given, blocks, table, next, opened, result, exports>>
  BY DEF CreateRawDataSection
<1>2. PICK f \in Flush :
       /\ file' = f.file
       /\ flushed' = f.file.size
       /\ sections' = [i \in 1 .. Len(Sections) |->
                         IF Sections[i] = "RawData" THEN [at |-> Location(f), size |-> 0]
                         ELSE NoBlock]
  BY DEF CreateRawDataSection
<1>3. /\ TypeOK /\ WellFormed(file) /\ HeaderStored(file)
      /\ \A i \in DOMAIN list : given[i] = NoContent
      /\ \A b \in file.blocks : b.data[1] # "footer"
      /\ Len(Sections) = 6
  BY <1>1, SectionFacts DEF IInv, LossesMarked, HeaderKept
<1>4. /\ WellFormed(f.file) /\ f.file.size \in Nat
      /\ f.file.blocks \subseteq file.blocks
      /\ f.ok => f.file = file
      /\ f.ok \in BOOLEAN
  BY <1>3, FlushSpec DEF WellFormed
<1>5. Location(f) \in 0 .. PointerSpace - 1 /\ (Location(f) # 0 => f.ok)
  BY <1>4, RDCAssumption DEF Location
<1>6. /\ DOMAIN sections' = 1 .. 6
      /\ \A i \in 1 .. 6 : sections'[i] = IF Sections[i] = "RawData"
                                          THEN [at |-> Location(f), size |-> 0] ELSE NoBlock
  BY <1>2, <1>3
<1>7. TypeOK'
  <2>1. \A i \in DOMAIN sections' : sections'[i] \in Block
    BY <1>5, <1>6, RDCAssumption DEF Block, NoBlock
  <2>2. file'.size \in Nat /\ flushed' \in 0 .. file'.size
    BY <1>2, <1>4
  <2>3. phase' \in Phases /\ opened' = (phase' # "idle")
    BY <1>1, <1>3 DEF Phases, TypeOK
  <2> QED BY <1>1, <1>3, <2>1, <2>2, <2>3 DEF TypeOK
<1>8. LossesMarked'
  <2>1. ContentsStored(file)'
    BY <1>1, <1>3 DEF ContentsStored
  <2>2. \A b \in file'.blocks : b.data[1] # "footer"
    BY <1>2, <1>3, <1>4
  <2> QED BY <1>1, <1>6, <2>1, <2>2 DEF LossesMarked
<1>9. HeaderKept'
  <2>1. CASE Location(f) = 0
    <3>1. Sections[3] = "RawData"
      BY DEF Sections
    <3>2. sections'[3].at = 0
      BY <1>6, <2>1, <3>1
    <3> QED BY <1>1, <1>3, <3>1, <3>2 DEF HeaderKept, HeaderLost
  <2>2. CASE f.ok
    <3>1. PICK b \in file.blocks : b.at = 0 /\ b.size = HeaderSize /\ b.data = <<"header">>
      BY <1>3 DEF HeaderStored
    <3>2. file' = file /\ flushed' = file.size
      BY <1>2, <1>4, <2>2
    <3>3. flushed' >= HeaderSize
      BY <1>3, <3>1, <3>2 DEF WellFormed, HeaderSize
    <3> QED BY <1>1, <3>1, <3>2, <3>3 DEF HeaderKept, HeaderStored
  <2> QED BY <1>5, <2>1, <2>2
<1>10. FooterLeadsToAll(file)' /\ FooterWritten' /\ WellFormed(file)'
  BY <1>1, <1>2, <1>3, <1>4 DEF FooterLeadsToAll, FooterWritten
<1> QED BY <1>7, <1>8, <1>9, <1>10 DEF IInv

LEMMA ExportEntryInv ==
  ASSUME IInv, ExportEntry
  PROVE  IInv'
<1>1. /\ phase = "files" /\ phase' = "files" /\ next \in 1 .. Len(list)
      /\ UNCHANGED <<full, fills, list, sections, table, opened, result, exports>>
      /\ next' = next + 1
  BY DEF ExportEntry, IInv, TypeOK
<1>2. /\ \A b \in file.blocks : b.data[1] # "footer"
      /\ DOMAIN sections = 1 .. 6
      /\ ContentsStored(file) \/ EntriesMarked(next)
  BY <1>1 DEF IInv, LossesMarked
<1>a. HeaderLost => HeaderLost'
  BY <1>1 DEF HeaderLost
<1>b. DOMAIN list = 1 .. Len(list) /\ next \in DOMAIN list
  BY <1>1 DEF IInv, TypeOK
<1>3. CASE UNCHANGED <<file, flushed, given, blocks>>
  <2>1. TypeOK'
    BY <1>1, <1>3 DEF IInv, TypeOK
  <2>2. WellFormed(file)' /\ FooterLeadsToAll(file)' /\ FooterWritten'
    BY <1>1, <1>2, <1>3 DEF IInv, FooterLeadsToAll, FooterWritten
  <2>3. ContentsStored(file)' \/ EntriesMarked(next)'
    <3>1. ContentsStored(file) => ContentsStored(file)'
      BY <1>1, <1>3 DEF ContentsStored, Stored
    <3>2. EntriesMarked(next) => EntriesMarked(next)'
      BY <1>1, <1>3, <1>b DEF EntriesMarked, EntryMarked
    <3> QED BY <1>2, <3>1, <3>2
  <2>4. LossesMarked'
    BY <1>1, <1>2, <1>3, <2>3 DEF LossesMarked
  <2>5. HeaderKept'
    BY <1>1, <1>3, <1>a, HeaderStays DEF IInv, TypeOK
  <2> QED BY <2>1, <2>2, <2>4, <2>5 DEF IInv
<1>4. ASSUME NEW c \in Contents, NEW w \in WriteBlock(<<"content", c>>, ContentSize[c]),
             file' = w.file, flushed' = w.flushed,
             given' = [given EXCEPT ![next] = IF w.ok THEN c ELSE NoContent],
             blocks' = [blocks EXCEPT ![next] = [at |-> w.at, size |-> ContentSize[c]]]
      PROVE  IInv'
  <2> DEFINE n == ContentSize[c]
             data == <<"content", c>>
  <2>1. n \in Nat
    BY RDCAssumption
  <2>2. TypeOK /\ WellFormed(file)
    BY DEF IInv
  <2>3. /\ WellFormed(w.file)
        /\ w.flushed \in 0 .. w.file.size /\ w.flushed >= flushed
        /\ w.ok \in BOOLEAN
        /\ w.at \in 0 .. PointerSpace - 1
        /\ \A b \in w.file.blocks : b \in file.blocks \/ b.data = data
        /\ \A b \in file.blocks : b.at + b.size =< flushed => b \in w.file.blocks
        /\ n = 0 => w.ok
        /\ w.at # 0 => file.blocks \subseteq w.file.blocks
        /\ w.at # 0 /\ w.ok => Stored(w.file, [at |-> w.at, size |-> n], data)
    BY <2>1, <2>2, WriteBlockSpec
  <2>6. /\ DOMAIN given' = DOMAIN list /\ DOMAIN blocks' = DOMAIN list
        /\ given'[next] = (IF w.ok THEN c ELSE NoContent)
        /\ blocks'[next] = [at |-> w.at, size |-> n]
        /\ \A i \in DOMAIN list \ {next} : given'[i] = given[i] /\ blocks'[i] = blocks[i]
    BY <1>4, <1>b, <2>2 DEF TypeOK
  <2>7. TypeOK'
    <3>1. file'.size \in Nat /\ flushed' \in 0 .. file'.size
      BY <1>4, <2>3 DEF WellFormed
    <3>2. \A i \in DOMAIN list : given'[i] \in Contents \cup {NoContent}
      BY <2>2, <2>6 DEF TypeOK
    <3>3. \A i \in DOMAIN list : blocks'[i] \in Block
      <4>1. blocks'[next] \in Block
        BY <2>1, <2>3, <2>6 DEF Block
      <4>2. \A i \in DOMAIN list \ {next} : blocks'[i] \in Block
        BY <2>2, <2>6 DEF TypeOK
      <4> QED BY <4>1, <4>2
    <3>4. next' \in Nat \ {0}
      BY <1>1
    <3> QED BY <1>1, <2>2, <2>6, <3>1, <3>2, <3>3, <3>4 DEF TypeOK
  <2>8. \A b \in file'.blocks : b.data[1] # "footer"
    BY <1>2, <1>4, <2>3
  <2>9. ContentsStored(file)' \/ EntriesMarked(next)'
    <3>1. CASE EntriesMarked(next)
      <4>1. PICK i \in DOMAIN list : i < next /\ EntryMarked(i)
        BY <3>1 DEF EntriesMarked
      <4>2. i \in DOMAIN list' /\ i < next' /\ i # next
        BY <1>1, <1>b, <4>1
      <4>3. EntryMarked(i)'
        BY <2>6, <4>1, <4>2 DEF EntryMarked
      <4> QED BY <4>2, <4>3 DEF EntriesMarked
    <3>2. CASE w.at = 0
      <4>1. c # NoContent
        BY RDCAssumption
      <4>2. given'[next] # NoContent \/ blocks'[next].size # 0
        BY <2>3, <2>6, <4>1
      <4>3. next \in DOMAIN list' /\ next < next' /\ blocks'[next].at = 0
        BY <1>1, <1>b, <2>6, <3>2
      <4> QED BY <4>2, <4>3 DEF EntriesMarked, EntryMarked
    <3>3. CASE ContentsStored(file) /\ w.at # 0
      <4>1. ContentsStored(w.file)
        BY <2>3, <3>3, StoredMore
      <4>2. ASSUME NEW i \in DOMAIN list, given'[i] # NoContent
            PROVE  /\ blocks'[i].size = ContentSize[given'[i]]
                   /\ Stored(w.file, blocks'[i], <<"content", given'[i]>>)
        <5>1. CASE i = next
          BY <2>3, <2>6, <3>3, <4>2, <5>1
        <5>2. CASE i # next
          BY <2>6, <4>1, <4>2, <5>2 DEF ContentsStored
        <5> QED BY <5>1, <5>2
      <4> QED BY <1>1, <1>4, <4>2 DEF ContentsStored, Stored
    <3> QED BY <1>2, <3>1, <3>2, <3>3
  <2>10. LossesMarked'
    BY <1>1, <1>2, <2>8, <2>9 DEF LossesMarked
  <2>11. HeaderKept'
    <3>1. flushed' \in Nat /\ flushed' >= flushed
      BY <1>4, <2>3 DEF WellFormed
    <3> QED BY <1>1, <1>4, <1>a, <2>3, <3>1, HeaderStays
  <2>12. FooterLeadsToAll(file)' /\ FooterWritten'
    BY <1>1, <2>8 DEF FooterLeadsToAll, FooterWritten
  <2> QED BY <1>4, <2>3, <2>7, <2>10, <2>11, <2>12 DEF IInv
<1> QED BY <1>3, <1>4 DEF ExportEntry

(* A failed write leaves a file without a footer. *)
LEMMA FailInv ==
  ASSUME IInv, phase \in {"sections", "footer"}, NEW w, Fail(w),
         UNCHANGED <<full, fills, list, given, blocks, sections, table, next, opened, exports>>,
         WellFormed(w.file), w.flushed \in 0 .. w.file.size,
         \A b \in w.file.blocks : b.data[1] # "footer"
  PROVE  IInv'
<1>1. file' = w.file /\ flushed' = w.flushed /\ phase' = "failed" /\ result' = "FatalError"
  BY DEF Fail
<1>2. opened' = (phase' # "idle")
  BY <1>1 DEF IInv, TypeOK
<1>3. TypeOK'
  <2>1. file'.size \in Nat /\ flushed' \in 0 .. file'.size
    BY <1>1 DEF WellFormed
  <2>2. phase' \in Phases /\ result' \in Results
    BY <1>1 DEF Phases, Results
  <2> QED BY <1>2, <2>1, <2>2 DEF IInv, TypeOK
<1>4. WellFormed(file)' /\ LossesMarked' /\ FooterLeadsToAll(file)' /\ FooterWritten'
  BY <1>1 DEF LossesMarked, FooterLeadsToAll, FooterWritten
<1>5. HeaderKept'
  BY <1>1 DEF HeaderKept
<1> QED BY <1>3, <1>4, <1>5 DEF IInv

LEMMA CloseFileInv ==
  ASSUME IInv, CloseFile
  PROVE  IInv'
<1>1. /\ phase = "files" /\ phase' = "sections" /\ next' = 1 /\ next > Len(list)
      /\ UNCHANGED <<file, flushed, full, fills, list, given, blocks, sections, table,
                     opened, result, exports>>
  BY DEF CloseFile
<1>2. opened' = (phase' # "idle")
  BY <1>1 DEF IInv, TypeOK
<1>3. TypeOK'
  <2>1. phase' \in Phases /\ next' \in Nat \ {0}
    BY <1>1 DEF Phases
  <2> QED BY <1>1, <1>2, <2>1 DEF IInv, TypeOK
<1>4. \A b \in file'.blocks : b.data[1] # "footer"
  BY <1>1 DEF IInv, LossesMarked
<1>5. LossesMarked'
  <2>1. SectionsStored(file, next)'
    BY <1>1 DEF SectionsStored
  <2>2. ContentsStored(file) => ContentsStored(file)'
    BY <1>1 DEF ContentsStored, Stored
  <2>3. EntriesMarked(next) => EntriesMarked(Len(list) + 1)'
    <3> SUFFICES ASSUME NEW i \in DOMAIN list, EntryMarked(i)
                 PROVE  EntriesMarked(Len(list) + 1)'
      BY DEF EntriesMarked
    <3>1. i \in DOMAIN list' /\ i < Len(list') + 1
      BY <1>1 DEF IInv, TypeOK
    <3>2. EntryMarked(i)'
      BY <1>1 DEF EntryMarked
    <3> QED BY <3>1, <3>2 DEF EntriesMarked
  <2>4. DOMAIN sections' = 1 .. 6 /\ (ContentsStored(file) \/ EntriesMarked(next))
    BY <1>1 DEF IInv, LossesMarked
  <2> QED BY <1>1, <1>4, <2>1, <2>2, <2>3, <2>4 DEF LossesMarked
<1>6. FooterLeadsToAll(file)' /\ FooterWritten' /\ WellFormed(file)'
  BY <1>1, <1>4 DEF FooterLeadsToAll, FooterWritten, IInv
<1>7. HeaderKept'
  <2>1. HeaderLost => HeaderLost'
    BY <1>1 DEF HeaderLost
  <2> QED BY <1>1, <2>1, HeaderStays DEF IInv, TypeOK
<1> QED BY <1>3, <1>5, <1>6, <1>7 DEF IInv

LEMMA WriteSectionInv ==
  ASSUME IInv, WriteSection
  PROVE  IInv'
<1>1. /\ phase = "sections" /\ next \in 1 .. 6
      /\ UNCHANGED <<full, fills, list, given, blocks, table, opened, exports>>
  <2>1. TypeOK /\ Len(Sections) = 6
    BY SectionFacts DEF IInv
  <2>2. phase = "sections" /\ next =< Len(Sections)
    BY DEF WriteSection
  <2>3. UNCHANGED <<full, fills, list, given, blocks, table, opened, exports>>
    BY DEF WriteSection
  <2> QED BY <2>1, <2>2, <2>3 DEF TypeOK
<1>2. /\ TypeOK /\ WellFormed(file)
      /\ \A b \in file.blocks : b.data[1] # "footer"
      /\ DOMAIN sections = 1 .. 6
      /\ \/ ContentsStored(file) /\ SectionsStored(file, next)
         \/ EntriesMarked(Len(list) + 1) \/ SectionsMarked(next)
  BY <1>1 DEF IInv, LossesMarked
<1>a. EntriesMarked(Len(list) + 1) => EntriesMarked(Len(list) + 1)'
  BY <1>1 DEF EntriesMarked, EntryMarked
<1>3. CASE /\ Sections[next] = "RawData"
           /\ next' = next + 1
           /\ UNCHANGED <<file, flushed, phase, sections, result>>
  <2>1. TypeOK'
    BY <1>1, <1>2, <1>3 DEF TypeOK
  <2>2. WellFormed(file)' /\ FooterLeadsToAll(file)' /\ FooterWritten'
    BY <1>1, <1>2, <1>3 DEF FooterLeadsToAll, FooterWritten
  <2>3. SectionsStored(file, next) => SectionsStored(file, next)'
    <3> SUFFICES ASSUME SectionsStored(file, next) PROVE SectionsStored(file, next)'
      OBVIOUS
    <3>2. \A i \in 1 .. 6 : i < next' /\ Sections[i] # "RawData" => i < next
      BY <1>1, <1>3
    <3> QED BY <1>1, <1>3, <3>2 DEF SectionsStored, Stored, SectionSize, Payload
  <2>4. ContentsStored(file) => ContentsStored(file)'
    BY <1>1, <1>3 DEF ContentsStored, Stored
  <2>5. next' \in 1 .. 7
    BY <1>1, <1>3
  <2>6. SectionsMarked(next) => SectionsMarked(next)'
    BY <1>1, <1>3 DEF SectionsMarked
  <2>7. LossesMarked'
    BY <1>1, <1>2, <1>3, <1>a, <2>3, <2>4, <2>5, <2>6 DEF LossesMarked
  <2>8. HeaderKept'
    <3>1. HeaderLost => HeaderLost'
      BY <1>3 DEF HeaderLost
    <3> QED BY <1>1, <1>2, <1>3, <3>1, HeaderStays DEF TypeOK
  <2> QED BY <2>1, <2>2, <2>7, <2>8 DEF IInv
<1>4. ASSUME Sections[next] # "RawData",
             NEW w \in WriteBlock(Payload(Sections[next]), SectionSize(Sections[next]))
      PROVE  /\ WellFormed(w.file)
             /\ w.flushed \in 0 .. w.file.size /\ w.flushed >= flushed
             /\ w.at \in 0 .. PointerSpace - 1
             /\ \A b \in w.file.blocks : b.data[1] # "footer"
             /\ \A b \in file.blocks : b.at + b.size =< flushed => b \in w.file.blocks
             /\ w.at # 0 => file.blocks \subseteq w.file.blocks
             /\ w.at # 0 /\ w.ok =>
                  Stored(w.file, [at |-> w.at, size |-> SectionSize(Sections[next])],
                         Payload(Sections[next]))
  <2> DEFINE n == SectionSize(Sections[next])
             data == Payload(Sections[next])
  <2>1. n \in Nat /\ data[1] # "footer"
    BY <1>1, <1>2, SectionFacts
  <2>2. /\ WellFormed(w.file)
        /\ w.flushed \in 0 .. w.file.size /\ w.flushed >= flushed
        /\ w.at \in 0 .. PointerSpace - 1
        /\ \A b \in w.file.blocks : b \in file.blocks \/ b.data = data
        /\ \A b \in file.blocks : b.at + b.size =< flushed => b \in w.file.blocks
        /\ w.at # 0 => file.blocks \subseteq w.file.blocks
        /\ w.at # 0 /\ w.ok => Stored(w.file, [at |-> w.at, size |-> n], data)
    <3> HIDE DEF n, data
    <3>1. w \in WriteBlock(data, n)
      BY DEF n, data
    <3> QED BY <1>2, <2>1, <3>1, WriteBlockSpec
  <2> QED BY <1>2, <2>1, <2>2
<1>5. ASSUME Sections[next] # "RawData",
             NEW w \in WriteBlock(Payload(Sections[next]), SectionSize(Sections[next])),
             ~w.ok, Fail(w), UNCHANGED <<sections, next>>
      PROVE  IInv'
  BY <1>1, <1>4, <1>5, FailInv
<1>6. ASSUME Sections[next] # "RawData",
             NEW w \in WriteBlock(Payload(Sections[next]), SectionSize(Sections[next])),
             w.ok, file' = w.file, flushed' = w.flushed,
             sections' = [sections EXCEPT ![next] =
                            [at |-> w.at, size |-> SectionSize(Sections[next])]],
             next' = next + 1, UNCHANGED <<phase, result>>
      PROVE  IInv'
  <2> DEFINE n == SectionSize(Sections[next])
  <2>1. n \in Nat
    BY <1>1, <1>2, SectionFacts
  <2>2. [at |-> w.at, size |-> n] \in Block
    BY <1>4, <1>6, <2>1 DEF Block
  <2>3. /\ DOMAIN sections' = 1 .. 6
        /\ sections'[next] = [at |-> w.at, size |-> n]
        /\ \A i \in 1 .. 6 : i # next => sections'[i] = sections[i]
    BY <1>1, <1>2, <1>6
  <2>4. TypeOK'
    <3>1. file'.size \in Nat /\ flushed' \in 0 .. file'.size
      BY <1>4, <1>6 DEF WellFormed
    <3>2. \A i \in DOMAIN sections' : sections'[i] \in Block
      BY <1>2, <2>2, <2>3 DEF TypeOK
    <3>3. next' \in Nat \ {0}
      BY <1>1, <1>6
    <3> QED BY <1>1, <1>2, <1>6, <3>1, <3>2, <3>3 DEF TypeOK
  <2>5. ASSUME w.at = 0 \/ SectionsMarked(next)
        PROVE  SectionsMarked(next)'
    <3>1. CASE w.at = 0
      BY <1>1, <1>6, <2>3, <3>1 DEF SectionsMarked
    <3>2. CASE SectionsMarked(next)
      <4>1. PICK i \in 1 .. 6 : i < next /\ Sections[i] # "RawData" /\ sections[i].at = 0
        BY <3>2 DEF SectionsMarked
      <4>2. i < next' /\ sections'[i].at = 0
        BY <1>1, <1>6, <2>3, <4>1
      <4> QED BY <4>1, <4>2 DEF SectionsMarked
    <3> QED BY <2>5, <3>1, <3>2
  <2>6. ASSUME w.at # 0, SectionsStored(file, next)
        PROVE  SectionsStored(file, next)'
    <3> SUFFICES ASSUME NEW i \in 1 .. 6, i < next', Sections[i] # "RawData"
                 PROVE  /\ i \in DOMAIN sections'
                        /\ sections'[i].size = SectionSize(Sections[i])
                        /\ Stored(w.file, sections'[i], Payload(Sections[i]))
      BY <1>1, <1>6 DEF SectionsStored, Stored, SectionSize, Payload
    <3>1. i < next \/ i = next
      BY <1>1, <1>6
    <3>2. CASE i < next
      <4>1. SectionsStored(w.file, next)
        BY <1>4, <1>6, <2>6, StoredMore
      <4>2. sections'[i] = sections[i] /\ i \in DOMAIN sections'
        BY <1>1, <2>3, <3>2
      <4> QED BY <3>2, <4>1, <4>2 DEF SectionsStored
    <3>3. CASE i = next
      <4>1. sections'[i] = [at |-> w.at, size |-> n] /\ i \in DOMAIN sections'
        BY <2>3, <3>3
      <4> QED BY <1>4, <1>6, <2>6, <3>3, <4>1
    <3> QED BY <3>1, <3>2, <3>3
  <2>7. ASSUME w.at # 0, ContentsStored(file)
        PROVE  ContentsStored(file)'
    <3>1. ContentsStored(w.file)
      BY <1>4, <1>6, <2>7, StoredMore
    <3> QED BY <1>1, <1>6, <3>1 DEF ContentsStored, Stored
  <2>8. next' \in 1 .. 7
    BY <1>1, <1>6
  <2>9. LossesMarked'
    BY <1>1, <1>2, <1>4, <1>6, <1>a, <2>3, <2>5, <2>6, <2>7, <2>8 DEF LossesMarked
  <2>10. WellFormed(file)' /\ FooterLeadsToAll(file)' /\ FooterWritten'
    BY <1>1, <1>4, <1>6 DEF FooterLeadsToAll, FooterWritten
  <2>11. HeaderKept'
    <3>1. HeaderLost => HeaderLost'
      <4> SUFFICES ASSUME HeaderLost PROVE HeaderLost'
        OBVIOUS
      <4>1. PICK i \in 1 .. 6 : Sections[i] = "RawData" /\ sections[i].at = 0
        BY <1>2, SectionFacts DEF HeaderLost
      <4>2. sections'[i].at = 0
        BY <1>6, <2>3, <4>1
      <4> QED BY <1>2, <4>1, <4>2, SectionFacts DEF HeaderLost
    <3>2. flushed' \in Nat /\ flushed' >= flushed
      <4>1. w.flushed \in 0 .. w.file.size /\ w.flushed >= flushed /\ w.file.size \in Nat
        BY <1>4, <1>6 DEF WellFormed
      <4> QED BY <1>6, <4>1
    <3> QED BY <1>1, <1>4, <1>6, <3>1, <3>2, HeaderStays
  <2> QED BY <2>4, <2>9, <2>10, <2>11 DEF IInv
<1> QED BY <1>3, <1>5, <1>6 DEF WriteSection

LEMMA WriteSectionTableInv ==
  ASSUME IInv, WriteSectionTable
  PROVE  IInv'
<1>1. /\ phase = "sections" /\ next > 6
      /\ UNCHANGED <<full, fills, list, given, blocks, sections, next, opened, exports>>
  BY SectionFacts DEF WriteSectionTable, IInv
<1>2. /\ TypeOK /\ WellFormed(file) /\ next = 7
      /\ \A b \in file.blocks : b.data[1] # "footer"
      /\ \/ ContentsStored(file) /\ SectionsStored(file, 7)
         \/ EntriesMarked(Len(list) + 1) \/ SectionsMarked(7)
  BY <1>1 DEF IInv, LossesMarked
<1>3. PICK w \in WriteBlock(<<"table", sections>>, TableSize) :
        \/ /\ w.ok
           /\ file' = w.file
           /\ flushed' = w.flushed
           /\ table' = [at |-> w.at, size |-> TableSize]
           /\ phase' = "footer"
           /\ UNCHANGED result
        \/ /\ ~w.ok
           /\ Fail(w)
           /\ UNCHANGED table
  BY DEF WriteSectionTable
<1> DEFINE data == <<"table", sections>>
<1>4. /\ WellFormed(w.file)
      /\ w.flushed \in 0 .. w.file.size /\ w.flushed >= flushed
      /\ w.ok \in BOOLEAN
      /\ w.at \in 0 .. PointerSpace - 1
      /\ \A b \in w.file.blocks : b \in file.blocks \/ b.data = data
      /\ \A b \in file.blocks : b.at + b.size =< flushed => b \in w.file.blocks
      /\ w.ok => w.flushed < w.file.size /\ w.file.size % 8 \in {0, 7}
      /\ w.at # 0 => file.blocks \subseteq w.file.blocks
      /\ w.at # 0 /\ w.ok => Stored(w.file, [at |-> w.at, size |-> TableSize], data)
  <2>1. TableSize \in Nat /\ TableSize # 0
    BY DEF TableSize
  <2> HIDE DEF data
  <2>2. w \in WriteBlock(data, TableSize)
    BY DEF data
  <2> QED BY <1>2, <2>1, <2>2, WriteBlockSpec
<1>5. \A b \in w.file.blocks : b.data[1] # "footer"
  BY <1>2, <1>4
<1>6. CASE ~w.ok
  BY <1>1, <1>3, <1>4, <1>5, <1>6, FailInv
<1>7. CASE w.ok
  <2>1. /\ file' = w.file /\ flushed' = w.flushed /\ phase' = "footer"
        /\ table' = [at |-> w.at, size |-> TableSize] /\ result' = result
    BY <1>3, <1>7
  <2>2. opened' = (phase' # "idle")
    BY <1>1, <2>1 DEF IInv, TypeOK
  <2>3. TypeOK'
    <3>1. file'.size \in Nat /\ flushed' \in 0 .. file'.size
      BY <1>4, <2>1 DEF WellFormed
    <3>2. table' \in Block
      BY <1>4, <2>1 DEF Block, TableSize
    <3>3. phase' \in Phases
      BY <2>1 DEF Phases
    <3> QED BY <1>1, <1>2, <2>1, <2>2, <3>1, <3>2, <3>3 DEF TypeOK
  <2>4. Linked(file)' \/ LossIsMarked'
    <3>1. CASE w.at = 0
      BY <2>1, <3>1 DEF LossIsMarked
    <3>2. CASE EntriesMarked(Len(list) + 1)
      <4>1. PICK i \in DOMAIN list : EntryMarked(i)
        BY <3>2 DEF EntriesMarked
      <4>2. i \in 1 .. Len(list)
        BY <1>2 DEF TypeOK
      <4> QED BY <1>1, <4>1, <4>2 DEF LossIsMarked, EntryMarked
    <3>3. CASE SectionsMarked(7)
      BY <1>1, <1>2, <3>3, SectionFacts DEF LossIsMarked, SectionsMarked
    <3>4. CASE w.at # 0 /\ ContentsStored(file) /\ SectionsStored(file, 7)
      <4>1. ContentsStored(w.file) /\ SectionsStored(w.file, 7)
        BY <1>4, <3>4, StoredMore
      <4>2. TableStored(file)'
        BY <1>1, <1>4, <1>7, <2>1, <3>4 DEF TableStored, Stored
      <4>3. ContentsStored(file)' /\ SectionsStored(file, 7)'
        BY <1>1, <2>1, <4>1
           DEF ContentsStored, SectionsStored, Stored, SectionSize, Payload
      <4> QED BY <4>2, <4>3 DEF Linked
    <3> QED BY <1>2, <3>1, <3>2, <3>3, <3>4
  <2>5. LossesMarked'
    BY <1>1, <1>4, <1>5, <1>7, <2>1, <2>4 DEF LossesMarked
  <2>6. WellFormed(file)' /\ FooterLeadsToAll(file)' /\ FooterWritten'
    BY <1>4, <1>5, <2>1 DEF FooterLeadsToAll, FooterWritten
  <2>7. HeaderKept'
    <3>1. HeaderLost => HeaderLost'
      BY <1>1 DEF HeaderLost
    <3>2. flushed' \in Nat /\ flushed' >= flushed
      BY <1>4, <2>1 DEF WellFormed
    <3> QED BY <1>1, <1>4, <2>1, <3>1, <3>2, HeaderStays
  <2> QED BY <2>3, <2>5, <2>6, <2>7 DEF IInv
<1> QED BY <1>4, <1>6, <1>7

(* The footer is only written when the section table before it reached the *)
(* disk, and it ends the file.                                             *)
LEMMA WriteFooterInv ==
  ASSUME IInv, WriteFooter
  PROVE  IInv'
<1>1. /\ phase = "footer"
      /\ UNCHANGED <<full, fills, list, given, blocks, sections, table, next, opened, exports>>
  BY DEF WriteFooter
<1>2. /\ TypeOK /\ WellFormed(file) /\ flushed < file.size
      /\ \A b \in file.blocks : b.data[1] # "footer"
      /\ Linked(file) \/ LossIsMarked
      /\ file.size % 8 \in {0, 7}
  BY <1>1 DEF IInv, LossesMarked
<1>3. PICK f \in Flush :
       \/ /\ ~f.ok
          /\ Fail([file |-> f.file, flushed |-> f.file.size])
       \/ /\ f.ok
          /\ \E w \in Appended(f.file, <<"footer", table>>, FooterSize) :
               \/ /\ w.ok
                  /\ file' = w.file
                  /\ flushed' = w.flushed
                  /\ phase' = "close"
                  /\ UNCHANGED result
               \/ ~w.ok /\ Fail(w)
  BY DEF WriteFooter
<1>4. CASE ~f.ok
  <2> DEFINE w == [file |-> f.file, flushed |-> f.file.size]
  <2>1. WellFormed(f.file) /\ f.file.blocks \subseteq file.blocks
    BY <1>2, FlushSpec
  <2>2. w.file = f.file /\ w.flushed = f.file.size /\ w.flushed \in 0 .. w.file.size
    BY <2>1 DEF WellFormed
  <2>3. Fail(w)
    BY <1>3, <1>4
  <2>4. WellFormed(w.file) /\ \A b \in w.file.blocks : b.data[1] # "footer"
    BY <1>2, <2>1, <2>2
  <2> HIDE DEF w
  <2> QED BY <1>1, <2>2, <2>3, <2>4, FailInv
<1>5. CASE f.ok
  <2>1. ~full /\ f.file = file
    BY <1>2, <1>5, FlushSpec
  <2> DEFINE data == <<"footer", table>>
             g == Written(file, data, 40)
             b == [at |-> file.size, size |-> 40, data |-> data]
  <2>2. PICK w \in Appended(file, data, 40) :
               \/ /\ w.ok
                  /\ file' = w.file
                  /\ flushed' = w.flushed
                  /\ phase' = "close"
                  /\ UNCHANGED result
               \/ ~w.ok /\ Fail(w)
    BY <1>3, <1>5, <2>1 DEF FooterSize
  <2>3. w.ok /\ w.file = g /\ w.flushed = file.size
    <3> HIDE DEF data
    <3> QED BY <1>2, <2>1, AppendedSpec
  <2>4. /\ file' = g /\ flushed' = file.size /\ phase' = "close" /\ result' = result
    BY <2>2, <2>3
  <2>6. /\ WellFormed(g) /\ file.blocks \subseteq g.blocks /\ b \in g.blocks
        /\ \A c \in g.blocks : c \in file.blocks \/ c = b
        /\ g.size = file.size + 40 + Gap(file.size + 40)
    <3> HIDE DEF data
    <3> QED BY <1>2, WrittenSpec
  <2>7. file.size \in Nat /\ g.size = file.size + 40
    <3>1. file.size \in Nat /\ (file.size + 40) % 8 \in {0, 7}
      BY <1>2 DEF WellFormed
    <3>2. Gap(file.size + 40) = 0
      BY <3>1, GapSpec
    <3> QED BY <2>6, <3>1, <3>2
  <2>8. b.at = file.size /\ b.size = 40 /\ b.data = data /\ data[1] = "footer"
    OBVIOUS
  <2> HIDE DEF g, b
  <2>9. Linked(g) \/ LossIsMarked
    BY <1>2, <2>6, StoredMore
  <2>10. FooterLeadsToAll(g)
    <3> SUFFICES ASSUME NEW c \in g.blocks, c.data[1] = "footer"
                 PROVE  /\ c.data = data
                        /\ \A d \in g.blocks : d.at + d.size =< c.at + c.size
      BY <2>9 DEF FooterLeadsToAll
    <3>1. c = b
      BY <1>2, <2>6
    <3>2. \A d \in g.blocks : d.at + d.size =< g.size
      BY <2>6 DEF WellFormed
    <3> QED BY <2>7, <2>8, <3>1, <3>2
  <2>11. TypeOK'
    <3>1. file'.size \in Nat /\ flushed' \in 0 .. file'.size
      BY <2>4, <2>7
    <3>2. phase' \in Phases
      BY <2>4 DEF Phases
    <3>3. opened' = (phase' # "idle")
      BY <1>1, <2>4 DEF IInv, TypeOK
    <3> QED BY <1>1, <1>2, <2>4, <3>1, <3>2, <3>3 DEF TypeOK
  <2>12. FooterLeadsToAll(file)' /\ WellFormed(file)' /\ LossesMarked'
    <3>1. FooterLeadsToAll(file)'
      BY <1>1, <2>4, <2>10, DataUnchanged
    <3>2. WellFormed(file)'
      BY <2>4, <2>6 DEF WellFormed
    <3>3. LossesMarked'
      BY <2>4 DEF LossesMarked
    <3> QED BY <3>1, <3>2, <3>3
  <2>13. FooterWritten'
    <3>1. file'.size >= FooterSize
      BY <2>4, <2>7 DEF FooterSize
    <3> QED BY <2>4, <2>6, <2>7, <2>8, <3>1 DEF FooterWritten, FooterSize
  <2>14. HeaderKept'
    <3>1. HeaderLost => HeaderLost'
      BY <1>1 DEF HeaderLost
    <3>2. flushed' \in Nat /\ flushed' >= flushed
      BY <1>2, <2>4, <2>7 DEF TypeOK
    <3> QED BY <1>1, <2>4, <2>6, <3>1, <3>2, HeaderStays
  <2> QED BY <2>11, <2>12, <2>13, <2>14 DEF IInv
<1> QED BY <1>2, <1>4, <1>5, FlushSpec

LEMMA ReleaseDeviceInv ==
  ASSUME IInv, ReleaseDevice
  PROVE  IInv' /\ (~full => Footers(Disk') # {} /\ (CanOpenFile(Disk)' \/ HeaderLost'))
<1>1. /\ phase = "close" /\ phase' = "idle" /\ opened' = FALSE /\ result' = "Sucess"
      /\ UNCHANGED <<full, fills, list, given, blocks, sections, table, next, exports>>
  BY DEF ReleaseDevice
<1>2. PICK f \in Flush : file' = f.file /\ flushed' = f.file.size
  BY DEF ReleaseDevice
<1>3. TypeOK /\ WellFormed(file) /\ HeaderKept
  BY DEF IInv
<1>4. WellFormed(f.file)
  BY <1>3, FlushSpec
<1>5. FooterLeadsToAll(f.file)
  <2>1. CASE f.ok
    BY <1>3, <2>1, FlushSpec DEF IInv
  <2>2. CASE ~f.ok
    BY <1>3, <2>2, FlushSpec, CutKeepsFooter DEF IInv
  <2> QED BY <1>3, <2>1, <2>2, FlushSpec
<1>6. TypeOK'
  <2>1. file'.size \in Nat /\ flushed' \in 0 .. file'.size
    BY <1>2, <1>4 DEF WellFormed
  <2>2. phase' \in Phases /\ result' \in Results
    BY <1>1 DEF Phases, Results
  <2>3. opened' = (phase' # "idle")
    BY <1>1
  <2> QED BY <1>1, <1>3, <2>1, <2>2, <2>3 DEF TypeOK
<1>7. FooterLeadsToAll(file)' /\ WellFormed(file)' /\ LossesMarked' /\ HeaderKept' /\ FooterWritten'
  <2>1. FooterLeadsToAll(file)'
    BY <1>1, <1>2, <1>5, DataUnchanged
  <2> QED BY <1>1, <1>2, <1>4, <2>1 DEF LossesMarked, HeaderKept, FooterWritten
<1>8. ASSUME ~full PROVE Footers(Disk') # {} /\ (CanOpenFile(Disk)' \/ HeaderLost')
  <2>1. file' = file /\ flushed' = file.size
    BY <1>2, <1>3, <1>8, FlushSpec
  <2> DEFINE d == Cut(file, file.size)
  <2>2. Disk' = d
    BY <2>1 DEF Disk
  <2>3. WellFormed(d) /\ d.size = file.size /\ d.blocks = file.blocks
    BY <1>3, CutSpec DEF WellFormed
  <2>4. Footers(d) # {}
    BY <1>1, <2>3 DEF IInv, FooterWritten, Footers, LastBlocks
  <2>5. ASSUME ~HeaderLost PROVE Read(d, 0, HeaderSize) = <<"header">>
    <3>1. PICK b \in file.blocks : b.at = 0 /\ b.size = HeaderSize /\ b.data = <<"header">>
      BY <1>1, <1>3, <2>5 DEF HeaderKept, HeaderStored
    <3> HIDE DEF d
    <3>2. Read(d, b.at, b.size) = b.data
      BY <2>3, <3>1, ReadSpec
    <3> QED BY <3>1, <3>2
  <2>6. d.size >= FooterSize
    BY <1>1, <2>3 DEF IInv, FooterWritten
  <2>7. ~HeaderLost => CanOpenFile(d)
    BY <2>4, <2>5, <2>6 DEF CanOpenFile
  <2>8. CanOpenFile(Disk)' <=> CanOpenFile(d)
    BY <2>2 DEF CanOpenFile, Footers, ForeignFooters, ForeignHeaders
  <2>9. HeaderLost => HeaderLost'
    BY <1>1 DEF HeaderLost
  <2> QED BY <2>2, <2>4, <2>7, <2>8, <2>9
<1> QED BY <1>3, <1>6, <1>7, <1>8 DEF IInv

(* The process goes away and leaves a prefix of what it wrote. *)
LEMMA CutInv ==
  ASSUME IInv, NEW n \in Nat, file' = Cut(file, n), flushed' = n,
         phase' = "idle", opened' = FALSE, result' \in Results,
         UNCHANGED <<full, fills, list, given, blocks, sections, table, next, exports>>
  PROVE  IInv'
<1>1. TypeOK /\ WellFormed(file) /\ FooterLeadsToAll(file)
  BY DEF IInv
<1> DEFINE g == Cut(file, n)
<1>2. WellFormed(g) /\ g.size = n
  BY <1>1, CutSpec
<1>3. FooterLeadsToAll(g)
  BY <1>1, CutKeepsFooter
<1> HIDE DEF g
<1>4. file' = g
  BY DEF g
<1>5. TypeOK'
  <2>1. file'.size \in Nat /\ flushed' \in 0 .. file'.size
    BY <1>2, <1>4
  <2>2. phase' \in Phases
    BY DEF Phases
  <2>3. opened' = (phase' # "idle")
    OBVIOUS
  <2> QED BY <1>1, <2>1, <2>2, <2>3 DEF TypeOK
<1>6. FooterLeadsToAll(file)'
  BY <1>3, <1>4, DataUnchanged
<1>7. WellFormed(file)' /\ LossesMarked' /\ HeaderKept' /\ FooterWritten'
  BY <1>2, <1>4 DEF LossesMarked, HeaderKept, FooterWritten
<1> QED BY <1>5, <1>6, <1>7 DEF IInv

LEMMA DestroyBuilderInv ==
  ASSUME IInv, DestroyBuilder
  PROVE  IInv'
<1>1. flushed \in Nat
  BY DEF IInv, TypeOK
<1>2. file' = Cut(file, flushed) /\ flushed' = flushed
  BY DEF DestroyBuilder, Disk
<1> QED BY <1>1, <1>2, CutInv DEF DestroyBuilder, Results

LEMMA CrashInv ==
  ASSUME IInv, Crash
  PROVE  IInv'
<1>1. PICK n \in {file.size} \cup CutPoints(file, flushed) :
        file' = Cut(file, n) /\ flushed' = n
  BY DEF Crash
<1>2. n \in Nat
  BY CutPointsSpec DEF IInv, TypeOK
<1> QED BY <1>1, <1>2, CutInv DEF Crash, Results

(* Steps that leave the archive alone. *)
LEMMA OtherInv ==
  ASSUME IInv, BeginFileRefused \/ DiskFills \/ DiskIsCleared \/ UNCHANGED vars
  PROVE  IInv'
<1>1. /\ UNCHANGED <<file, flushed, phase, list, given, blocks, sections, table,
                     next, opened, exports>>
      /\ result' \in Results
  BY DEF BeginFileRefused, DiskFills, DiskIsCleared, vars, IInv, TypeOK, Results
<1>2. full' \in BOOLEAN
  BY DEF BeginFileRefused, DiskFills, DiskIsCleared, vars, IInv, TypeOK
<1>3. fills' \in 0 .. MaxFills
  <2>1. fills \in 0 .. MaxFills
    BY DEF IInv, TypeOK
  <2>2. fills' = fills \/ (fills < MaxFills /\ fills' = fills + 1)
    BY DEF BeginFileRefused, DiskFills, DiskIsCleared, vars
  <2> QED BY <2>1, <2>2, RDCAssumption
<1>4. TypeOK'
  BY <1>1, <1>2, <1>3 DEF IInv, TypeOK
<1>5. FooterLeadsToAll(file)'
  BY <1>1, DataUnchanged DEF IInv
<1>6. WellFormed(file)' /\ FooterWritten' /\ HeaderKept'
  BY <1>1 DEF IInv, FooterWritten, HeaderStored, HeaderKept, HeaderLost
<1>7. LossesMarked'
  <2>1. ContentsStored(file) => ContentsStored(file)'
    BY <1>1 DEF ContentsStored, Stored
  <2>2. TableStored(file) => TableStored(file)'
    BY <1>1 DEF TableStored, Stored
  <2>3. LossIsMarked => LossIsMarked'
    BY <1>1 DEF LossIsMarked
  <2>4. ContentsStored(file) /\ SectionsStored(file, next) =>
          ContentsStored(file)' /\ SectionsStored(file, next)'
    BY <1>1, <2>1 DEF SectionsStored, Stored, SectionSize, Payload
  <2>5. (EntriesMarked(next) => EntriesMarked(next)') /\
        (EntriesMarked(Len(list) + 1) => EntriesMarked(Len(list) + 1)')
    BY <1>1 DEF EntriesMarked, EntryMarked
  <2>6. SectionsMarked(next) => SectionsMarked(next)'
    BY <1>1 DEF SectionsMarked
  <2>7. Linked(file) => Linked(file)'
    BY <1>1, <2>1, <2>2 DEF Linked, SectionsStored, Stored, SectionSize, Payload
  <2> QED BY <1>1, <2>1, <2>3, <2>4, <2>5, <2>6, <2>7 DEF IInv, LossesMarked
<1> QED BY <1>4, <1>5, <1>6, <1>7 DEF IInv

LEMMA StepInv == IInv /\ [Next]_vars => IInv'
<1> SUFFICES ASSUME IInv, Next \/ UNCHANGED vars PROVE IInv'
  OBVIOUS
<1>1. ASSUME NEW l \in Lists, BeginFile(l) PROVE IInv'
  BY <1>1, BeginFileInv
<1> QED
  BY <1>1, CreateRawDataSectionInv, ExportEntryInv, CloseFileInv, WriteSectionInv, WriteSectionTableInv,
     WriteFooterInv, ReleaseDeviceInv, DestroyBuilderInv, CrashInv, OtherInv DEF Next

-----------------------------------------------------------------------------
(* From the footer to the contents. *)
LEMMA Complete == IInv => AcceptedIsComplete
<1> SUFFICES ASSUME IInv, CanOpenFile(Disk), ForeignFooters(Disk) = {},
                    Disk.size =< PointerSpace
             PROVE  Readable(Disk) \/ LossIsMarked
  BY DEF AcceptedIsComplete
<1>1. TypeOK /\ WellFormed(file) /\ FooterLeadsToAll(file) /\ flushed \in Nat
  BY DEF IInv, TypeOK
<1> DEFINE d == Disk
<1>2. /\ WellFormed(d) /\ FooterLeadsToAll(d)
      /\ d.size \in Nat /\ d.size =< PointerSpace
  BY <1>1, CutSpec, CutKeepsFooter DEF Disk
<1>3. Footers(d) # {}
  BY DEF CanOpenFile
<1> DEFINE b == CHOOSE x \in Footers(d) : TRUE
<1>4. b \in Footers(d)
  BY <1>3
<1> HIDE DEF d, b
<1>5. b \in d.blocks /\ b.data[1] = "footer"
  BY <1>4 DEF Footers, LastBlocks
<1>6. b.data = <<"footer", table>> /\ (Linked(d) \/ LossIsMarked)
  BY <1>2, <1>5 DEF FooterLeadsToAll
<1> SUFFICES ASSUME Linked(d) PROVE Readable(d)
  BY <1>6 DEF d
<1>7. ASSUME NEW at \in Nat, NEW size \in Nat \ {0}, NEW data,
             \E c \in d.blocks : c.data = data /\ c.size = size /\ at = c.at % PointerSpace
      PROVE  Read(d, at, size) = data
  <2>1. PICK c \in d.blocks : c.data = data /\ c.size = size /\ at = c.at % PointerSpace
    BY <1>7
  <2>2. c.at \in Nat /\ c.at < PointerSpace
    BY <1>2, <2>1, RDCAssumption DEF WellFormed
  <2>3. c.at % PointerSpace = c.at
    BY <2>2, RDCAssumption
  <2> QED BY <1>2, <2>1, <2>3, ReadSpec
<1>8. SectionTable(d) = <<"table", sections>>
  <2>1. b.data[2] = table
    BY <1>6
  <2>2. /\ table.at \in Nat /\ table.size \in Nat \ {0}
        /\ \E c \in d.blocks : /\ c.data = <<"table", sections>>
                               /\ c.size = table.size
                               /\ table.at = c.at % PointerSpace
    BY <1>1, <1>6 DEF Linked, TableStored, Stored, TableSize, TypeOK, Block
  <2>3. Read(d, table.at, table.size) = <<"table", sections>>
    <3> DEFINE data == <<"table", sections>>
    <3> HIDE DEF data
    <3>1. \E c \in d.blocks : /\ c.data = data
                               /\ c.size = table.size
                               /\ table.at = c.at % PointerSpace
      BY <2>2 DEF data
    <3>2. Read(d, table.at, table.size) = data
      BY <1>7, <2>2, <3>1
    <3> QED BY <3>2 DEF data
  <2> QED BY <2>1, <2>3 DEF SectionTable, ReadBlock, b
<1>9. ASSUME NEW i \in 1 .. 6, Sections[i] # "RawData"
      PROVE  LoadSection(d, i) = Payload(Sections[i])
  <2> DEFINE s == sections[i]
             data == Payload(Sections[i])
  <2>1. LoadSection(d, i) = Read(d, s.at, s.size)
    BY <1>8 DEF LoadSection, ReadBlock
  <2>2. /\ i \in DOMAIN sections /\ s.size = SectionSize(Sections[i])
        /\ Stored(d, s, data)
    BY <1>6, <1>9 DEF Linked, SectionsStored
  <2>3. s.at \in Nat /\ s.size \in Nat \ {0}
    <3>1. s \in Block
      BY <1>1, <2>2 DEF TypeOK
    <3>2. SectionSize(Sections[i]) \in Nat \ {0}
      BY <1>1, <1>9, SectionFacts
    <3> QED BY <2>2, <3>1, <3>2, RDCAssumption DEF Block
  <2> HIDE DEF s, data
  <2>4. Read(d, s.at, s.size) = data
    BY <1>7, <2>2, <2>3 DEF Stored
  <2> QED BY <2>1, <2>4 DEF data
<1>10. ASSUME NEW i \in 1 .. Len(list), given[i] # NoContent
       PROVE  GetFileData(d, i) = ContentOf(given[i])
  <2>1. LoadSection(d, 4) = <<"OffsetDataBlockTable", blocks>>
    BY <1>1, <1>9, SectionFacts DEF Payload
  <2> DEFINE o == blocks[i]
             c == given[i]
             data == <<"content", c>>
  <2>2. GetFileData(d, i) = Read(d, o.at, o.size)
    BY <2>1 DEF GetFileData, ReadBlock
  <2>3. i \in DOMAIN list
    BY <1>1 DEF TypeOK
  <2>4. o.size = ContentSize[c] /\ Stored(d, o, data)
    BY <1>6, <1>10, <2>3 DEF Linked, ContentsStored
  <2>5. o.at \in Nat /\ o.size \in Nat
    BY <1>1, <2>3 DEF TypeOK, Block
  <2> HIDE DEF o, data
  <2>6. CASE o.size = 0
    BY <2>2, <2>4, <2>6 DEF Read, ContentOf
  <2>7. CASE o.size # 0
    <3>1. Read(d, o.at, o.size) = data
      BY <1>7, <2>4, <2>5, <2>7 DEF Stored
    <3> QED BY <2>2, <2>4, <2>7, <3>1 DEF ContentOf, data
  <2> QED BY <2>6, <2>7
<1> QED BY <1>1, <1>8, <1>9, <1>10, SectionFacts DEF Readable, d

(* The invariant that links a footer to everything below it, or shows that *)
(* a block was lost, holds throughout: a disk that fills and has room      *)
(* again at any moment, and crashes, included.                             *)
THEOREM ArchiveInvariant == Spec => []IInv
BY InitInv, StepInv, PTL DEF Spec

(* For any lists, contents and sizes, whatever is found on the disk and    *)
(* taken for an archive is a complete one, or says of a block that it is   *)
(* at 0: it does not happen that a full disk loses a block unseen.         *)
THEOREM AcceptedArchivesAreComplete == Spec => []AcceptedIsComplete
BY ArchiveInvariant, Complete, PTL

(* For any lists, contents and sizes, an export that reports success while *)
(* there is room leaves a file the reader accepts, unless the header was   *)
(* lost while there was none.                                              *)
THEOREM SuccessfulExportsAreAccepted == Spec => SucessIsAccepted
<1> DEFINE Good == result # "Sucess" /\ result' = "Sucess" /\ ~full
                     => Footers(Disk') # {} /\ (CanOpenFile(Disk)' \/ HeaderLost')
<1>1. IInv /\ [Next]_vars => [Good]_vars
  <2> SUFFICES ASSUME IInv, Next, result # "Sucess", result' = "Sucess", ~full
               PROVE  Footers(Disk') # {} /\ (CanOpenFile(Disk)' \/ HeaderLost')
    OBVIOUS
  <2>1. ReleaseDevice
    <3>1. ASSUME NEW l \in Lists, BeginFile(l) PROVE FALSE
      BY <3>1 DEF BeginFile
    <3>2. ~(\E w : Fail(w))
      BY DEF Fail
    <3>3. ~(BeginFileRefused \/ CreateRawDataSection \/ ExportEntry \/ CloseFile
              \/ DestroyBuilder \/ Crash \/ DiskFills \/ DiskIsCleared)
      BY DEF BeginFileRefused, CreateRawDataSection, ExportEntry, CloseFile,
             DestroyBuilder, Crash, DiskFills, DiskIsCleared
    <3>4. ~(WriteSection \/ WriteSectionTable \/ WriteFooter)
      BY <3>2 DEF WriteSection, WriteSectionTable, WriteFooter
    <3> QED BY <3>1, <3>3, <3>4 DEF Next
  <2> QED BY <2>1, ReleaseDeviceInv
<1> QED BY <1>1, ArchiveInvariant, PTL DEF Spec, SucessIsAccepted

-----------------------------------------------------------------------------
(* The blocks ProcessOutputBlock writes with success: the plain text under  *)
(* mode None, or its stream under mode ZLib and with its size.              *)
LEMMA WrittenBlocks ==
  ASSUME NEW text \in Raw, NEW info \in CompressionInfo,
         Word \in Nat, RawBytes[text] \in Nat, RawBytes[text] < Word,
         NEW b \in ProcessOutputBlock(text, info), BlockOk(b)
  PROVE  \/ b.info.mode = "None" /\ b.bytes = Plain(text)
         \/ b.info.mode = "ZLib" /\ b.bytes = Packed(text) /\ b.info.raw = RawBytes[text]
<1>1. CASE info.mode = "None"
  BY <1>1 DEF ProcessOutputBlock, Compressed
<1>2. CASE info.mode = "ZLib"
  <2>1. RawBytes[text] % Word = RawBytes[text]
    OBVIOUS
  <2>2. PICK answer \in Compress(text) :
          b = Compressed(text, [info EXCEPT !.raw = RawBytes[text]], answer)
    BY <1>2, <2>1 DEF ProcessOutputBlock, ProcessCompression
  <2>3. CASE answer = "Success"
    BY <1>2, <2>2, <2>3 DEF Compressed, CompressionInfo
  <2>4. CASE answer = "UnableToReduceSize"
    BY <2>2, <2>4 DEF Compressed, NoCompression
  <2>5. answer \notin {"Failure", "Aborted"}
    BY <2>2 DEF Compressed, BlockOk
  <2> QED BY <2>3, <2>4, <2>5 DEF Compress
<1>3. info.mode # "Unknown"
  BY DEF ProcessOutputBlock, ProcessCompression, Compressed, BlockOk
<1> QED BY <1>1, <1>2, <1>3 DEF CompressionInfo, Modes

(* BlockProcessor::ReadBlock undoes WriteBlock (BlockReadsBack). *)
THEOREM BlocksReadBack ==
  ASSUME NEW text \in Raw, NEW info \in CompressionInfo,
         Word \in Nat, RawBytes[text] \in Nat
  PROVE  BlockReadsBack(text, info)
<1> SUFFICES ASSUME RawBytes[text] < Word,
                    NEW b \in ProcessOutputBlock(text, info), BlockOk(b)
             PROVE  /\ \A r \in ProcessInputBlock(b.bytes, b.info) :
                         r.result # "Aborted" /\ (BlockOk(r) => r.bytes = Plain(text))
                    /\ \E r \in ProcessInputBlock(b.bytes, b.info) : BlockOk(r)
  BY DEF BlockReadsBack
<1>1. CASE b.info.mode = "None" /\ b.bytes = Plain(text)
  BY <1>1 DEF ProcessInputBlock, BlockOk
<1>2. CASE b.info.mode = "ZLib" /\ b.bytes = Packed(text) /\ b.info.raw = RawBytes[text]
  <2>1. Decompress(b.bytes, b.info.raw) = {"Failure", "Success"}
    BY <1>2 DEF Decompress, Packed
  <2>2. Packed(text).of = text
    BY DEF Packed
  <2>3. ProcessInputBlock(b.bytes, b.info)
          = {[result |-> answer, bytes |-> IF answer = "Success" THEN Plain(text) ELSE Packed(text)] :
               answer \in {"Failure", "Success"}}
    BY <1>2, <2>1, <2>2 DEF ProcessInputBlock, ProcessDecompression
  <2>4. [result |-> "Success", bytes |-> Plain(text)] \in ProcessInputBlock(b.bytes, b.info)
    BY <2>3
  <2>5. ASSUME NEW r \in ProcessInputBlock(b.bytes, b.info)
        PROVE  r.result # "Aborted" /\ (BlockOk(r) => r.bytes = Plain(text))
    <3>1. PICK answer \in {"Failure", "Success"} :
            r = [result |-> answer, bytes |-> IF answer = "Success" THEN Plain(text) ELSE Packed(text)]
      BY <2>3
    <3> QED BY <3>1 DEF BlockOk
  <2>6. BlockOk([result |-> "Success", bytes |-> Plain(text)])
    BY DEF BlockOk
  <2> QED BY <2>4, <2>5, <2>6
<1> QED BY <1>1, <1>2, WrittenBlocks

(* BaseDataBlock::GetRawSize, by which RDCContainer registers the file, is  *)
(* the length of what was written (RawSizeIsLength).                        *)
THEOREM RawSizesAreLengths ==
  ASSUME NEW text \in Raw, NEW info \in CompressionInfo,
         Word \in Nat, RawBytes[text] \in Nat
  PROVE  RawSizeIsLength(text, info)
<1> SUFFICES ASSUME RawBytes[text] < Word,
                    NEW b \in ProcessOutputBlock(text, info), BlockOk(b)
             PROVE  GetRawSize(b) = RawBytes[text]
  BY DEF RawSizeIsLength
<1>1. CASE b.info.mode = "None" /\ b.bytes = Plain(text)
  <2>1. RawBytes[text] % Word = RawBytes[text]
    OBVIOUS
  <2> QED BY <1>1, <2>1 DEF GetRawSize, ContainerSize, Plain
<1>2. CASE b.info.mode = "ZLib" /\ b.info.raw = RawBytes[text]
  BY <1>2 DEF GetRawSize
<1> QED BY <1>1, <1>2, WrittenBlocks
=============================================================================
