-------------------------- MODULE ExtractionProofs --------------------------
(***************************************************************************)
(* Proofs about Exporter and Extraction, for any tree, any list it makes   *)
(* and any folder.                                                         *)
(***************************************************************************)
EXTENDS Extraction, FiniteSetTheorems, SequenceTheorems, TLAPS

(* The exported table has what is proved of FileTable. *)
FromP == INSTANCE FileTableProofs WITH ContainerIDs <- {1}, ContainerFileIDs <- {}

(* And so has the one the archive is mounted in. *)
ToP == INSTANCE FileTableProofs WITH files <- copy, allocated <- copied, aborted <- copyAborted,
                                     Paths <- Paths \cup Added, MaxFiles <- MaxFiles + 4,
                                     ContainerIDs <- 1 .. 3, ContainerFileIDs <- 1 .. MaxFiles + 1

-----------------------------------------------------------------------------
LEMMA PathFacts ==
  /\ Root = << >> /\ Root \in Paths
  /\ \A p \in Paths : p \in Seq(Names)
  /\ \A p \in Paths \ {Root} : /\ p # << >> /\ From!Parent(p) \in Paths
                               /\ From!Parent(p) = SubSeq(p, 1, Len(p) - 1)
<1>1. Root = << >> /\ Root \in Paths /\ \A p \in Paths : p \in Seq(Names)
  BY ExporterAssumption DEF Root, From!Root
<1>2. ASSUME NEW p \in Paths \ {Root}
      PROVE  p # << >> /\ From!Parent(p) \in Paths
  <2>1. p # << >> /\ p \in Seq(Names)
    BY <1>1
  <2>0. Len(p) \in Nat /\ Len(p) # 0
    BY <2>1
  <2>2. CASE Len(p) = 1
    <3>1. SubSeq(p, 1, Len(p) - 1) = << >>
      BY <2>1, <2>2
    <3> QED BY <2>1, <3>1, <1>1 DEF From!Parent
  <2>3. CASE Len(p) # 1
    <3>0. PICK n \in Nat : n = Len(p)
      BY <2>0
    <3>1. n - 1 \in 1 .. Len(p)
      BY <2>0, <2>3, <3>0
    <3>2. \A k \in 1 .. Len(p) : SubSeq(p, 1, k) \in Paths
      BY ExporterAssumption
    <3>3. SubSeq(p, 1, n - 1) \in Paths
      BY <3>1, <3>2
    <3> QED BY <2>1, <3>0, <3>3 DEF From!Parent
  <2> QED BY <2>2, <2>3
<1> QED BY <1>1, <1>2 DEF From!Parent

LEMMA TableAssumption == FromP!FileTableAssumption
<1>1. FromP!Root = Root /\ \A p \in Paths : FromP!Parent(p) = From!Parent(p)
  BY DEF FromP!Root, Root, From!Root, FromP!Parent, From!Parent
<1> QED BY <1>1, PathFacts, ExporterAssumption DEF FromP!FileTableAssumption

LEMMA FromStart == From!Init => FromP!IInv
<1>1. From!Init => FromP!Init
  BY DEF From!Init, FromP!Init, From!FileIDs, FromP!FileIDs, From!Blank, FromP!Blank, From!Root, FromP!Root
<1> QED BY <1>1, FromP!InitInv, TableAssumption

LEMMA FromStep == FromP!IInv /\ [From!Next]_(From!vars) => FromP!IInv'
<1>1. [From!Next]_(From!vars) => [FromP!Next]_(FromP!vars)
  BY DEF From!vars, FromP!vars, From!Next, FromP!Next, From!AddNew, FromP!AddNew, From!PutOver, FromP!PutOver,
  From!PutAborts, FromP!PutAborts, From!RegisterOver, FromP!RegisterOver, From!DeleteFile, FromP!DeleteFile, From!DeleteOwned, FromP!DeleteOwned, From!Lookup, FromP!Lookup, From!Ids, FromP!Ids, From!Parent, FromP!Parent,
  From!Room, FromP!Room, From!Accepts, FromP!Accepts, From!ValidDirectory, FromP!ValidDirectory, From!ValidFile, FromP!ValidFile,
  From!Made, FromP!Made, From!NewFile, FromP!NewFile, From!Known, FromP!Known, From!Deleted, FromP!Deleted, From!Blank, FromP!Blank,
  From!Root, FromP!Root, From!FileIDs, FromP!FileIDs
<1> QED BY <1>1, FromP!StepInv, TableAssumption

LEMMA One ==
  ASSUME NEW S, NEW x \in S
  PROVE  <<x>> \in Seq(S) /\ Len(<<x>>) = 1 /\ <<x>>[1] = x
OBVIOUS

LEMMA Two ==
  ASSUME NEW S, NEW x \in S, NEW y \in S
  PROVE  <<x, y>> \in Seq(S) /\ Len(<<x, y>>) = 2 /\ <<x, y>>[1] = x
OBVIOUS

LEMMA Pair ==
  ASSUME NEW x, NEW y
  PROVE  <<x, y>>[1] = x /\ <<x, y>>[2] = y
OBVIOUS

LEMMA OneIsOne ==
  ASSUME NEW S, NEW s \in Seq(S), Len(s) = 1
  PROVE  s = <<s[1]>>
<1>1. s[1] \in S
  OBVIOUS
<1>2. PICK t \in Seq(S) : t = <<s[1]>> /\ Len(t) = 1 /\ t[1] = s[1]
  BY <1>1, One
<1>3. Len(s) = Len(t) /\ \A i \in 1 .. Len(s) : s[i] = t[i]
  BY <1>2
<1>4. s = t
  BY <1>3, SeqEqual
<1> QED BY <1>2, <1>4

LEMMA FrontOfTwo ==
  ASSUME NEW S, NEW s \in Seq(S), Len(s) = 2
  PROVE  SubSeq(s, 1, Len(s) - 1) = <<s[1]>>
<1>1. PICK t : t = SubSeq(s, 1, Len(s) - 1)
  OBVIOUS
<1>2. t \in Seq(S) /\ Len(t) = 1 /\ t[1] = s[1]
  BY <1>1
<1> QED BY <1>1, <1>2, OneIsOne

LEMMA AddedFacts ==
  /\ \A p \in Added : p # Root /\ p # NoPath
  /\ To!Parent(Log) = Root /\ To!Parent(Meta) = Root
  /\ MetaFile[1] # MetaFile[2]
  /\ \A n \in {1, 2} : To!Parent(MetaFile[n]) = Meta
  /\ Log # Meta /\ \A n \in {1, 2} : MetaFile[n] # Log /\ MetaFile[n] # Meta
<1>1. To!Parent(Log) = << >> /\ To!Parent(Meta) = << >>
  BY DEF To!Parent, Log, Meta
<1>2. ASSUME NEW n \in {1, 2} PROVE To!Parent(MetaFile[n]) = Meta
  <2> DEFINE S == {"$Meta", "$FileHeader", "$SectionTable"}
  <2>1. PICK s \in Seq(S) : s = MetaFile[n] /\ Len(s) = 2 /\ s[1] = "$Meta"
    <3>1. PICK x \in S : MetaFile[n] = <<"$Meta", x>>
      <4>1. /\ MetaFile[1] = <<"$Meta", "$FileHeader">>
            /\ MetaFile[2] = <<"$Meta", "$SectionTable">>
        BY Pair DEF MetaFile
      <4> HIDE DEF MetaFile
      <4> QED BY <4>1
    <3>2. "$Meta" \in S
      OBVIOUS
    <3> HIDE DEF S
    <3> QED BY <3>1, <3>2, Two
  <2>2. SubSeq(s, 1, Len(s) - 1) = <<"$Meta">>
    BY <2>1, FrontOfTwo
  <2> HIDE DEF MetaFile
  <2> QED BY <2>1, <2>2 DEF To!Parent, Meta
<1>3. /\ \A p \in Added : p # << >>
      /\ Log # Meta /\ \A n \in {1, 2} : MetaFile[n] # Log /\ MetaFile[n] # Meta
      /\ MetaFile[1] # MetaFile[2]
  BY DEF Added, Log, Meta, MetaFile
<1> QED BY <1>1, <1>2, <1>3, ExporterAssumption, PathFacts

LEMMA ToAssumption == ToP!FileTableAssumption
<1>1. ToP!Root = Root /\ \A p : ToP!Parent(p) = To!Parent(p) /\ To!Parent(p) = From!Parent(p)
  BY DEF ToP!Root, Root, From!Root, ToP!Parent, To!Parent, From!Parent
<1>2. \A p \in (Paths \cup Added) \ {Root} : To!Parent(p) \in Paths \cup Added
  <2>1. \A p \in Paths \ {Root} : To!Parent(p) \in Paths
    BY <1>1, PathFacts
  <2>2. \A p \in Added : To!Parent(p) \in {Root, Meta}
    BY AddedFacts DEF Added
  <2>3. Root \in Paths /\ Meta \in Added
    BY PathFacts DEF Added
  <2> QED BY <2>1, <2>2, <2>3
<1>3. MaxFiles + 4 \in Nat \ {0}
  BY ExporterAssumption
<1> QED BY <1>1, <1>2, <1>3, PathFacts, ExporterAssumption DEF ToP!FileTableAssumption

LEMMA ToStart == To!Init => ToP!IInv
<1>1. To!Init => ToP!Init
  BY DEF To!Init, ToP!Init, To!FileIDs, ToP!FileIDs, To!Blank, ToP!Blank, To!Root, ToP!Root
<1> QED BY <1>1, ToP!InitInv, ToAssumption

LEMMA ToStep == ToP!IInv /\ [To!Next]_(To!vars) => ToP!IInv'
<1>1. [To!Next]_(To!vars) => [ToP!Next]_(ToP!vars)
  BY DEF To!vars, ToP!vars, To!Next, ToP!Next, To!AddNew, ToP!AddNew, To!PutOver, ToP!PutOver,
  To!PutAborts, ToP!PutAborts, To!RegisterOver, ToP!RegisterOver, To!DeleteFile, ToP!DeleteFile, To!DeleteOwned, ToP!DeleteOwned, To!Lookup, ToP!Lookup, To!Ids, ToP!Ids, To!Parent, ToP!Parent,
  To!Room, ToP!Room, To!Accepts, ToP!Accepts, To!ValidDirectory, ToP!ValidDirectory, To!ValidFile, ToP!ValidFile,
  To!Made, ToP!Made, To!NewFile, ToP!NewFile, To!Known, ToP!Known, To!Deleted, ToP!Deleted, To!Blank, ToP!Blank,
  To!Root, ToP!Root, To!FileIDs, ToP!FileIDs
<1> QED BY <1>1, ToP!StepInv, ToAssumption

LEMMA CopyFacts ==
  ASSUME ToP!IInv
  PROVE  /\ copied \in Nat /\ copied >= 2 /\ copied <= MaxFiles + 5
         /\ To!Ids = 1 .. copied - 1 /\ To!Ids \subseteq To!FileIDs
         /\ copy \in [To!FileIDs -> To!File]
         /\ \A id \in To!Ids : /\ copy[id].path \in Paths \cup Added
                               /\ copy[id].valid \in BOOLEAN /\ copy[id].directory \in BOOLEAN
         /\ \A i, j \in To!Ids : copy[i].path = copy[j].path => i = j
         /\ copy[1].path = Root
         /\ \A id \in To!Ids \ {1} :
              /\ copy[id].parent \in To!Ids
              /\ copy[id].path # Root
              /\ copy[copy[id].parent].path = To!Parent(copy[id].path)
<1>1. /\ ToP!Ids = To!Ids /\ ToP!FileIDs = To!FileIDs /\ ToP!Root = Root
      /\ \A p : ToP!Parent(p) = To!Parent(p)
      /\ ToP!File = To!File
  BY DEF ToP!Ids, To!Ids, ToP!FileIDs, To!FileIDs, ToP!Root, Root, From!Root,
     ToP!Parent, To!Parent, ToP!File, To!File
<1>2. copy \in [To!FileIDs -> To!File] /\ copied \in 2 .. MaxFiles + 4 + 1
  BY <1>1 DEF ToP!IInv, ToP!TypeOK
<1>3. /\ copied \in Nat /\ copied >= 2 /\ copied <= MaxFiles + 5
      /\ To!Ids = 1 .. copied - 1 /\ To!Ids \subseteq To!FileIDs
  BY <1>2, ExporterAssumption DEF To!Ids, To!FileIDs
<1>4. \A id \in To!Ids : copy[id].valid \in BOOLEAN /\ copy[id].directory \in BOOLEAN
  BY <1>2, <1>3 DEF To!File
<1>5. copy[1].path = Root /\ \A id \in To!Ids : copy[id].path \in Paths \cup Added
  BY <1>1 DEF ToP!IInv, ToP!EntriesKnown
<1>6. \A i, j \in To!Ids : copy[i].path = copy[j].path => i = j
  BY <1>1 DEF ToP!IInv, ToP!OnePathOneFile
<1>7. \A id \in To!Ids \ {1} :
              /\ copy[id].parent \in To!Ids
              /\ copy[id].path # Root
              /\ copy[copy[id].parent].path = To!Parent(copy[id].path)
  BY <1>1 DEF ToP!IInv, ToP!ParentLinks
<1> QED BY <1>2, <1>3, <1>4, <1>5, <1>6, <1>7

LEMMA ToLookup ==
  ASSUME ToP!IInv, NEW p
  PROVE  /\ \/ To!Lookup(p) \in To!Ids /\ copy[To!Lookup(p)].path = p
            \/ To!Lookup(p) = 0 /\ \A id \in To!Ids : copy[id].path # p
         /\ \A id \in To!Ids : copy[id].path = p => To!Lookup(p) = id
<1>1. \/ To!Lookup(p) \in To!Ids /\ copy[To!Lookup(p)].path = p
      \/ To!Lookup(p) = 0 /\ \A id \in To!Ids : copy[id].path # p
  BY DEF To!Lookup
<1> QED BY <1>1, CopyFacts

(* What is said of a file that stays as it is. *)
Same(id) ==
  /\ copy'[id].path = copy[id].path /\ copy'[id].valid = copy[id].valid
  /\ copy'[id].directory = copy[id].directory
  /\ copy'[id].cid = copy[id].cid /\ copy'[id].cfid = copy[id].cfid

(* A file is added under the next id; what there was keeps what it is.     *)
AddedFile(p, dir, c, n) ==
  /\ ToP!IInv'
  /\ copied' = copied + 1 /\ To!Ids' = To!Ids \cup {copied} /\ copied \notin To!Ids /\ copied # 1
  /\ copy'[copied].path = p /\ copy'[copied].valid = TRUE /\ copy'[copied].directory = dir
  /\ copy'[copied].cid = c /\ copy'[copied].cfid = n
  /\ \A id \in To!Ids : Same(id)
  /\ copyAborted' = copyAborted
  /\ \A id \in To!Ids : copy[id].path # p

(* A new file has an id of its own.                                        *)
LEMMA FileAdded ==
  ASSUME ToP!IInv, NEW p \in (Paths \cup Added) \ {Root}, NEW dir \in BOOLEAN,
         NEW c \in 1 .. 3, NEW n \in 0 .. MaxFiles + 1, To!AddNew(p, dir, c, n)
  PROVE  AddedFile(p, dir, c, n)
<1>1. ToP!IInv'
  <2>1. To!Next
    <3>1. To!Root = Root
      BY DEF To!Root, Root, From!Root
    <3>2. n \in (1 .. MaxFiles + 1) \cup {0}
      BY ExporterAssumption
    <3> QED BY <3>1, <3>2 DEF To!Next
  <2> QED BY <2>1, ToStep
<1>2. PICK pid \in To!Ids : /\ To!Lookup(To!Parent(p)) = pid
                             /\ copy' = [copy EXCEPT ![copied] = To!Made(To!NewFile(p, pid, c), dir, n),
                                                     ![pid].first = copied]
  BY DEF To!AddNew, To!Accepts, To!ValidDirectory
<1>3. /\ copied' = copied + 1 /\ copyAborted' = copyAborted /\ To!Lookup(p) = 0
      /\ copied <= MaxFiles + 4
  BY DEF To!AddNew, To!Room
<1>4. /\ copied \in To!FileIDs /\ copied \notin To!Ids /\ copied # 1
      /\ To!Ids' = To!Ids \cup {copied}
  BY <1>3, CopyFacts, ExporterAssumption DEF To!Ids, To!FileIDs
<1> DEFINE f == To!Made(To!NewFile(p, pid, c), dir, n)
<1>5. f.path = p /\ f.valid = TRUE /\ f.directory = dir /\ f.cid = c /\ f.cfid = n
  BY DEF To!Made, To!NewFile, To!Blank
<1> HIDE DEF f
<1>6. copy' = [copy EXCEPT ![copied] = f, ![pid].first = copied]
  BY <1>2 DEF f
<1>7. copied # pid /\ pid \in To!FileIDs /\ copy \in [To!FileIDs -> To!File]
  BY <1>4, CopyFacts
<1>8. copy'[copied] = f
  BY <1>4, <1>6, <1>7
<1>9. copy'[pid] = [copy[pid] EXCEPT !.first = copied]
  BY <1>4, <1>6, <1>7
<1>10. \A id \in To!Ids : id # pid => copy'[id] = copy[id]
  <2>1. \A id \in To!Ids : id \in To!FileIDs /\ id # copied
    BY <1>4, CopyFacts
  <2> QED BY <2>1, <1>6, <1>7
<1>11. copy[pid] \in To!File
  BY <1>7
<1>12. /\ copy'[pid].path = copy[pid].path /\ copy'[pid].valid = copy[pid].valid
       /\ copy'[pid].directory = copy[pid].directory
       /\ copy'[pid].cid = copy[pid].cid /\ copy'[pid].cfid = copy[pid].cfid
  BY <1>9, <1>11 DEF To!File
<1>13. \A id \in To!Ids : copy[id].path # p
  BY <1>3, ToLookup, CopyFacts
<1>14. \A id \in To!Ids : Same(id)
  BY <1>10, <1>12 DEF Same
<1> QED BY <1>1, <1>3, <1>4, <1>5, <1>8, <1>13, <1>14 DEF AddedFile

Children(d) == {j \in From!Ids : files[j].parent = d}

LEMMA TreeFacts ==
  ASSUME FromP!IInv
  PROVE  /\ From!Ids \subseteq From!FileIDs /\ From!Ids \subseteq Nat /\ 1 \in From!Ids /\ 0 \notin From!Ids
         /\ \A id \in From!Ids : /\ files[id].path \in Paths
                                 /\ files[id].valid \in BOOLEAN /\ files[id].directory \in BOOLEAN
                                 /\ From!Known(id)
         /\ \A i, j \in From!Ids : files[i].path = files[j].path => i = j
         /\ files[1].path = Root /\ files[1].parent = 0
         /\ \A id \in From!Ids \ {1} :
              /\ files[id].parent \in From!Ids /\ files[id].parent < id
              /\ files[id].path # Root
              /\ files[files[id].parent].path = From!Parent(files[id].path)
<1>1. /\ FromP!Ids = From!Ids /\ FromP!FileIDs = From!FileIDs /\ FromP!Root = Root
      /\ \A p : FromP!Parent(p) = From!Parent(p)
      /\ \A id : FromP!Known(id) = From!Known(id)
  BY DEF FromP!Ids, From!Ids, FromP!FileIDs, From!FileIDs, FromP!Root, Root, From!Root,
     FromP!Parent, From!Parent, FromP!Known, From!Known
<1>2. /\ From!Ids \subseteq From!FileIDs /\ From!Ids \subseteq Nat /\ 1 \in From!Ids /\ 0 \notin From!Ids
      /\ files \in [From!FileIDs -> FromP!File]
  BY <1>1, ExporterAssumption DEF FromP!IInv, FromP!TypeOK, From!Ids, From!FileIDs
<1>3. \A id \in From!Ids : files[id].valid \in BOOLEAN /\ files[id].directory \in BOOLEAN
  BY <1>2 DEF FromP!File
<1>4. /\ \A id \in From!Ids : files[id].path \in Paths /\ From!Known(id)
      /\ files[1].path = Root /\ files[1].parent = 0
  BY <1>1 DEF FromP!IInv, FromP!EntriesKnown
<1>5. \A i, j \in From!Ids : files[i].path = files[j].path => i = j
  BY <1>1 DEF FromP!IInv, FromP!OnePathOneFile
<1>6. \A id \in From!Ids \ {1} :
              /\ files[id].parent \in From!Ids /\ files[id].parent < id
              /\ files[id].path # Root
              /\ files[files[id].parent].path = From!Parent(files[id].path)
  BY <1>1 DEF FromP!IInv, FromP!ParentLinks
<1> QED BY <1>2, <1>3, <1>4, <1>5, <1>6

(* The links of a directory's list, as the walk follows them. *)
LEMMA ListFacts ==
  ASSUME FromP!IInv
  PROVE  \A id \in From!Ids :
           /\ From!FirstChild(id) \in From!Ids \cup {0}
           /\ From!FirstChild(id) # 0 => From!FirstChild(id) \in Children(id)
           /\ From!NextSibling(id) \in From!Ids \cup {0}
           /\ From!NextSibling(id) # 0 => /\ From!NextSibling(id) < id
                                          /\ files[From!NextSibling(id)].parent = files[id].parent
           /\ id # 1 => \/ From!FirstChild(files[id].parent) = id
                        \/ \E s \in Children(files[id].parent) : s > id /\ From!NextSibling(s) = id
<1> SUFFICES ASSUME NEW id \in From!Ids
             PROVE
           /\ From!FirstChild(id) \in From!Ids \cup {0}
           /\ From!FirstChild(id) # 0 => From!FirstChild(id) \in Children(id)
           /\ From!NextSibling(id) \in From!Ids \cup {0}
           /\ From!NextSibling(id) # 0 => /\ From!NextSibling(id) < id
                                          /\ files[From!NextSibling(id)].parent = files[id].parent
           /\ id # 1 => \/ From!FirstChild(files[id].parent) = id
                        \/ \E s \in Children(files[id].parent) : s > id /\ From!NextSibling(s) = id
  OBVIOUS
<1>1. FromP!Ids = From!Ids
  BY DEF FromP!Ids, From!Ids
<1>2. /\ From!FirstChild(id) \in From!Ids \cup {0}
      /\ From!FirstChild(id) # 0 => From!FirstChild(id) \in Children(id)
      /\ From!NextSibling(id) \in From!Ids \cup {0}
      /\ From!NextSibling(id) # 0 => /\ From!NextSibling(id) < id
                                     /\ files[From!NextSibling(id)].parent = files[id].parent
  BY <1>1, TreeFacts DEF From!FirstChild, From!NextSibling, FromP!IInv, FromP!ListLinks, Children, From!Known
<1>3. id # 1 => \/ files[files[id].parent].first = id
                \/ \E s \in From!Ids : s > id /\ files[s].next = id /\ files[s].parent = files[id].parent
  BY <1>1 DEF FromP!IInv, FromP!OnAList
<1>4. From!Known(id)
  BY TreeFacts
<1>5. id # 1 => \/ From!FirstChild(files[id].parent) = id
                \/ \E s \in Children(files[id].parent) : s > id /\ From!NextSibling(s) = id
  BY <1>3, <1>4 DEF From!FirstChild, From!NextSibling, Children
<1> QED BY <1>2, <1>5

(* A bounded set of numbers has a greatest one. *)
LEMMA GreatestId ==
  ASSUME NEW S \in SUBSET From!Ids, S # {}, FromP!IInv
  PROVE  \E n \in S : \A m \in S : m <= n
<1>1. MaxFiles \in Nat /\ From!Ids \subseteq 1 .. MaxFiles
  BY TreeFacts, ExporterAssumption DEF From!FileIDs
<1> DEFINE D == {MaxFiles - m : m \in S}
<1>2. D \in SUBSET Nat /\ D # {}
  <2>1. \A m \in S : m \in 1 .. MaxFiles
    BY <1>1
  <2>2. \A m \in S : MaxFiles - m \in Nat
    BY <2>1, <1>1
  <2> QED BY <2>2
<1>3. PICK d \in D : \A e \in D : d <= e
  <2> HIDE DEF D
  <2> QED BY <1>2, FromP!LeastNat, TableAssumption
<1>4. PICK n \in S : d = MaxFiles - n
  BY <1>3
<1>5. ASSUME NEW m \in S PROVE m <= n
  <2>1. MaxFiles - n <= MaxFiles - m
    BY <1>3, <1>4
  <2>2. m \in 1 .. MaxFiles /\ n \in 1 .. MaxFiles
    BY <1>1
  <2> QED BY <2>1, <2>2, <1>1
<1> QED BY <1>4, <1>5

(* The first child is the one with the greatest id. *)
LEMMA FirstIsGreatest ==
  ASSUME FromP!IInv, NEW d \in From!Ids, NEW j \in Children(d)
  PROVE  j <= From!FirstChild(d)
<1>1. PICK m \in Children(d) : \A k \in Children(d) : k <= m
  <2>1. Children(d) \in SUBSET From!Ids /\ Children(d) # {}
    BY DEF Children
  <2> QED BY <2>1, GreatestId
<1>2. m \in From!Ids /\ files[m].parent = d /\ d # 0 /\ m # 1 /\ m \in Nat
  BY TreeFacts DEF Children
<1>3. \/ From!FirstChild(d) = m
      \/ \E s \in Children(d) : s > m
  BY <1>2, ListFacts
<1>4. \A s \in Children(d) : s \in Nat
  BY TreeFacts DEF Children
<1>5. From!FirstChild(d) = m
  BY <1>1, <1>2, <1>3, <1>4
<1> QED BY <1>1, <1>5

(* No child is between one and the sibling the walk goes on to. *)
LEMMA NoChildBetween ==
  ASSUME FromP!IInv, NEW d \in From!Ids, NEW c \in Children(d), NEW j \in Children(d), j < c
  PROVE  j <= From!NextSibling(c)
<1>1. \A s \in Children(d) : s \in From!Ids /\ s \in Nat /\ s # 1 /\ files[s].parent = d
  BY TreeFacts DEF Children
<1>2. \A s \in Children(d) : From!NextSibling(s) \in Nat
  BY <1>1, ListFacts, TreeFacts
<1> DEFINE Between(a) == {b \in Children(d) : b < a /\ From!NextSibling(a) < b}
           Passed == {b \in Children(d) : \E a \in Children(d) : b < a /\ From!NextSibling(a) < b}
<1>3. Passed = {}
  <2> SUFFICES ASSUME Passed # {} PROVE FALSE
    OBVIOUS
  <2>1. PICK b \in Passed : \A e \in Passed : e <= b
    <3>1. Passed \in SUBSET From!Ids
      BY <1>1
    <3> HIDE DEF Passed
    <3> QED BY <3>1, GreatestId
  <2>2. PICK a \in Children(d) : b < a /\ From!NextSibling(a) < b
    BY <2>1
  <2>3. b \in Children(d)
    BY <2>1
  <2>4. b # From!FirstChild(d)
    BY <2>2, <2>3, <1>1, FirstIsGreatest
  <2>5. PICK s \in Children(d) : s > b /\ From!NextSibling(s) = b
    BY <2>3, <2>4, <1>1, ListFacts
  <2>6. CASE s < a
    <3>1. s \in Passed
      BY <2>6, <2>5, <2>2, <2>3, <1>1, <1>2
    <3> QED BY <3>1, <2>1, <2>5, <2>3, <1>1
  <2>7. CASE s > a
    <3>1. a \in Passed
      BY <2>7, <2>5, <2>2, <2>3, <1>1, <1>2
    <3> QED BY <3>1, <2>1, <2>2, <2>3, <1>1
  <2>8. s # a
    BY <2>2, <2>5, <2>3, <1>1
  <2> QED BY <2>6, <2>7, <2>8, <1>1
<1>4. From!NextSibling(c) \in Nat /\ j \in Nat
  BY <1>1, <1>2
<1> QED BY <1>3, <1>4

-----------------------------------------------------------------------------
Listed(id) == \E k \in DOMAIN list : list[k].vfs = id

(* The valid children of the directory that entry k is have entries.       *)
ChildrenListed(k) ==
  \A j \in Children(list[k].vfs) : files[j].valid => Listed(j)

(* Each entry is of a file a client reaches, of another one than any other *)
(* entry, and comes after the entry of the directory the file is in.       *)
ListSound ==
  /\ list \in Seq([vfs : From!Ids, parent : Nat, dir : BOOLEAN])
  /\ list # << >> /\ 1 \in DOMAIN list /\ list[1].vfs = 1 /\ list[1].dir
  /\ \A k \in DOMAIN list : /\ Visible(files[list[k].vfs].path)
                            /\ list[k].dir = files[list[k].vfs].directory
  /\ \A k \in DOMAIN list \ {1} :
       /\ list[k].parent \in 1 .. k - 1
       /\ list[list[k].parent].dir
       /\ list[list[k].parent].vfs = files[list[k].vfs].parent
  /\ \A i, k \in DOMAIN list : list[i].vfs = list[k].vfs => i = k

(* An open call of ScanFid is about an entry of its own.  It has listed    *)
(* the valid children with a greater id than the one it is at, no others.  *)
CallSound(call) ==
  /\ call.index \in DOMAIN list
  /\ list[call.index].dir
  /\ call.child # 0 => call.child \in Children(list[call.index].vfs)
  /\ \A j \in Children(list[call.index].vfs) :
       IF j > call.child THEN files[j].valid => Listed(j) ELSE ~Listed(j)

ScanSound ==
  /\ stack \in Seq([child : From!Ids \cup {0}, index : Nat])
  /\ stack # << >>
  /\ \A s \in DOMAIN stack : CallSound(stack[s])
  /\ \A s, t \in DOMAIN stack : stack[s].index = stack[t].index => s = t
  /\ \A k \in DOMAIN list :
       list[k].dir => ChildrenListed(k) \/ \E s \in DOMAIN stack : stack[s].index = k

ListComplete == \A k \in DOMAIN list : list[k].dir => ChildrenListed(k)

Mounting == {"mount", "done", "meta", "open", "listed"}

Writing == {"write", "written"}

(* Entry k has the file id: it is a directory if the entry is one, but for *)
(* the file of the log, which stays a file.                                *)
IsDir(k) == list[k].dir /\ ~(owner = 2 /\ PathOf(k) = Log)

IsEntry(id, k) ==
  /\ copy[id].path = PathOf(k) /\ copy[id].valid /\ copy[id].directory = IsDir(k)
  /\ copy[id].cid = owner /\ copy[id].cfid = k

OfAnEntry(id) == \E k \in 2 .. at - 1 : IsEntry(id, k)

(* The log's file, or what RDCMetaModule has made. *)
OfAnother(id) ==
  /\ owner = 2 /\ copy[id].valid
  /\ \/ copy[id].cid = 1 /\ copy[id].path = Log /\ ~copy[id].directory
     \/ copy[id].cid = 3 /\ copy[id].path = Meta /\ copy[id].directory
     \/ copy[id].cid = 3 /\ copy[id].path \in {MetaFile[1], MetaFile[2]} /\ ~copy[id].directory

Files == To!Ids \ {1}

Has(p) == \E id \in Files : copy[id].path = p

HasEntry(k) == \E id \in Files : IsEntry(id, k)

(* The table the archive is mounted in has a file for each entry so far,   *)
(* and what other containers have made.                                    *)
Registered ==
  /\ ToP!IInv /\ ~copyAborted /\ copy[1].valid /\ copy[1].directory
  /\ owner \in {1, 2}
  /\ at \in 1 .. Len(list) + 1
  /\ \A k \in 2 .. at - 1 : HasEntry(k)
  /\ \A id \in Files : OfAnEntry(id) \/ OfAnother(id)
  /\ owner = 2 => Has(Log)

(* As long as the archive is being mounted it has one file at most for     *)
(* each entry, besides the log's.                                          *)
Registering ==
  /\ at >= 2 /\ copied <= at + owner - 1
  /\ \A id \in Files : copy[id].cid # 3

MetaIsFile == \E id \in Files : copy[id].path = Meta /\ ~copy[id].directory

AllRegistered == at = 1 \/ at = Len(list) + 1 \/ BelowLog

(* The plugin goes on after the mount. *)
Opened ==
  /\ owner = 2
  /\ AllRegistered
  /\ metas \in 0 .. 2
  /\ phase # "meta" => metas = 2
  /\ \A n \in 1 .. metas : Has(Meta) /\ (Has(MetaFile[n]) \/ MetaIsFile)
  /\ MetaIsFile => \A id \in Files : copy[id].cid # 3

(* The file manager is at one of the files. *)
Read ==
  /\ phase = "open" => iterator \in 2 .. copied
  /\ phase = "listed" => iterator = copied
  /\ extracted.id # 0 => extracted.id \in Files /\ extracted.from = ContentOf(extracted.id)

(* Entry k is of the file with path p, and a file of the folder is written *)
(* for it.                                                                 *)
EntryOf(k, p) == ~list[k].dir /\ files[list[k].vfs].path = p

Writable(p) == p \notin Unreadable /\ before[p].kind # "folder"

(* What the folder has at p once the entries before at were written.       *)
Expected(p) ==
  IF Writable(p) /\ \E k \in 1 .. at - 1 : EntryOf(k, p)
  THEN FileWith(From!Lookup(p))
  ELSE IF \E q \in Paths : p \in Above(q) /\ \E k \in 1 .. at - 1 : EntryOf(k, q)
  THEN Folder
  ELSE before[p]

Written ==
  /\ at \in 1 .. Len(list) + 1
  /\ \A p \in Paths \ {Root} : target[p] = Expected(p)

Opening == {"meta", "open", "listed"}

RootExported ==
  /\ phase \in {"idle", "scan", "exported", "refused", "stopped"} \cup Mounting \cup Writing
  /\ phase = "idle" => at = 0
  /\ phase \in {"idle", "scan", "exported"} => To!Init
  /\ phase \notin Opening \cup {"stopped"} => metas = 0
  /\ phase \notin {"open", "listed"} => extracted.id = 0
  /\ phase \in {"scan", "exported"} \cup Mounting \cup Writing => ListSound
  /\ phase = "scan" => ScanSound
  /\ phase \in {"exported"} \cup Mounting \cup Writing => ListComplete
  /\ phase \in Mounting => Registered
  /\ phase = "mount" => Registering
  /\ phase = "done" => owner = 1 /\ at = Len(list) + 1
  /\ phase \in Opening => Opened /\ Read
  /\ phase \in Writing => Written
  /\ phase = "written" => at = Len(list) + 1

IInv ==
  /\ FromP!IInv
  /\ phase = "idle" => base = Root
  /\ base = Root => RootExported

-----------------------------------------------------------------------------
LEMMA Elements ==
  ASSUME NEW S, NEW s \in Seq(S)
  PROVE  /\ Len(s) \in Nat /\ DOMAIN s = 1 .. Len(s)
         /\ \A k \in DOMAIN s : s[k] \in S
OBVIOUS

LEMMA Prefixes ==
  ASSUME NEW p \in Paths, NEW n \in 0 .. Len(p)
  PROVE  /\ Len(p) \in Nat
         /\ SubSeq(p, 1, n) \in Paths /\ Len(SubSeq(p, 1, n)) = n
         /\ \A m \in 0 .. n : SubSeq(SubSeq(p, 1, n), 1, m) = SubSeq(p, 1, m)
         /\ SubSeq(p, 1, Len(p)) = p /\ SubSeq(p, 1, 0) = Root
         /\ n # 0 => From!Parent(SubSeq(p, 1, n)) = SubSeq(p, 1, n - 1)
         /\ n # 0 => SubSeq(p, 1, n) # Root
<1>1. p \in Seq(Names) /\ Len(p) \in Nat
  BY PathFacts
<1>2. SubSeq(p, 1, Len(p)) = p /\ SubSeq(p, 1, 0) = Root
  BY <1>1, PathFacts
<1>3. SubSeq(p, 1, n) \in Seq(Names) /\ Len(SubSeq(p, 1, n)) = n
  BY <1>1
<1>4. SubSeq(p, 1, n) \in Paths
  <2>1. CASE n = 0
    BY <2>1, <1>2, PathFacts
  <2>2. CASE n # 0
    <3>1. n \in 1 .. Len(p)
      BY <2>2, <1>1
    <3>2. \A k \in 1 .. Len(p) : SubSeq(p, 1, k) \in Paths
      BY ExporterAssumption
    <3> QED BY <3>1, <3>2
  <2> QED BY <2>1, <2>2
<1>5. ASSUME NEW m \in 0 .. n
      PROVE  SubSeq(SubSeq(p, 1, n), 1, m) = SubSeq(p, 1, m)
  BY <1>1, <1>3
<1>6. n # 0 => From!Parent(SubSeq(p, 1, n)) = SubSeq(p, 1, n - 1)
  <2>1. n # 0 => n - 1 \in 0 .. n
    BY <1>1
  <2> QED BY <2>1, <1>3, <1>5 DEF From!Parent
<1>7. n # 0 => SubSeq(p, 1, n) # Root
  BY <1>3, PathFacts
<1> QED BY <1>1, <1>2, <1>3, <1>4, <1>5, <1>6, <1>7

LEMMA FromLookup ==
  ASSUME FromP!IInv, NEW p
  PROVE  /\ \/ From!Lookup(p) \in From!Ids /\ files[From!Lookup(p)].path = p
            \/ From!Lookup(p) = 0 /\ \A id \in From!Ids : files[id].path # p
         /\ \A id \in From!Ids : files[id].path = p => From!Lookup(p) = id
<1>1. \/ From!Lookup(p) \in From!Ids /\ files[From!Lookup(p)].path = p
      \/ From!Lookup(p) = 0 /\ \A id \in From!Ids : files[id].path # p
  BY DEF From!Lookup
<1> QED BY <1>1, TreeFacts

(* A client reaches the root, and what is valid in a directory it reaches.  *)
LEMMA VisibleBelow ==
  ASSUME FromP!IInv, NEW id \in From!Ids
  PROVE  /\ Visible(Root)
         /\ id # 1 => (Visible(files[id].path) <=>
                         /\ files[id].valid
                         /\ files[id].parent # 1 => files[files[id].parent].directory
                         /\ Visible(files[files[id].parent].path))
<1>1. files[1].path = Root
  BY TreeFacts
<1>2. Visible(Root)
  <2>1. Len(Root) = 0
    BY PathFacts
  <2> QED BY <2>1 DEF Visible
<1>3. ASSUME id # 1
      PROVE  Visible(files[id].path) <=>
                         /\ files[id].valid
                         /\ files[id].parent # 1 => files[files[id].parent].directory
                         /\ Visible(files[files[id].parent].path)
  <2>1. PICK p \in Paths : p = files[id].path /\ p # Root
    BY <1>3, TreeFacts
  <2>2. PICK d \in From!Ids : d = files[id].parent /\ files[d].path = From!Parent(p)
    BY <1>3, <2>1, TreeFacts
  <2>3. PICK n \in Nat : n = Len(p) /\ n # 0
    <3>1. p \in Seq(Names) /\ p # << >>
      BY <2>1, PathFacts
    <3> QED BY <3>1
  <2>4. PICK q \in Paths : q = SubSeq(p, 1, n - 1) /\ q = From!Parent(p)
    BY <2>1, <2>3, PathFacts
  <2>5. Len(q) = n - 1 /\ \A m \in 0 .. n - 1 : SubSeq(q, 1, m) = SubSeq(p, 1, m)
    <3>1. n - 1 \in 0 .. Len(p)
      BY <2>3
    <3> QED BY <3>1, <2>4, Prefixes
  <2>6. SubSeq(p, 1, n) = p /\ SubSeq(p, 1, n - 1) = q
    BY <2>3, <2>4, Prefixes
  <2>7. From!Lookup(p) = id /\ From!Lookup(q) = d /\ id # 0 /\ d # 0
    <3>1. \A i \in From!Ids : From!Lookup(files[i].path) = i
      BY FromLookup
    <3>2. id # 0 /\ d # 0
      BY TreeFacts
    <3>3. files[id].path = p /\ files[d].path = q
      BY <2>1, <2>2, <2>4
    <3> QED BY <3>1, <3>2, <3>3
  <2>12. n = 1 <=> d = 1
    <3>1. n = 1 => q = Root
      BY <2>5, <2>4, PathFacts
    <3>2. q = Root => n = 1
      <4>1. Len(Root) = 0 /\ Len(q) = n - 1
        BY <2>5, PathFacts
      <4> QED BY <4>1, <2>3
    <3>3. q = Root <=> d = 1
      BY <2>2, <2>4, <1>1, TreeFacts
    <3> QED BY <3>1, <3>2, <3>3
  <2> DEFINE P(m) == /\ From!Lookup(SubSeq(p, 1, m)) # 0
                     /\ files[From!Lookup(SubSeq(p, 1, m))].valid
             D(m) == files[From!Lookup(SubSeq(p, 1, m))].directory
  <2>8. Visible(p) <=> \A m \in 1 .. n : P(m) /\ (m < n => D(m))
    BY <2>3 DEF Visible
  <2>9. Visible(q) <=> \A m \in 1 .. n - 1 : P(m) /\ (m < n - 1 => D(m))
    <3>1. \A m \in 1 .. n - 1 : m \in 0 .. n - 1
      OBVIOUS
    <3> QED BY <2>5, <3>1 DEF Visible
  <2>10. (P(n) <=> files[id].valid) /\ (D(n - 1) <=> files[d].directory)
    BY <2>6, <2>7
  <2> HIDE DEF P, D
  <2>11. Visible(p) <=> files[id].valid /\ (n # 1 => files[d].directory) /\ Visible(q)
    BY <2>3, <2>8, <2>9, <2>10
  <2> QED BY <2>1, <2>2, <2>4, <2>11, <2>12
<1> QED BY <1>2, <1>3


(* What can be reached has a file. *)
LEMMA VisibleHasFile ==
  ASSUME FromP!IInv, NEW p \in Paths, Visible(p)
  PROVE  From!Lookup(p) \in From!Ids /\ files[From!Lookup(p)].path = p
<1>1. CASE p = Root
  BY <1>1, FromLookup, TreeFacts
<1>2. CASE p # Root
  <2>1. Len(p) \in 1 .. Len(p) /\ SubSeq(p, 1, Len(p)) = p
    <3>1. p \in Seq(Names) /\ p # << >>
      BY <1>2, PathFacts
    <3> QED BY <3>1
  <2>2. From!Lookup(p) # 0
    BY <2>1 DEF Visible
  <2> QED BY <2>2, FromLookup
<1> QED BY <1>1, <1>2

(* A complete list has whatever can be reached: its directory can be       *)
(* reached, has a smaller id, and has its valid children listed.           *)
LEMMA VisibleListed ==
  ASSUME FromP!IInv, ListSound, ListComplete, NEW id \in From!Ids, Visible(files[id].path)
  PROVE  Listed(id)
<1> DEFINE Missed == {j \in From!Ids : Visible(files[j].path) /\ ~Listed(j)}
<1> SUFFICES ASSUME Missed # {} PROVE FALSE
  OBVIOUS
<1>1. PICK j \in Missed : \A m \in Missed : j <= m
  <2>1. Missed \in SUBSET Nat
    BY TreeFacts
  <2> HIDE DEF Missed
  <2> QED BY <2>1, FromP!LeastNat, TableAssumption
<1>2. j \in From!Ids /\ Visible(files[j].path) /\ ~Listed(j)
  BY <1>1
<1>3. j # 1
  <2>1. Listed(1)
    BY DEF ListSound, Listed
  <2> QED BY <2>1, <1>2
<1>4. PICK d \in From!Ids : d = files[j].parent /\ d < j
  BY <1>2, <1>3, TreeFacts
<1>5. files[j].valid /\ (d # 1 => files[d].directory) /\ Visible(files[d].path)
  BY <1>2, <1>3, <1>4, VisibleBelow
<1>6. Listed(d)
  <2>1. d \in Nat /\ j \in Nat
    BY <1>2, <1>4, TreeFacts
  <2>2. d \notin Missed
    BY <2>1, <1>1, <1>4
  <2> QED BY <2>2, <1>4, <1>5
<1>7. PICK k \in DOMAIN list : list[k].vfs = d
  BY <1>6 DEF Listed
<1>8. list[k].dir
  <2>1. CASE d = 1
    BY <2>1, <1>7 DEF ListSound
  <2>2. CASE d # 1
    BY <2>2, <1>7, <1>5 DEF ListSound
  <2> QED BY <2>1, <2>2
<1>9. ChildrenListed(k)
  BY <1>7, <1>8 DEF ListComplete
<1>10. j \in Children(d)
  BY <1>2, <1>4 DEF Children
<1> QED BY <1>2, <1>5, <1>7, <1>9, <1>10 DEF ChildrenListed

-----------------------------------------------------------------------------
(* The export leaves the table it is made of as it is. *)
LEMMA SourceStays ==
  ASSUME IInv, UNCHANGED source
  PROVE  /\ From!Ids' = From!Ids /\ files' = files
         /\ \A d : Children(d)' = Children(d)
         /\ \A p : (Visible(p)' <=> Visible(p)) /\ From!Lookup(p)' = From!Lookup(p)
         /\ FromP!IInv'
<1>1. files' = files /\ allocated' = allocated /\ aborted' = aborted
  BY DEF source
<1>2. From!Ids' = From!Ids
  BY <1>1 DEF From!Ids
<1>3. \A d : Children(d)' = Children(d)
  BY <1>1, <1>2 DEF Children
<1>4. \A p : From!Lookup(p)' = From!Lookup(p)
  BY <1>1, <1>2 DEF From!Lookup
<1>5. \A p : Visible(p)' <=> Visible(p)
  BY <1>1, <1>4 DEF Visible
<1>6. FromP!IInv'
  <2>1. UNCHANGED From!vars
    BY <1>1 DEF From!vars
  <2> QED BY <2>1, FromStep DEF IInv
<1> QED BY <1>1, <1>2, <1>3, <1>4, <1>5, <1>6

(* A step that changes neither the list nor the tables keeps what is said  *)
(* of the list.                                                            *)
LEMMA ListStays ==
  ASSUME IInv, UNCHANGED source, UNCHANGED list
  PROVE  /\ ListSound => ListSound'
         /\ ListComplete => ListComplete'
         /\ \A k \in DOMAIN list : ChildrenListed(k)' <=> ChildrenListed(k)
         /\ \A c : CallSound(c)' <=> CallSound(c)
         /\ \A k, p : EntryOf(k, p)' <=> EntryOf(k, p)
<1>1. /\ From!Ids' = From!Ids /\ files' = files /\ list' = list
      /\ \A d : Children(d)' = Children(d)
      /\ \A p : (Visible(p)' <=> Visible(p))
  BY SourceStays
<1>2. \A j : Listed(j)' <=> Listed(j)
  BY <1>1 DEF Listed
<1>3. \A k \in DOMAIN list : ChildrenListed(k)' <=> ChildrenListed(k)
  BY <1>1, <1>2 DEF ChildrenListed
<1>4. ListSound => ListSound'
  BY <1>1 DEF ListSound
<1>5. ListComplete => ListComplete'
  BY <1>1, <1>3 DEF ListComplete
<1>6. \A c : CallSound(c)' <=> CallSound(c)
  BY <1>1, <1>2 DEF CallSound
<1>7. \A k, p : EntryOf(k, p)' <=> EntryOf(k, p)
  BY <1>1 DEF EntryOf
<1> QED BY <1>3, <1>4, <1>5, <1>6, <1>7


(* The state of the innermost call, and of its list of children. *)
LEMMA TopFacts ==
  ASSUME IInv, phase = "scan", base = Root
  PROVE  \E n \in Nat, d \in From!Ids :
           /\ n = Len(stack) /\ n \in DOMAIN stack /\ n >= 1 /\ Top = stack[n]
           /\ DOMAIN stack = 1 .. n
           /\ Top \in [child : From!Ids \cup {0}, index : Nat]
           /\ Top.index \in DOMAIN list /\ list[Top.index].vfs = d /\ list[Top.index].dir
           /\ CallSound(Top) /\ ScanSound /\ ListSound /\ To!Init /\ extracted.id = 0
           /\ files[d].directory /\ Visible(files[d].path)
<1>1. ScanSound /\ ListSound /\ To!Init /\ extracted.id = 0
  BY DEF IInv, RootExported
<1>2. stack \in Seq([child : From!Ids \cup {0}, index : Nat]) /\ stack # << >>
  BY <1>1 DEF ScanSound
<1>3. PICK n \in Nat : n = Len(stack) /\ n >= 1
  BY <1>2
<1>4. n \in DOMAIN stack /\ DOMAIN stack = 1 .. n /\ Top = stack[n]
  BY <1>2, <1>3 DEF Top
<1>5. Top \in [child : From!Ids \cup {0}, index : Nat]
  BY <1>2, <1>4, Elements
<1>6. CallSound(Top)
  BY <1>1, <1>4 DEF ScanSound
<1>7. Top.index \in DOMAIN list /\ list[Top.index].dir
  BY <1>6 DEF CallSound
<1>8. PICK e : e = list[Top.index]
  OBVIOUS
<1>9. /\ e \in [vfs : From!Ids, parent : Nat, dir : BOOLEAN]
      /\ Visible(files[e.vfs].path) /\ e.dir = files[e.vfs].directory
  <2>1. list \in Seq([vfs : From!Ids, parent : Nat, dir : BOOLEAN])
    BY <1>1 DEF ListSound
  <2>2. e \in [vfs : From!Ids, parent : Nat, dir : BOOLEAN]
    BY <2>1, <1>7, <1>8, Elements
  <2> QED BY <2>2, <1>1, <1>7, <1>8 DEF ListSound
<1> QED BY <1>1, <1>3, <1>4, <1>5, <1>6, <1>7, <1>8, <1>9

(* Changing the innermost call for another of the same entry. *)
LEMMA TopReplaced ==
  ASSUME IInv, phase = "scan", base = Root, UNCHANGED source, UNCHANGED list,
         NEW c \in From!Ids \cup {0},
         stack' = [stack EXCEPT ![Len(stack)].child = c],
         CallSound([child |-> c, index |-> Top.index])
  PROVE  ScanSound'
<1>1. PICK n \in Nat, d \in From!Ids :
           /\ n = Len(stack) /\ n \in DOMAIN stack /\ n >= 1 /\ Top = stack[n]
           /\ DOMAIN stack = 1 .. n
           /\ Top \in [child : From!Ids \cup {0}, index : Nat]
           /\ ScanSound /\ ListSound
  BY TopFacts
<1>2. stack \in Seq([child : From!Ids \cup {0}, index : Nat]) /\ stack # << >>
  BY <1>1 DEF ScanSound
<1>3. DEFINE call == [child |-> c, index |-> Top.index]
<1>4. call \in [child : From!Ids \cup {0}, index : Nat] /\ call.index = Top.index
  BY <1>1
<1>5. [stack[n] EXCEPT !.child = c] = call
  BY <1>1
<1>6. stack' = [stack EXCEPT ![n] = call]
  BY <1>1, <1>5
<1> HIDE DEF call
<1>7. /\ stack' \in Seq([child : From!Ids \cup {0}, index : Nat]) /\ stack' # << >>
      /\ DOMAIN stack' = DOMAIN stack
      /\ stack'[n] = call
      /\ \A s \in DOMAIN stack : s # n => stack'[s] = stack[s]
  BY <1>1, <1>2, <1>4, <1>6
<1>8. \A s \in DOMAIN stack : stack'[s].index = stack[s].index
  BY <1>1, <1>4, <1>7
<1>9. /\ From!Ids' = From!Ids /\ list' = list
      /\ \A k \in DOMAIN list : ChildrenListed(k)' <=> ChildrenListed(k)
      /\ \A x : CallSound(x)' <=> CallSound(x)
  BY SourceStays, ListStays
<1>10. CallSound(call)
  BY DEF call
<1>11. \A s \in DOMAIN stack : CallSound(stack'[s])
  BY <1>1, <1>7, <1>10 DEF ScanSound
<1>12. \A s \in DOMAIN stack' : CallSound(stack[s])'
  <2> SUFFICES ASSUME NEW s \in DOMAIN stack' PROVE CallSound(stack[s])'
    OBVIOUS
  <2>1. PICK x : x = stack'[s]
    OBVIOUS
  <2>2. CallSound(x)
    BY <2>1, <1>7, <1>11
  <2>3. CallSound(x)'
    BY <2>2, <1>9
  <2> QED BY <2>1, <2>3 DEF CallSound
<1>13. \A s, t \in DOMAIN stack' : stack'[s].index = stack'[t].index => s = t
  BY <1>1, <1>7, <1>8 DEF ScanSound
<1>14. \A k \in DOMAIN list' : list'[k].dir =>
           ChildrenListed(k)' \/ \E s \in DOMAIN stack' : stack'[s].index = k
  BY <1>1, <1>7, <1>8, <1>9 DEF ScanSound
<1> QED BY <1>7, <1>9, <1>12, <1>13, <1>14 DEF ScanSound

LEMMA SkipInvalidInv ==
  ASSUME IInv, base = Root, SkipInvalid
  PROVE  ScanSound'
<1>1. PICK n \in Nat, d \in From!Ids :
           /\ n = Len(stack)
           /\ Top \in [child : From!Ids \cup {0}, index : Nat]
           /\ Top.index \in DOMAIN list /\ list[Top.index].vfs = d /\ list[Top.index].dir
           /\ CallSound(Top)
  BY TopFacts DEF SkipInvalid
<1>2. PICK id \in From!Ids : id = Top.child /\ ~files[id].valid /\ id \in Children(d)
  BY <1>1, TreeFacts DEF SkipInvalid, CallSound, IInv
<1>3. PICK c \in From!Ids \cup {0} : c = From!NextSibling(id)
  BY <1>2, ListFacts DEF IInv
<1>4. c # 0 => c \in Children(d) /\ c < id
  BY <1>2, <1>3, ListFacts DEF IInv, Children
<1>5. ASSUME NEW j \in Children(d)
      PROVE  IF j > c THEN files[j].valid => Listed(j) ELSE ~Listed(j)
  <2>1. j \in Nat /\ id \in Nat /\ c \in Nat
    BY <1>2, <1>3, TreeFacts DEF IInv, Children
  <2>2. IF j > id THEN files[j].valid => Listed(j) ELSE ~Listed(j)
    BY <1>1, <1>2 DEF CallSound
  <2>3. j < id => j <= c
    BY <1>2, <1>3, NoChildBetween DEF IInv
  <2>4. c < id
    <3>1. id # 0
      BY <1>2, TreeFacts DEF IInv
    <3> QED BY <3>1, <1>4, <2>1
  <2> QED BY <2>1, <2>2, <2>3, <2>4, <1>2
<1>6. CallSound([child |-> c, index |-> Top.index])
  BY <1>1, <1>4, <1>5 DEF CallSound
<1>7. stack' = [stack EXCEPT ![Len(stack)].child = c]
  BY <1>2, <1>3 DEF SkipInvalid, Advanced
<1> QED BY <1>6, <1>7, TopReplaced DEF SkipInvalid


LEMMA Appending ==
  ASSUME NEW S, NEW s \in Seq(S), NEW e \in S, NEW t, t = Append(s, e)
  PROVE  /\ t \in Seq(S) /\ t # << >> /\ Len(t) = Len(s) + 1
         /\ Len(s) \in Nat /\ DOMAIN s = 1 .. Len(s)
         /\ DOMAIN t = 1 .. Len(s) + 1
         /\ t[Len(s) + 1] = e
         /\ \A k \in DOMAIN s : k \in DOMAIN t /\ t[k] = s[k]
OBVIOUS

LEMMA Shortening ==
  ASSUME NEW S, NEW s \in Seq(S), s # << >>, Len(s) # 1,
         NEW t, t = SubSeq(s, 1, Len(s) - 1)
  PROVE  /\ t \in Seq(S) /\ t # << >> /\ DOMAIN t = 1 .. Len(s) - 1
         /\ \A k \in 1 .. Len(s) - 1 : t[k] = s[k]
<1>0. PICK n \in Nat : n = Len(s)
  OBVIOUS
<1>1. n = Len(s) /\ n - 1 \in Nat /\ n - 1 # 0
  <2>1. n # 0
    BY <1>0
  <2> QED BY <1>0, <2>1
<1>2. t \in Seq(S) /\ Len(t) = n - 1 /\ \A k \in 1 .. n - 1 : t[k] = s[k]
  BY <1>1
<1>3. DOMAIN t = 1 .. Len(t)
  BY <1>2, Elements
<1>4. t # << >>
  BY <1>1, <1>2
<1> QED BY <1>1, <1>2, <1>3, <1>4

(* The new entry is of a child of the innermost directory. *)
LEMMA EntryListed ==
  ASSUME IInv, base = Root, phase = "scan", UNCHANGED source,
         NEW id \in From!Ids, id = Top.child, files[id].valid,
         list' = Append(list, NewFile(id))
  PROVE  /\ ~Listed(id)
         /\ ListSound'
         /\ \A j : Listed(j)' <=> Listed(j) \/ j = id
         /\ Len(list) \in Nat /\ DOMAIN list = 1 .. Len(list)
         /\ DOMAIN list' = 1 .. Len(list) + 1
         /\ list'[Len(list) + 1] = NewFile(id)
         /\ \A k \in DOMAIN list : list'[k] = list[k]
<1>1. PICK n \in Nat, d \in From!Ids :
           /\ n = Len(stack)
           /\ Top \in [child : From!Ids \cup {0}, index : Nat]
           /\ Top.index \in DOMAIN list /\ list[Top.index].vfs = d /\ list[Top.index].dir
           /\ CallSound(Top) /\ ListSound
           /\ files[d].directory /\ Visible(files[d].path)
  BY TopFacts
<1>2. id \in Children(d) /\ id # 0
  BY <1>1, TreeFacts DEF CallSound, IInv
<1>3. /\ files[id].parent = d /\ id # 1 /\ id \in Nat
  BY <1>2, <1>1, TreeFacts DEF Children, IInv
<1>4. ~Listed(id)
  BY <1>1, <1>2, <1>3 DEF CallSound
<1>5. Visible(files[id].path)
  BY <1>1, <1>3, VisibleBelow DEF IInv
<1> DEFINE E == [vfs : From!Ids, parent : Nat, dir : BOOLEAN]
<1>6. list \in Seq(E)
  BY <1>1 DEF ListSound
<1>7. PICK e \in E : e = NewFile(id) /\ e.vfs = id /\ e.parent = Top.index
                    /\ e.dir = files[id].directory
  BY <1>1, TreeFacts DEF NewFile, IInv
<1>8. PICK m \in Nat : m = Len(list) /\ DOMAIN list = 1 .. m
  BY <1>6, Elements
<1>9. /\ list' \in Seq(E) /\ list' # << >>
      /\ DOMAIN list' = 1 .. m + 1 /\ list'[m + 1] = e
      /\ \A k \in 1 .. m : list'[k] = list[k]
  <2> HIDE DEF E
  <2> QED BY <1>6, <1>7, <1>8, Appending
<1>10. \A j : Listed(j)' <=> Listed(j) \/ j = id
  BY <1>7, <1>8, <1>9 DEF Listed
<1>11. From!Ids' = From!Ids /\ files' = files /\ \A p : Visible(p)' <=> Visible(p)
  BY SourceStays
<1>12. ListSound'
  <2>1. list' \in Seq([vfs : From!Ids', parent : Nat, dir : BOOLEAN])
    BY <1>9, <1>11
  <2>2. list'[1].vfs = 1 /\ list'[1].dir /\ 1 \in DOMAIN list'
    <3>1. 1 \in 1 .. m /\ list[1].vfs = 1 /\ list[1].dir
      BY <1>1, <1>6, <1>8 DEF ListSound
    <3> QED BY <3>1, <1>9
  <2>3. \A k \in DOMAIN list' : /\ Visible(files[list'[k].vfs].path)
                                /\ list'[k].dir = files[list'[k].vfs].directory
    BY <1>1, <1>5, <1>7, <1>8, <1>9 DEF ListSound
  <2>4. \A k \in DOMAIN list' \ {1} :
       /\ list'[k].parent \in 1 .. k - 1
       /\ list'[list'[k].parent].dir
       /\ list'[list'[k].parent].vfs = files[list'[k].vfs].parent
    <3>1. ASSUME NEW k \in 1 .. m, k # 1
          PROVE  /\ list'[k].parent \in 1 .. k - 1
                 /\ list'[list'[k].parent].dir
                 /\ list'[list'[k].parent].vfs = files[list'[k].vfs].parent
      <4>1. PICK x \in 1 .. k - 1 : x = list[k].parent
        BY <3>1, <1>1, <1>8 DEF ListSound
      <4>2. list[x].dir /\ list[x].vfs = files[list[k].vfs].parent
        BY <3>1, <4>1, <1>1, <1>8 DEF ListSound
      <4>3. x \in 1 .. m
        BY <4>1, <3>1
      <4>4. list'[k] = list[k] /\ list'[x] = list[x]
        BY <4>3, <1>9
      <4> QED BY <4>1, <4>2, <4>4
    <3>2. /\ e.parent \in 1 .. m + 1 - 1
          /\ list'[e.parent].dir
          /\ list'[e.parent].vfs = files[id].parent
      BY <1>1, <1>3, <1>7, <1>8, <1>9
    <3>3. \A k \in DOMAIN list' \ {1} : k = m + 1 \/ k \in 1 .. m
      BY <1>9
    <3>4. /\ list'[m + 1].parent \in 1 .. m + 1 - 1
          /\ list'[list'[m + 1].parent].dir
          /\ list'[list'[m + 1].parent].vfs = files[list'[m + 1].vfs].parent
      BY <3>2, <1>7, <1>9
    <3> SUFFICES ASSUME NEW k \in DOMAIN list' \ {1}
                 PROVE  /\ list'[k].parent \in 1 .. k - 1
                        /\ list'[list'[k].parent].dir
                        /\ list'[list'[k].parent].vfs = files[list'[k].vfs].parent
      OBVIOUS
    <3>5. CASE k = m + 1
      BY <3>4, <3>5
    <3>6. CASE k \in 1 .. m /\ k # 1
      BY <3>1, <3>6
    <3> QED BY <3>3, <3>5, <3>6
  <2>5. \A i, k \in DOMAIN list' : list'[i].vfs = list'[k].vfs => i = k
    <3>1. \A i, k \in 1 .. m : list'[i].vfs = list'[k].vfs => i = k
      BY <1>1, <1>8, <1>9 DEF ListSound
    <3>2. \A i \in 1 .. m : list'[i].vfs # e.vfs
      BY <1>4, <1>7, <1>8, <1>9 DEF Listed
    <3> QED BY <3>1, <3>2, <1>9
  <2>6. \A k \in DOMAIN list' : Visible(files[list[k].vfs].path)'
    <3>1. ASSUME NEW k \in DOMAIN list' PROVE Visible(files[list[k].vfs].path)'
      <4>1. PICK p : p = files[list'[k].vfs].path
        OBVIOUS
      <4>2. Visible(p)'
        BY <4>1, <3>1, <2>3, <1>11
      <4> QED BY <4>1, <4>2, <1>11 DEF Visible
    <3> QED BY <3>1
  <2>7. \A k \in DOMAIN list' : list'[k].dir = files'[list'[k].vfs].directory
    BY <2>3, <1>11
  <2>8. \A k \in DOMAIN list' \ {1} :
       /\ list'[k].parent \in 1 .. k - 1
       /\ list'[list'[k].parent].dir
       /\ list'[list'[k].parent].vfs = files'[list'[k].vfs].parent
    BY <2>4, <1>11
  <2>9. list' # << >>
    BY <1>9
  <2> QED BY <2>1, <2>2, <2>5, <2>6, <2>7, <2>8, <2>9 DEF ListSound
<1> QED BY <1>4, <1>7, <1>8, <1>9, <1>10, <1>12



(* The innermost call goes on behind the child it gave an entry, the other  *)
(* calls are of other directories, and a new call has everything to do.     *)
LEMMA CallsAfterVisit ==
  ASSUME IInv, base = Root, VisitChild, NEW id, id = Top.child,
         NEW c, c = From!NextSibling(id), NEW f, f = From!FirstChild(id),
         NEW i, i = Top.index, NEW l, l = Len(list) + 1
  PROVE  /\ id \in From!Ids /\ c \in From!Ids \cup {0} /\ f \in From!Ids \cup {0}
         /\ CallSound([child |-> c, index |-> i])'
         /\ \A x \in [child : From!Ids \cup {0}, index : Nat] :
              CallSound(x) /\ x.index # i => CallSound(x)'
         /\ files[id].directory => CallSound([child |-> f, index |-> l])'
<1>1. PICK n \in Nat, d \in From!Ids :
           /\ n = Len(stack)
           /\ Top \in [child : From!Ids \cup {0}, index : Nat]
           /\ Top.index \in DOMAIN list /\ list[Top.index].vfs = d /\ list[Top.index].dir
           /\ CallSound(Top) /\ ListSound
           /\ files[d].directory /\ Visible(files[d].path)
  BY TopFacts DEF VisitChild
<1>2. id \in From!Ids /\ id \in Children(d) /\ files[id].valid /\ files[id].parent = d /\ id # 1
  BY <1>1, TreeFacts DEF VisitChild, CallSound, IInv, Children
<1>3. c \in From!Ids \cup {0} /\ (c # 0 => c \in Children(d) /\ c < id)
  BY <1>2, ListFacts DEF IInv, Children
<1>4. f \in From!Ids \cup {0} /\ (f # 0 => f \in Children(id))
  BY <1>2, ListFacts DEF IInv, Children
<1>5. list' = Append(list, NewFile(id)) /\ UNCHANGED source
  BY DEF VisitChild
<1>6. /\ ~Listed(id)
      /\ \A j : Listed(j)' <=> Listed(j) \/ j = id
      /\ Len(list) \in Nat /\ DOMAIN list = 1 .. Len(list)
      /\ DOMAIN list' = 1 .. Len(list) + 1
      /\ list'[Len(list) + 1] = NewFile(id)
      /\ \A k \in DOMAIN list : list'[k] = list[k]
  BY <1>2, <1>5, EntryListed DEF VisitChild
<1>7. /\ files' = files /\ \A x : Children(x)' = Children(x)
  BY <1>5, SourceStays
<1>8. \A j \in From!Ids : j \in Nat /\ j # 0
  BY TreeFacts DEF IInv
<1>9. PICK m \in Nat : m = Len(list)
  BY <1>6
<1> DEFINE Sound(x) == /\ x.index \in DOMAIN list'
                       /\ list'[x.index].dir
                       /\ x.child # 0 => x.child \in Children(list'[x.index].vfs)
                       /\ \A j \in Children(list'[x.index].vfs) :
                            IF j > x.child THEN files[j].valid => Listed(j) \/ j = id
                                           ELSE ~(Listed(j) \/ j = id)
<1>10. \A x : CallSound(x)' <=> Sound(x)
  BY <1>6, <1>7 DEF CallSound
<1>11. Sound([child |-> c, index |-> Top.index])
  <2>1. ASSUME NEW j \in Children(d)
        PROVE  IF j > c THEN files[j].valid => Listed(j) \/ j = id ELSE ~(Listed(j) \/ j = id)
    <3>1. j \in Nat /\ id \in Nat /\ c \in Nat /\ c < id
      BY <1>2, <1>3, <1>8 DEF Children
    <3>2. IF j > id THEN files[j].valid => Listed(j) ELSE ~Listed(j)
      BY <1>1 DEF CallSound
    <3>3. j < id => j <= c
      BY <1>2, NoChildBetween DEF IInv
    <3> QED BY <3>1, <3>2, <3>3
  <2>2. Top.index \in DOMAIN list' /\ list'[Top.index] = list[Top.index]
    BY <1>1, <1>6
  <2> QED BY <1>1, <1>3, <2>1, <2>2
<1>12. ASSUME NEW x \in [child : From!Ids \cup {0}, index : Nat], CallSound(x), x.index # Top.index
       PROVE  Sound(x)
  <2>1. x.index \in DOMAIN list /\ list[x.index].dir
    BY <1>12 DEF CallSound
  <2>2. list'[x.index] = list[x.index] /\ x.index \in DOMAIN list'
    BY <2>1, <1>6
  <2>3. list[x.index].vfs # d
    BY <2>1, <1>1, <1>12 DEF ListSound
  <2>4. id \notin Children(list[x.index].vfs)
    BY <2>3, <1>2 DEF Children
  <2> QED BY <2>1, <2>2, <2>4, <1>12 DEF CallSound
<1>13. ASSUME files[id].directory
       PROVE  Sound([child |-> f, index |-> Len(list) + 1])
  <2>1. list'[m + 1].vfs = id /\ list'[m + 1].dir /\ m + 1 \in DOMAIN list'
    BY <1>6, <1>9, <1>13 DEF NewFile
  <2>2. ASSUME NEW j \in Children(id)
        PROVE  IF j > f THEN files[j].valid => Listed(j) \/ j = id ELSE ~(Listed(j) \/ j = id)
    <3>1. j \in From!Ids /\ files[j].parent = id
      BY DEF Children
    <3>2. j \in Nat /\ f \in Nat /\ j <= f
      BY <3>1, <1>2, <1>4, <1>8, FirstIsGreatest DEF IInv
    <3>3. j # 1 /\ j # id
      BY <3>1, <1>2, <1>8, TreeFacts DEF IInv
    <3>4. ~Listed(j)
      <4> SUFFICES ASSUME NEW k \in DOMAIN list, list[k].vfs = j PROVE FALSE
        BY DEF Listed
      <4>1. k # 1
        BY <3>3, <1>1 DEF ListSound
      <4>2. list[k].parent \in 1 .. k - 1 /\ list[list[k].parent].vfs = id
        BY <4>1, <3>1, <1>1 DEF ListSound
      <4>3. list[k].parent \in DOMAIN list
        BY <4>2, <1>6
      <4> QED BY <4>2, <4>3, <1>6 DEF Listed
    <3> QED BY <3>2, <3>3, <3>4
  <2> QED BY <2>1, <2>2, <1>4, <1>9
<1>14. Sound([child |-> c, index |-> i])
  BY <1>11
<1>15. files[id].directory => Sound([child |-> f, index |-> l])
  BY <1>13
<1>16. \A x \in [child : From!Ids \cup {0}, index : Nat] : CallSound(x) /\ x.index # i => Sound(x)
  BY <1>12
<1> HIDE DEF Sound
<1> QED BY <1>2, <1>3, <1>4, <1>10, <1>14, <1>15, <1>16


LEMMA VisitChildInv ==
  ASSUME IInv, base = Root, VisitChild
  PROVE  ListSound' /\ ScanSound'
<1> DEFINE C == [child : From!Ids \cup {0}, index : Nat]
<1>1. PICK n \in Nat, d \in From!Ids :
           /\ n = Len(stack) /\ n \in DOMAIN stack /\ n >= 1 /\ Top = stack[n]
           /\ DOMAIN stack = 1 .. n
           /\ Top \in C
           /\ Top.index \in DOMAIN list
           /\ ScanSound /\ ListSound
  BY TopFacts DEF VisitChild
<1>2. PICK id, c, f, i, l :
           /\ id = Top.child /\ c = From!NextSibling(id) /\ f = From!FirstChild(id)
           /\ i = Top.index /\ l = Len(list) + 1
  OBVIOUS
<1>3. /\ id \in From!Ids /\ c \in From!Ids \cup {0} /\ f \in From!Ids \cup {0}
      /\ CallSound([child |-> c, index |-> i])'
      /\ \A x \in C : CallSound(x) /\ x.index # i => CallSound(x)'
      /\ files[id].directory => CallSound([child |-> f, index |-> l])'
  BY <1>2, CallsAfterVisit
<1>4. /\ ListSound'
      /\ \A j : Listed(j)' <=> Listed(j) \/ j = id
      /\ Len(list) \in Nat /\ DOMAIN list = 1 .. Len(list)
      /\ DOMAIN list' = 1 .. Len(list) + 1
      /\ list'[Len(list) + 1] = NewFile(id)
      /\ \A k \in DOMAIN list : list'[k] = list[k]
  BY <1>2, <1>3, EntryListed DEF VisitChild
<1>5. /\ From!Ids' = From!Ids /\ files' = files /\ \A x : Children(x)' = Children(x)
  BY SourceStays DEF VisitChild
<1>6. l \in Nat /\ \A k \in DOMAIN list : k # l
  BY <1>2, <1>4
<1> DEFINE call == [child |-> c, index |-> i]
           new == [child |-> f, index |-> l]
           adv == [stack EXCEPT ![n] = call]
<1>7. call \in C /\ call.index = i /\ new \in C /\ new.index = l
  BY <1>1, <1>2, <1>3, <1>6
<1>8. stack \in Seq(C)
  BY <1>1 DEF ScanSound
<1>9. Advanced = adv
  <2>1. [stack[n] EXCEPT !.child = c] = call
    BY <1>1, <1>2
  <2> QED BY <2>1, <1>1, <1>2 DEF Advanced
<1>10. stack' = IF files[id].directory THEN Append(adv, new) ELSE adv
  BY <1>2, <1>9 DEF VisitChild, Descend
<1> HIDE DEF call, new
<1>11. /\ adv \in Seq(C) /\ DOMAIN adv = 1 .. n /\ Len(adv) = n
       /\ adv[n] = call
       /\ \A s \in 1 .. n : s # n => adv[s] = stack[s]
  <2> HIDE DEF C
  <2> QED BY <1>1, <1>7, <1>8
<1> HIDE DEF adv
<1>13. \A s \in 1 .. n : /\ adv[s].index = stack[s].index
                         /\ adv[s] \in C
                         /\ stack[s].index \in DOMAIN list
  <2>1. \A s \in 1 .. n : adv[s] \in C
    <3> HIDE DEF C
    <3> QED BY <1>11, Elements
  <2>2. \A s \in 1 .. n : stack[s].index \in DOMAIN list
    BY <1>1 DEF ScanSound, CallSound
  <2>3. \A s \in 1 .. n : adv[s].index = stack[s].index
    BY <1>1, <1>2, <1>7, <1>11
  <2> QED BY <2>1, <2>2, <2>3
<1>14. ASSUME NEW s \in 1 .. n, NEW x, x = adv[s]
       PROVE  CallSound(x)'
  <2>1. CASE s = n
    <3>1. x = [child |-> c, index |-> i]
      BY <2>1, <1>11, <1>14 DEF call
    <3> QED BY <3>1, <1>3
  <2>2. CASE s # n
    <3>1. x = stack[s] /\ x \in C
      BY <2>2, <1>11, <1>13, <1>14
    <3>2. CallSound(x)
      BY <3>1, <1>1 DEF ScanSound
    <3>3. x.index # i
      BY <3>1, <2>2, <1>1, <1>2 DEF ScanSound
    <3> QED BY <3>1, <3>2, <3>3, <1>3
  <2> QED BY <2>1, <2>2
<1>15. \A s, t \in 1 .. n : adv[s].index = adv[t].index => s = t
  BY <1>1, <1>13 DEF ScanSound
<1>16. /\ stack' \in Seq(C) /\ stack' # << >>
       /\ 1 .. n \subseteq DOMAIN stack'
       /\ \A s \in 1 .. n : stack'[s] = adv[s]
       /\ IF files[id].directory
          THEN DOMAIN stack' = 1 .. n + 1 /\ stack'[n + 1] = new
          ELSE DOMAIN stack' = 1 .. n
  <2>1. CASE files[id].directory
    <3>1. stack' = Append(adv, new)
      BY <2>1, <1>10
    <3> HIDE DEF C
    <3>2. /\ stack' \in Seq(C) /\ stack' # << >>
          /\ DOMAIN stack' = 1 .. n + 1 /\ stack'[n + 1] = new
          /\ \A s \in 1 .. n : stack'[s] = adv[s]
      BY <3>1, <1>7, <1>11, Appending
    <3> QED BY <2>1, <3>2, <1>1
  <2>2. CASE ~files[id].directory
    <3>1. stack' = adv
      BY <2>2, <1>10
    <3> HIDE DEF C
    <3>2. adv # << >>
      BY <1>1, <1>11
    <3> QED BY <3>1, <3>2, <2>2, <1>11
  <2> QED BY <2>1, <2>2
<1>17. ASSUME NEW s \in DOMAIN stack', NEW x, x = stack'[s]
       PROVE  CallSound(x)'
  <2>1. CASE s \in 1 .. n
    BY <2>1, <1>14, <1>16, <1>17
  <2>2. CASE s \notin 1 .. n
    <3>1. files[id].directory /\ s = n + 1
      BY <2>2, <1>1, <1>16
    <3>2. x = [child |-> f, index |-> l]
      BY <3>1, <1>16, <1>17 DEF new
    <3> QED BY <3>1, <3>2, <1>3
  <2> QED BY <2>1, <2>2
<1>18. \A s \in DOMAIN stack' : CallSound(stack[s])'
  <2> SUFFICES ASSUME NEW s \in DOMAIN stack' PROVE CallSound(stack[s])'
    OBVIOUS
  <2>1. PICK x : x = stack'[s]
    OBVIOUS
  <2>2. CallSound(x)'
    BY <2>1, <1>17
  <2> QED BY <2>1, <2>2 DEF CallSound
<1>19. \A s, t \in DOMAIN stack' : stack'[s].index = stack'[t].index => s = t
  <2>1. files[id].directory => \A s \in 1 .. n : stack'[s].index # stack'[n + 1].index
    BY <1>6, <1>7, <1>13, <1>16
  <2>2. \A s \in DOMAIN stack' : s \in 1 .. n \/ (files[id].directory /\ s = n + 1)
    BY <1>1, <1>16
  <2> QED BY <2>1, <2>2, <1>15, <1>16
<1>20. ASSUME NEW k \in DOMAIN list', list'[k].dir
       PROVE  ChildrenListed(k)' \/ \E s \in DOMAIN stack' : stack'[s].index = k
  <2>1. CASE k \in DOMAIN list
    <3>1. list'[k] = list[k]
      BY <2>1, <1>4
    <3>2. ChildrenListed(k) \/ \E s \in 1 .. n : stack[s].index = k
      BY <2>1, <3>1, <1>1, <1>20 DEF ScanSound
    <3>3. ChildrenListed(k) => ChildrenListed(k)'
      BY <3>1, <1>4, <1>5 DEF ChildrenListed
    <3>4. \A s \in 1 .. n : s \in DOMAIN stack' /\ stack'[s].index = stack[s].index
      BY <1>13, <1>16
    <3> QED BY <3>2, <3>3, <3>4
  <2>2. CASE k \notin DOMAIN list
    <3>1. k = l /\ list'[l] = NewFile(id)
      BY <2>2, <1>2, <1>4
    <3>2. files[id].directory
      BY <3>1, <1>20 DEF NewFile
    <3>3. n + 1 \in DOMAIN stack' /\ stack'[n + 1].index = l
      BY <3>2, <1>1, <1>7, <1>16
    <3> QED BY <3>1, <3>3
  <2> QED BY <2>1, <2>2
<1> QED BY <1>4, <1>5, <1>16, <1>18, <1>19, <1>20 DEF ScanSound


(* The list starts with the root, and the first call has all its children. *)
LEMMA GenerateFileListInv ==
  ASSUME IInv, NEW p \in Paths, GenerateFileList(p), base' = Root
  PROVE  ListSound' /\ ScanSound'
<1>1. p = Root /\ UNCHANGED source
  BY DEF GenerateFileList
<1>2. From!Lookup(p) = 1 /\ 1 \in From!Ids /\ files[1].path = Root /\ files[1].parent = 0
  BY <1>1, FromLookup, TreeFacts DEF IInv
<1>3. PICK f : f = From!FirstChild(1)
  OBVIOUS
<1>4. f \in From!Ids \cup {0} /\ (f # 0 => f \in Children(1))
  BY <1>2, <1>3, ListFacts DEF IInv
<1> DEFINE e == [vfs |-> 1, parent |-> 0, dir |-> TRUE]
           call == [child |-> f, index |-> 1]
<1>5. /\ files[1].directory
      /\ list' = <<e>> /\ stack' = <<call>>
  BY <1>2, <1>3 DEF GenerateFileList
<1>6. DOMAIN list' = {1} /\ list'[1] = e /\ DOMAIN stack' = {1} /\ stack'[1] = call
  <2> HIDE DEF e, call
  <2> QED BY <1>5
<1>7. /\ From!Ids' = From!Ids /\ files' = files
      /\ \A d : Children(d)' = Children(d)
      /\ \A q : Visible(q)' <=> Visible(q)
  BY <1>1, SourceStays
<1>8. \A j : Listed(j)' <=> j = 1
  BY <1>6 DEF Listed
<1>9. Visible(files[1].path)
  BY <1>2, VisibleBelow DEF IInv
<1>10. ListSound'
  <2>1. list' \in Seq([vfs : From!Ids', parent : Nat, dir : BOOLEAN]) /\ list' # << >>
    <3>1. e \in [vfs : From!Ids', parent : Nat, dir : BOOLEAN]
      BY <1>2, <1>7
    <3> HIDE DEF e
    <3> QED BY <3>1, <1>5
  <2>2. \A k \in DOMAIN list' : Visible(files[list[k].vfs].path)'
    <3> SUFFICES ASSUME NEW k \in DOMAIN list' PROVE Visible(files[list[k].vfs].path)'
      OBVIOUS
    <3>1. PICK q : q = files[1].path
      OBVIOUS
    <3>2. Visible(q)'
      BY <3>1, <1>7, <1>9
    <3>3. (files[list[k].vfs].path)' = q
      BY <3>1, <1>6, <1>7
    <3> QED BY <3>2, <3>3 DEF Visible
  <2>3. \A k \in DOMAIN list' : k = 1 /\ list'[k].vfs = 1 /\ list'[k].dir = TRUE
    BY <1>6
  <2>4. files'[1].directory = TRUE
    BY <1>2, <1>5, <1>7, TreeFacts DEF IInv
  <2>5. \A k \in DOMAIN list' : list'[k].dir = files'[list'[k].vfs].directory
    BY <2>3, <2>4
  <2>6. list'[1].vfs = 1 /\ list'[1].dir /\ 1 \in DOMAIN list'
    BY <1>6
  <2> QED BY <2>1, <2>2, <2>3, <2>5, <2>6 DEF ListSound
<1>11. ASSUME NEW j \in Children(1)
       PROVE  IF j > f THEN files[j].valid => j = 1 ELSE j # 1
  <2>1. j \in Nat /\ f \in Nat /\ j <= f
    BY <1>2, <1>3, <1>4, FirstIsGreatest, TreeFacts DEF IInv, Children
  <2>2. j # 1
    BY <1>2 DEF Children
  <2> QED BY <2>1, <2>2
<1>12. \A s \in DOMAIN stack' : CallSound(stack[s])'
  BY <1>4, <1>6, <1>7, <1>8, <1>11 DEF CallSound
<1>13. stack' \in Seq([child : From!Ids' \cup {0}, index : Nat]) /\ stack' # << >>
  <2>1. call \in [child : From!Ids' \cup {0}, index : Nat]
    BY <1>4, <1>7
  <2> HIDE DEF call
  <2> QED BY <2>1, <1>5
<1>14. \A k \in DOMAIN list' : \E s \in DOMAIN stack' : stack'[s].index = k
  BY <1>6
<1>15. ScanSound'
  BY <1>6, <1>12, <1>13, <1>14 DEF ScanSound
<1> QED BY <1>10, <1>15

(* The innermost directory is done, and with the first call the list is.   *)
LEMMA ReturnFromScanInv ==
  ASSUME IInv, base = Root, ReturnFromScan
  PROVE  /\ Len(stack) # 1 => ScanSound'
         /\ Len(stack) = 1 => ListComplete'
<1> DEFINE C == [child : From!Ids \cup {0}, index : Nat]
<1>1. PICK n \in Nat, d \in From!Ids :
           /\ n = Len(stack) /\ n \in DOMAIN stack /\ n >= 1 /\ Top = stack[n]
           /\ DOMAIN stack = 1 .. n
           /\ Top.index \in DOMAIN list /\ list[Top.index].vfs = d
           /\ CallSound(Top) /\ ScanSound
  BY TopFacts DEF ReturnFromScan
<1>2. ChildrenListed(Top.index)
  <2>1. \A j \in Children(d) : j \in Nat /\ j > 0
    BY TreeFacts DEF IInv, Children
  <2> QED BY <2>1, <1>1 DEF ReturnFromScan, CallSound, ChildrenListed
<1>3. /\ \A k \in DOMAIN list : ChildrenListed(k)' <=> ChildrenListed(k)
      /\ \A c : CallSound(c)' <=> CallSound(c)
      /\ From!Ids' = From!Ids /\ list' = list
  BY ListStays, SourceStays DEF ReturnFromScan
<1>4. \A k \in DOMAIN list : list[k].dir =>
        ChildrenListed(k) \/ \E s \in 1 .. n - 1 : stack[s].index = k
  <2>1. \A s \in 1 .. n : s = n \/ s \in 1 .. n - 1
    BY <1>1
  <2> QED BY <2>1, <1>1, <1>2 DEF ScanSound
<1>5. Len(stack) = 1 => ListComplete'
  <2>1. n = 1 => 1 .. n - 1 = {}
    OBVIOUS
  <2> QED BY <2>1, <1>1, <1>3, <1>4 DEF ListComplete
<1>6. ASSUME n # 1 PROVE ScanSound'
  <2>1. stack \in Seq(C)
    BY <1>1 DEF ScanSound
  <2>2. stack' = SubSeq(stack, 1, n - 1)
    BY <1>1 DEF ReturnFromScan
  <2>3. /\ stack' \in Seq(C) /\ stack' # << >> /\ DOMAIN stack' = 1 .. n - 1
        /\ \A s \in 1 .. n - 1 : stack'[s] = stack[s]
    <3> HIDE DEF C
    <3>2. PICK t : t = stack'
      OBVIOUS
    <3>3. t = SubSeq(stack, 1, Len(stack) - 1) /\ n = Len(stack)
      BY <3>2, <2>2, <1>1
    <3>4. /\ t \in Seq(C) /\ t # << >> /\ DOMAIN t = 1 .. n - 1
          /\ \A s \in 1 .. n - 1 : t[s] = stack[s]
      <4>1. stack # << >> /\ Len(stack) # 1
        BY <1>1, <1>6 DEF ScanSound
      <4> QED BY <2>1, <3>3, <4>1, Shortening
    <3> QED BY <3>2, <3>4
  <2>7. \A s \in 1 .. n - 1 : s \in DOMAIN stack
    BY <1>1
  <2>4. \A s \in DOMAIN stack' : CallSound(stack[s])'
    <3> SUFFICES ASSUME NEW s \in DOMAIN stack' PROVE CallSound(stack[s])'
      OBVIOUS
    <3>1. PICK x : x = stack[s]
      OBVIOUS
    <3>2. CallSound(x)'
      BY <3>1, <2>3, <1>1, <1>3 DEF ScanSound
    <3>3. (stack[s])' = x
      BY <3>1, <2>3
    <3> QED BY <3>2, <3>3 DEF CallSound
  <2>5. \A s, t \in DOMAIN stack' : stack'[s].index = stack'[t].index => s = t
    <3>1. \A s, t \in DOMAIN stack : stack[s].index = stack[t].index => s = t
      BY <1>1 DEF ScanSound
    <3> HIDE DEF C
    <3> QED BY <3>1, <2>3, <2>7
  <2>6. \A k \in DOMAIN list' : list'[k].dir =>
           ChildrenListed(k)' \/ \E s \in DOMAIN stack' : stack'[s].index = k
    BY <2>3, <1>3, <1>4
  <2> QED BY <2>3, <2>4, <2>5, <2>6, <1>3 DEF ScanSound
<1> QED BY <1>1, <1>5, <1>6


-----------------------------------------------------------------------------
LEMMA SameFile ==
  ASSUME UNCHANGED <<source, list, owner>>, NEW id, Same(id)
  PROVE  /\ \A k : IsEntry(id, k)' <=> IsEntry(id, k)
         /\ OfAnother(id)' <=> OfAnother(id)
<1>1. files' = files /\ list' = list /\ owner' = owner
  BY DEF source
<1>2. \A k : PathOf(k)' = PathOf(k) /\ (IsDir(k)' <=> IsDir(k))
  BY <1>1 DEF PathOf, IsDir
<1>3. \A k : IsEntry(id, k)' <=> IsEntry(id, k)
  BY <1>1, <1>2 DEF IsEntry, Same, IsDir
<1>4. OfAnother(id)' <=> OfAnother(id)
  BY <1>1 DEF OfAnother, Same
<1> QED BY <1>3, <1>4

(* A step that changes one file, of no entry so far, or adds it. *)
LEMMA RegisteredAfter ==
  ASSUME Registered, ToP!IInv', ~copyAborted', UNCHANGED <<source, list, owner>>,
         NEW new, new # 1, To!Ids' = To!Ids \cup {new},
         \A id \in To!Ids : id # new => Same(id),
         new \in To!Ids => ~OfAnEntry(new) /\ copy'[new].path = copy[new].path,
         OfAnEntry(new)' \/ OfAnother(new)',
         at' \in at .. Len(list) + 1,
         \A k \in 2 .. at' - 1 : k \in 2 .. at - 1 \/ IsEntry(new, k)'
  PROVE  Registered' /\ \A p : Has(p) => Has(p)'
<1>1. Files' = Files \cup {new} /\ 1 \in To!Ids
  BY CopyFacts DEF Files, Registered
<1>2. at \in Nat /\ at' \in Nat /\ at' >= at /\ at' \in 1 .. Len(list') + 1 /\ at >= 1
  BY DEF Registered
<1>3. \A k \in 2 .. at - 1 : k \in 2 .. at' - 1
  BY <1>2
<1>4. ASSUME NEW id \in Files, id # new
      PROVE  OfAnEntry(id)' \/ OfAnother(id)'
  <2>1. /\ \A k : IsEntry(id, k)' <=> IsEntry(id, k)
        /\ OfAnother(id)' <=> OfAnother(id)
    BY <1>4, SameFile DEF Files
  <2> QED BY <1>3, <2>1 DEF OfAnEntry, Registered
<1>5. \A id \in Files' : OfAnEntry(id)' \/ OfAnother(id)'
  BY <1>1, <1>4
<1>6. ASSUME NEW k \in 2 .. at - 1 PROVE HasEntry(k)'
  <2>1. PICK id \in Files : IsEntry(id, k)
    BY DEF Registered, HasEntry
  <2>2. id # new
    BY <2>1 DEF OfAnEntry, Files
  <2>3. IsEntry(id, k)'
    BY <2>1, <2>2, SameFile DEF Files
  <2> QED BY <1>1, <2>3 DEF HasEntry
<1>7. ASSUME NEW k, IsEntry(new, k)' PROVE HasEntry(k)'
  BY <1>1, <1>7 DEF HasEntry
<1>8. ASSUME NEW p, Has(p) PROVE Has(p)'
  <2>1. PICK id \in Files : copy[id].path = p
    BY <1>8 DEF Has
  <2>2. copy'[id].path = p
    BY <2>1 DEF Same, Files
  <2> QED BY <1>1, <2>1, <2>2 DEF Has
<1>9. owner' = 2 => Has(Log)'
  BY <1>8 DEF Registered
<1>10. copy'[1].valid /\ copy'[1].directory
  BY <1>1 DEF Registered, Same
<1>11. \A k \in 2 .. at' - 1 : HasEntry(k)'
  BY <1>6, <1>7
<1> QED BY <1>2, <1>5, <1>8, <1>9, <1>10, <1>11 DEF Registered

(* A file that another container makes, when nothing is registered.        *)
LEMMA OtherAdded ==
  ASSUME Registered, UNCHANGED <<source, list, owner, at>>, owner = 2,
         NEW p \in Added, NEW dir \in BOOLEAN, NEW n \in 0 .. MaxFiles + 1,
         p = Meta <=> dir, p # Log, To!AddNew(p, dir, 3, n)
  PROVE  /\ Registered' /\ \A q : Has(q) => Has(q)'
         /\ Has(p)' /\ ~Has(p) /\ (MetaIsFile' => MetaIsFile)
<1>1. p \in (Paths \cup Added) \ {Root} /\ ToP!IInv
  BY AddedFacts DEF Registered
<1>2. PICK new :
         /\ ToP!IInv' /\ new = copied
         /\ To!Ids' = To!Ids \cup {new} /\ new \notin To!Ids /\ new # 1
         /\ copy'[new].path = p /\ copy'[new].valid = TRUE /\ copy'[new].directory = dir
         /\ copy'[new].cid = 3 /\ copy'[new].cfid = n
         /\ \A id \in To!Ids : Same(id)
         /\ copyAborted' = copyAborted
         /\ \A id \in To!Ids : copy[id].path # p
  <2>1. AddedFile(p, dir, 3, n)
    <3>1. 3 \in 1 .. 3
      OBVIOUS
    <3> QED BY <3>1, <1>1, FileAdded
  <2> QED BY <2>1 DEF AddedFile
<1>3. OfAnother(new)'
  BY <1>2 DEF OfAnother, Added
<1>4. at' \in at .. Len(list) + 1 /\ at' = at /\ ~copyAborted'
  BY <1>2 DEF Registered
<1>5. Registered' /\ \A q : Has(q) => Has(q)'
  BY <1>2, <1>3, <1>4, RegisteredAfter
<1>6. Files' = Files \cup {new}
  BY <1>2 DEF Files
<1>7. Has(p)' /\ ~Has(p)
  BY <1>2, <1>6 DEF Has, Files
<1>8. ASSUME MetaIsFile' PROVE MetaIsFile
  <2>1. PICK id \in Files' : copy'[id].path = Meta /\ ~copy'[id].directory
    BY <1>8 DEF MetaIsFile
  <2>2. id # new
    BY <2>1, <1>2
  <2>3. id \in Files /\ copy[id].path = Meta /\ ~copy[id].directory
    BY <2>1, <2>2, <1>2, <1>6 DEF Files, Same
  <2> QED BY <2>3 DEF MetaIsFile
<1> QED BY <1>5, <1>7, <1>8

(* Entries are of files with different paths, none of them the root's, in  *)
(* the directory that an entry before has.                                 *)
LEMMA EntryFacts ==
  ASSUME FromP!IInv, ListSound
  PROVE  /\ Len(list) \in Nat /\ DOMAIN list = 1 .. Len(list)
         /\ PathOf(1) = Root
         /\ \A k \in DOMAIN list : /\ list[k].vfs \in From!Ids /\ list[k].dir \in BOOLEAN
                                   /\ PathOf(k) \in Paths /\ Visible(PathOf(k))
                                   /\ From!Lookup(PathOf(k)) = list[k].vfs
                                   /\ list[k].dir = files[list[k].vfs].directory
         /\ \A i, k \in DOMAIN list : PathOf(i) = PathOf(k) => i = k
         /\ \A k \in DOMAIN list \ {1} :
              /\ PathOf(k) # Root
              /\ list[k].parent \in 1 .. k - 1 /\ list[k].parent \in DOMAIN list
              /\ list[list[k].parent].dir
              /\ PathOf(list[k].parent) = To!Parent(PathOf(k))
<1>1. list \in Seq([vfs : From!Ids, parent : Nat, dir : BOOLEAN]) /\ 1 \in DOMAIN list
  BY DEF ListSound
<1>2. PICK n \in Nat : n = Len(list) /\ DOMAIN list = 1 .. n
  BY <1>1, Elements
<1>3. \A k \in DOMAIN list : list[k] \in [vfs : From!Ids, parent : Nat, dir : BOOLEAN]
  BY <1>1, Elements
<1>4. \A k \in DOMAIN list : /\ list[k].vfs \in From!Ids /\ list[k].dir \in BOOLEAN
                             /\ PathOf(k) \in Paths
  BY <1>3, TreeFacts DEF PathOf
<1>5. \A k \in DOMAIN list : /\ Visible(PathOf(k)) /\ From!Lookup(PathOf(k)) = list[k].vfs
                             /\ list[k].dir = files[list[k].vfs].directory
  <2>1. \A k \in DOMAIN list : From!Lookup(PathOf(k)) = list[k].vfs
    BY <1>4, FromLookup DEF PathOf
  <2> QED BY <2>1 DEF ListSound, PathOf
<1>6. PathOf(1) = Root
  <2>1. list[1].vfs = 1
    BY DEF ListSound
  <2>2. files[1].path = Root
    BY TreeFacts
  <2> QED BY <2>1, <2>2 DEF PathOf
<1>7. ASSUME NEW i \in DOMAIN list, NEW k \in DOMAIN list, PathOf(i) = PathOf(k)
      PROVE  i = k
  <2>1. list[i].vfs = list[k].vfs
    BY <1>5, <1>7
  <2> QED BY <2>1 DEF ListSound
<1>8. ASSUME NEW k \in DOMAIN list \ {1}
      PROVE  /\ PathOf(k) # Root
             /\ list[k].parent \in 1 .. k - 1 /\ list[k].parent \in DOMAIN list
             /\ list[list[k].parent].dir
             /\ PathOf(list[k].parent) = To!Parent(PathOf(k))
  <2>1. PathOf(k) # Root
    BY <1>1, <1>6, <1>7
  <2>2. /\ list[k].parent \in 1 .. k - 1 /\ list[list[k].parent].dir
        /\ list[list[k].parent].vfs = files[list[k].vfs].parent
    BY DEF ListSound
  <2>3. list[k].parent \in DOMAIN list
    <3>1. k \in 1 .. n /\ 1 .. k - 1 \subseteq 1 .. n
      BY <1>2
    <3> QED BY <1>2, <2>2, <3>1
  <2>4. list[k].vfs # 1
    BY <2>1, TreeFacts DEF PathOf
  <2>5. files[files[list[k].vfs].parent].path = From!Parent(PathOf(k))
    BY <2>4, <1>4, TreeFacts DEF PathOf
  <2> QED BY <2>1, <2>2, <2>3, <2>5 DEF PathOf, To!Parent, From!Parent
<1> QED BY <1>2, <1>4, <1>5, <1>6, <1>7, <1>8

(* The list has an entry for a file at most once, so it is no longer than  *)
(* the table.                                                              *)
LEMMA ListFits ==
  ASSUME IInv, ListSound
  PROVE  Len(list) <= MaxFiles
<1>1. PICK n \in Nat : n = Len(list) /\ DOMAIN list = 1 .. n
  BY Elements DEF ListSound
<1>2. MaxFiles \in Nat
  BY ExporterAssumption
<1>3. \A k \in 1 .. n : list[k].vfs \in 1 .. MaxFiles
  <2>1. list \in Seq([vfs : From!Ids, parent : Nat, dir : BOOLEAN])
    BY DEF ListSound
  <2>2. \A k \in 1 .. n : list[k] \in [vfs : From!Ids, parent : Nat, dir : BOOLEAN]
    BY <2>1, <1>1, Elements
  <2>3. From!Ids \subseteq 1 .. MaxFiles
    BY TreeFacts DEF IInv, From!FileIDs
  <2> QED BY <2>2, <2>3
<1> DEFINE f == [k \in 1 .. n |-> list[k].vfs]
<1>4. f \in [1 .. n -> 1 .. MaxFiles]
  BY <1>3
<1>5. \A i, k \in 1 .. n : f[i] = f[k] => i = k
  BY <1>1 DEF ListSound
<1>6. /\ IsFiniteSet(1 .. n) /\ Cardinality(1 .. n) = n
      /\ IsFiniteSet(1 .. MaxFiles) /\ Cardinality(1 .. MaxFiles) = MaxFiles
  <2>1. /\ IsFiniteSet(1 .. n) /\ Cardinality(1 .. n) = IF 1 > n THEN 0 ELSE n - 1 + 1
        /\ IsFiniteSet(1 .. MaxFiles)
        /\ Cardinality(1 .. MaxFiles) = IF 1 > MaxFiles THEN 0 ELSE MaxFiles - 1 + 1
    BY <1>2, FS_Interval
  <2> QED BY <2>1, <1>2
<1>7. ~(MaxFiles < n)
  <2> SUFFICES ASSUME MaxFiles < n PROVE FALSE
    OBVIOUS
  <2> HIDE DEF f
  <2>1. \E i, k \in 1 .. n : i # k /\ f[i] = f[k]
    BY <1>4, <1>6, FS_PigeonHole
  <2> QED BY <2>1, <1>5
<1> QED BY <1>1, <1>2, <1>7

(* The parent the next entry names has been registered as the file of its  *)
(* parent's path, and there is room for another file.                      *)
LEMMA ParentRegistered ==
  ASSUME IInv, base = Root, phase = "mount", at \in DOMAIN list
  PROVE  /\ at \in DOMAIN list \ {1} /\ at <= MaxFiles /\ at \in Nat /\ at + 1 <= Len(list) + 1
         /\ PathOf(at) \in Paths \ {Root} /\ list[at].dir \in BOOLEAN
         /\ ParentID(at) \in To!Ids /\ ParentID(at) = To!Lookup(To!Parent(PathOf(at)))
         /\ To!Room
         /\ ~To!ValidDirectory(ParentID(at)) => owner = 2 /\ To!Parent(PathOf(at)) = Log
<1>1. /\ Registered /\ Registering /\ ListSound /\ FromP!IInv
  BY DEF IInv, RootExported, Mounting
<1>2. /\ ToP!IInv /\ at \in 1 .. Len(list) + 1 /\ at >= 2 /\ copied <= at + owner - 1 /\ owner \in {1, 2}
  BY <1>1 DEF Registered, Registering
<1>3. PICK m \in Nat : m = Len(list) /\ DOMAIN list = 1 .. m /\ m <= MaxFiles
  BY <1>1, EntryFacts, ListFits
<1>4. at \in DOMAIN list \ {1} /\ at <= MaxFiles /\ at \in Nat /\ at + 1 <= Len(list) + 1
  BY <1>2, <1>3, ExporterAssumption
<1>5. To!Room
  <2>1. copied \in Nat
    BY <1>2, CopyFacts
  <2> QED BY <2>1, <1>2, <1>4, ExporterAssumption DEF To!Room
<1>6. /\ PathOf(at) \in Paths \ {Root} /\ list[at].dir \in BOOLEAN
      /\ list[at].parent \in 1 .. at - 1 /\ list[at].parent \in DOMAIN list
      /\ list[list[at].parent].dir
      /\ PathOf(list[at].parent) = To!Parent(PathOf(at))
  BY <1>1, <1>4, EntryFacts
<1>7. PICK i \in 1 .. at - 1 : i = list[at].parent /\ i \in Nat /\ i # 0 /\ i < at
  BY <1>4, <1>6
<1>8. ParentID(at) = GlobalIndex(i) /\ PathOf(i) = To!Parent(PathOf(at)) /\ list[i].dir
  BY <1>6, <1>7 DEF ParentID
<1>9. 1 \in To!Ids /\ copy[1].path = Root /\ copy[1].valid /\ copy[1].directory
  BY <1>1, <1>2, CopyFacts DEF Registered
<1>10. CASE i = 1
  <2>1. ParentID(at) = 1 /\ PathOf(i) = Root
    BY <1>1, <1>8, <1>10, EntryFacts DEF GlobalIndex
  <2>2. To!Lookup(Root) = 1
    BY <1>2, <1>9, ToLookup
  <2>3. To!ValidDirectory(1)
    BY <1>9 DEF To!ValidDirectory
  <2> QED BY <1>4, <1>5, <1>6, <1>8, <1>9, <2>1, <2>2, <2>3
<1>11. CASE i # 1
  <2>1. i \in 2 .. at - 1 /\ GlobalIndex(i) = To!Lookup(PathOf(i))
    BY <1>7, <1>11, <1>4 DEF GlobalIndex
  <2>2. PICK id \in Files : IsEntry(id, i)
    BY <2>1, <1>1 DEF Registered, HasEntry
  <2>3. id \in To!Ids /\ copy[id].path = PathOf(i) /\ copy[id].valid /\ copy[id].directory = IsDir(i)
    BY <2>2 DEF IsEntry, Files
  <2>4. To!Lookup(PathOf(i)) = id
    BY <2>3, <1>2, ToLookup
  <2>5. ParentID(at) = id /\ To!Lookup(To!Parent(PathOf(at))) = id
    BY <2>1, <2>4, <1>8
  <2>6. ~To!ValidDirectory(id) => owner = 2 /\ PathOf(i) = Log
    BY <2>3, <1>8 DEF To!ValidDirectory, IsDir
  <2> QED BY <1>4, <1>5, <1>6, <1>8, <2>3, <2>5, <2>6
<1> QED BY <1>10, <1>11

(* A path that has a file already is that of the log. *)
LEMMA OnlyLogIsThere ==
  ASSUME IInv, base = Root, phase = "mount", at \in DOMAIN list, To!Lookup(PathOf(at)) # 0
  PROVE  LET id == To!Lookup(PathOf(at))
         IN  /\ id \in Files /\ ~OfAnEntry(id) /\ copy[id].path = Log /\ PathOf(at) = Log
             /\ owner = 2 /\ copy[id].valid /\ ~copy[id].directory
<1>1. /\ Registered /\ Registering /\ ListSound /\ FromP!IInv
  BY DEF IInv, RootExported, Mounting
<1>2. at \in DOMAIN list \ {1} /\ PathOf(at) # Root /\ at \in Nat /\ at <= Len(list)
  BY <1>1, ParentRegistered, EntryFacts
<1>3. PICK id \in To!Ids : id = To!Lookup(PathOf(at)) /\ copy[id].path = PathOf(at)
  BY <1>1, ToLookup DEF Registered
<1>4. id \in Files
  BY <1>1, <1>2, <1>3, CopyFacts DEF Files, Registered
<1>5. ~OfAnEntry(id)
  <2> SUFFICES ASSUME NEW k \in 2 .. at - 1, IsEntry(id, k) PROVE FALSE
    BY DEF OfAnEntry
  <2>1. k \in DOMAIN list /\ k # at
    BY <1>1, <1>2, EntryFacts
  <2>2. PathOf(k) = PathOf(at)
    BY <1>3 DEF IsEntry
  <2> QED BY <1>1, <1>2, <2>1, <2>2, EntryFacts
<1>6. OfAnother(id) /\ copy[id].cid # 3
  BY <1>1, <1>4, <1>5 DEF Registered, Registering
<1> QED BY <1>3, <1>4, <1>5, <1>6 DEF OfAnother

LEMMA RegisterEntryInv ==
  ASSUME IInv, base = Root, RegisterEntry
  PROVE  Registered' /\ Registering'
<1>1. /\ Registered /\ Registering /\ ListSound /\ FromP!IInv /\ phase = "mount"
      /\ at \in DOMAIN list
  BY DEF IInv, RootExported, RegisterEntry, Mounting
<1>2. PICK p \in Paths \ {Root}, dir \in BOOLEAN, own \in {1, 2}, now \in 2 .. MaxFiles, room \in Nat :
        /\ p = PathOf(at) /\ dir = list[at].dir /\ own = owner /\ now = at /\ now \in DOMAIN list \ {1}
        /\ now + 1 \in 1 .. Len(list) + 1 /\ room = copied /\ room <= now + own - 1
  <2>1. at >= 2 /\ copied <= at + owner - 1 /\ owner \in {1, 2} /\ copied \in Nat
    BY <1>1, CopyFacts DEF Registering, Registered
  <2>2. /\ PathOf(at) \in Paths \ {Root} /\ list[at].dir \in BOOLEAN /\ at \in DOMAIN list \ {1}
        /\ at <= MaxFiles /\ at \in Nat /\ at + 1 <= Len(list) + 1
    BY <1>1, ParentRegistered
  <2>3. at \in 2 .. MaxFiles /\ at + 1 \in 1 .. Len(list) + 1
    BY <2>1, <2>2, <1>1, EntryFacts, ExporterAssumption
  <2> QED BY <2>1, <2>2, <2>3
<1>3. /\ UNCHANGED <<source, list, owner>> /\ at' = now + 1
      /\ Alloc(at) \/ To!RegisterOver(p, dir, own, now)
  BY <1>2 DEF RegisterEntry
<1>4. /\ p \in (Paths \cup Added) \ {Root} /\ own \in 1 .. 3 /\ now \in 0 .. MaxFiles + 1
  BY <1>2, ExporterAssumption
<1>5. /\ ~copyAborted /\ ToP!IInv
  BY <1>1 DEF Registered
<1>6. /\ at' \in at .. Len(list) + 1
      /\ \A k \in 2 .. at' - 1 : k \in 2 .. at - 1 \/ k = now
  BY <1>2, <1>3
<1>7. /\ now \in 2 .. at' - 1 /\ PathOf(now)' = p /\ list'[now].dir = dir /\ owner' = own
      /\ at' >= 2 /\ room + 1 <= at' + own - 1
  <2>1. PathOf(now)' = p
    BY <1>2, <1>3 DEF PathOf, source
  <2> QED BY <1>2, <1>3, <2>1
<1>8. CASE Alloc(at)
  <2>1. To!AddNew(p, dir, own, now)
    <3>1. ParentID(at) = To!Lookup(To!Parent(p))
      BY <1>1, <1>2, ParentRegistered
    <3>2. /\ To!Lookup(p) = 0 /\ To!ValidDirectory(ParentID(at)) /\ To!Room
          /\ copy' = [copy EXCEPT
               ![copied] = To!Made(To!NewFile(p, ParentID(at), own), dir, now),
               ![ParentID(at)].first = copied]
          /\ copied' = copied + 1 /\ UNCHANGED copyAborted
      BY <1>2, <1>8 DEF Alloc, CanAlloc
    <3> QED BY <3>1, <3>2, <1>5 DEF To!AddNew, To!Accepts
  <2>2. PICK new :
         /\ ToP!IInv' /\ copied' = copied + 1
         /\ To!Ids' = To!Ids \cup {new} /\ new \notin To!Ids /\ new # 1
         /\ copy'[new].path = p /\ copy'[new].valid = TRUE /\ copy'[new].directory = dir
         /\ copy'[new].cid = own /\ copy'[new].cfid = now
         /\ \A id \in To!Ids : Same(id)
         /\ copyAborted' = copyAborted
         /\ \A id \in To!Ids : copy[id].path # p
    <3>1. AddedFile(p, dir, own, now)
      BY <1>4, <1>5, <2>1, FileAdded
    <3> QED BY <3>1 DEF AddedFile
  <2>3. own = 2 => p # Log
    BY <1>1, <1>2, <2>2 DEF Registered, Has, Files
  <2>4. IsEntry(new, now)'
    <3>1. dir = IsDir(now)'
      BY <1>7, <2>3 DEF IsDir
    <3> QED BY <1>7, <2>2, <3>1 DEF IsEntry
  <2>5. OfAnEntry(new)'
    BY <2>4, <1>7 DEF OfAnEntry
  <2>6. Registered'
    BY <1>1, <1>3, <1>5, <1>6, <2>2, <2>4, <2>5, RegisteredAfter
  <2>7. Registering'
    <3>1. Files' = Files \cup {new}
      BY <2>2 DEF Files
    <3>2. \A id \in Files' : copy'[id].cid # 3
      BY <3>1, <2>2, <1>1, <1>2 DEF Registering, Same, Files
    <3> QED BY <3>2, <2>2, <1>2, <1>7 DEF Registering
  <2> QED BY <2>6, <2>7
<1>9. CASE To!RegisterOver(p, dir, own, now)
  <2>1. PICK id \in Files : /\ id = To!Lookup(p) /\ ~OfAnEntry(id) /\ copy[id].path = Log /\ p = Log
                            /\ own = 2 /\ copy[id].valid /\ ~copy[id].directory /\ id # 1
    <3>1. To!Lookup(PathOf(at)) # 0
      BY <1>2, <1>9 DEF To!RegisterOver
    <3> QED BY <3>1, <1>1, <1>2, OnlyLogIsThere DEF Files
  <2>2. /\ copy' = [copy EXCEPT ![id].cid = own, ![id].cfid = now, ![id].valid = TRUE,
                                ![id].directory = @ \/ (dir /\ ~copy[id].valid)]
        /\ copied' = copied /\ copyAborted' = copyAborted
    BY <2>1, <1>9 DEF To!RegisterOver, To!ValidDirectory
  <2>3. ToP!IInv'
    <3>1. now \in (1 .. MaxFiles + 1) \cup {0} /\ To!Root = Root
      BY <1>2, ExporterAssumption DEF To!Root, Root, From!Root
    <3>2. To!Next
      BY <3>1, <1>4, <1>9 DEF To!Next
    <3> QED BY <3>2, <1>5, ToStep
  <2>4. id \in To!Ids /\ copy \in [To!FileIDs -> To!File] /\ id \in To!FileIDs /\ To!Ids \subseteq To!FileIDs
    BY <2>1, <1>5, CopyFacts DEF Files
  <2>5. \A x \in To!Ids : x # id => Same(x)
    BY <2>2, <2>4 DEF Same
  <2>6. /\ copy'[id].path = copy[id].path /\ copy'[id].valid = TRUE /\ copy'[id].cid = own
        /\ copy'[id].cfid = now /\ copy'[id].directory = FALSE
    <3>1. copy[id] \in To!File
      BY <2>4
    <3>2. copy'[id] = [copy[id] EXCEPT !.cid = own, !.cfid = now, !.valid = TRUE,
                                       !.directory = @ \/ (dir /\ ~copy[id].valid)]
      BY <2>2, <2>4
    <3> QED BY <3>1, <3>2, <2>1 DEF To!File
  <2>7. To!Ids' = To!Ids \cup {id}
    BY <2>2, <2>4 DEF To!Ids
  <2>8. IsEntry(id, now)'
    <3>1. IsDir(now)' = FALSE
      BY <1>7, <2>1 DEF IsDir
    <3>2. copy'[id].directory = FALSE
      BY <2>6
    <3> QED BY <3>1, <3>2, <1>7, <2>1, <2>6 DEF IsEntry
  <2>9. OfAnEntry(id)'
    BY <2>8, <1>7 DEF OfAnEntry
  <2>10. Registered'
    BY <1>1, <1>3, <1>5, <1>6, <2>1, <2>2, <2>3, <2>5, <2>6, <2>7, <2>8, <2>9, RegisteredAfter
  <2>11. Registering'
    <3>1. Files' = Files
      BY <2>4, <2>7 DEF Files
    <3>2. \A x \in Files' : copy'[x].cid # 3
      BY <3>1, <2>5, <2>6, <1>1, <1>2 DEF Registering, Same, Files
    <3>3. copied' <= at' + owner' - 1
      BY <2>2, <1>2, <1>3, <1>7
    <3> QED BY <3>2, <3>3, <1>7 DEF Registering
  <2> QED BY <2>10, <2>11
<1> QED BY <1>3, <1>8, <1>9

-----------------------------------------------------------------------------
(* No entry of a file has a path that is above the path of another one.    *)
LEMMA AboveIsDirectory ==
  ASSUME FromP!IInv, ListSound, NEW k \in DOMAIN list, NEW p, p = files[list[k].vfs].path,
         NEW q \in Above(p)
  PROVE  q \in Paths \ {Root, p} /\ \A i \in DOMAIN list : ~EntryOf(i, q)
<1>1. list[k].vfs \in From!Ids
  <2>1. list \in Seq([vfs : From!Ids, parent : Nat, dir : BOOLEAN])
    BY DEF ListSound
  <2>2. list[k] \in [vfs : From!Ids, parent : Nat, dir : BOOLEAN]
    BY <2>1, Elements
  <2> QED BY <2>2
<1>2. p \in Paths /\ Visible(p)
  BY <1>1, TreeFacts DEF ListSound
<1>3. PICK n \in 1 .. Len(p) - 1 : q = SubSeq(p, 1, n)
  BY DEF Above
<1>4. p \in Seq(Names) /\ Len(p) \in Nat
  BY <1>2, PathFacts
<1>5. n \in 0 .. Len(p) /\ n < Len(p) /\ n # 0
  BY <1>3, <1>4
<1>6. q \in Paths /\ q # Root /\ Len(q) = n
  BY <1>2, <1>3, <1>5, Prefixes
<1>7. files[From!Lookup(q)].directory
  BY <1>2, <1>3, <1>5 DEF Visible
<1>8. ASSUME NEW i \in DOMAIN list, EntryOf(i, q) PROVE FALSE
  <2>1. list[i].vfs \in From!Ids
    <3>1. list \in Seq([vfs : From!Ids, parent : Nat, dir : BOOLEAN])
      BY DEF ListSound
    <3>2. list[i] \in [vfs : From!Ids, parent : Nat, dir : BOOLEAN]
      BY <3>1, Elements
    <3> QED BY <3>2
  <2>2. files[list[i].vfs].path = q /\ ~list[i].dir
    BY <1>8 DEF EntryOf
  <2>3. From!Lookup(q) = list[i].vfs
    BY <2>1, <2>2, FromLookup
  <2> QED BY <2>2, <2>3, <1>7 DEF ListSound
<1> QED BY <1>4, <1>5, <1>6, <1>8

(* The entry that is written adds its file, and folders above it. *)
LEMMA WriteEntryInv ==
  ASSUME IInv, base = Root, WriteEntry
  PROVE  Written'
<1>1. Written /\ ListSound /\ FromP!IInv
  BY DEF IInv, RootExported, WriteEntry, Writing
<1>2. PICK e, p, now :
        /\ e = list[at] /\ p = files[e.vfs].path /\ now = at
  OBVIOUS
<1>3. PICK m \in Nat : m = Len(list) /\ DOMAIN list = 1 .. m
  BY <1>1, Elements DEF ListSound
<1>4. now \in 1 .. m /\ at' = now + 1
  BY <1>2, <1>3 DEF WriteEntry
<1>5. e.vfs \in From!Ids
  <2>1. list \in Seq([vfs : From!Ids, parent : Nat, dir : BOOLEAN])
    BY <1>1 DEF ListSound
  <2>2. e \in [vfs : From!Ids, parent : Nat, dir : BOOLEAN]
    BY <2>1, <1>2, <1>3, <1>4, Elements
  <2> QED BY <2>2
<1>6. p \in Paths /\ From!Lookup(p) = e.vfs
  BY <1>1, <1>2, <1>5, FromLookup, TreeFacts
<1>7. /\ UNCHANGED source /\ list' = list /\ before' = before
      /\ target' = IF e.dir THEN target
                   ELSE IF p \in Unreadable \/ target[p].kind = "folder" THEN WithFolders(p)
                   ELSE [WithFolders(p) EXCEPT ![p] = FileWith(e.vfs)]
  BY <1>2 DEF WriteEntry
<1>8. /\ \A k, q : EntryOf(k, q)' <=> EntryOf(k, q)
      /\ \A q : From!Lookup(q)' = From!Lookup(q)
  BY <1>7, ListStays, SourceStays
<1>9. at' \in 1 .. Len(list') + 1
  BY <1>3, <1>4, <1>7
<1>10. \A k \in 1 .. at' - 1 : k \in 1 .. now - 1 \/ k = now
  BY <1>4
<1>11. 1 .. now - 1 \subseteq DOMAIN list /\ now \in DOMAIN list /\ now \in 1 .. at' - 1
       /\ 1 .. now - 1 \subseteq 1 .. at' - 1
  BY <1>3, <1>4
<1>12. \A q : EntryOf(now, q) <=> ~e.dir /\ q = p
  BY <1>2 DEF EntryOf
<1>13. \A q \in Above(p) : q \in Paths \ {Root, p} /\ \A i \in DOMAIN list : ~EntryOf(i, q)
  BY <1>1, <1>2, <1>11, AboveIsDirectory
<1>14. \A q \in Paths, k \in DOMAIN list : EntryOf(k, q) =>
         \A x \in Above(q) : \A i \in DOMAIN list : ~EntryOf(i, x)
  BY <1>1, AboveIsDirectory DEF EntryOf
<1> DEFINE Wrote(q, n) == \E k \in 1 .. n - 1 : EntryOf(k, q)
           Below(x, n) == \E q \in Paths : x \in Above(q) /\ Wrote(q, n)
           Holds(x, n) == IF Writable(x) /\ Wrote(x, n) THEN FileWith(From!Lookup(x))
                          ELSE IF Below(x, n) THEN Folder ELSE before[x]
<1>15. \A x \in Paths \ {Root} : target[x] = Holds(x, now)
  BY <1>1, <1>2 DEF Written, Expected
<1>16. ASSUME NEW x PROVE Expected(x)' = Holds(x, at')
  <2>1. /\ Writable(x)' <=> Writable(x)
        /\ FileWith(From!Lookup(x))' = FileWith(From!Lookup(x))
    BY <1>7, <1>8 DEF Writable, FileWith
  <2>2. \A q : Above(q)' = Above(q)
    BY DEF Above
  <2> QED BY <2>1, <2>2, <1>7, <1>8 DEF Expected, Folder
<1>17. \A q : Wrote(q, at') <=> Wrote(q, now) \/ EntryOf(now, q)
  BY <1>10, <1>11
<1> HIDE DEF Wrote
<1>18. CASE e.dir
  <2>1. \A q : Wrote(q, at') <=> Wrote(q, now)
    BY <1>12, <1>17, <1>18
  <2>2. \A x : Holds(x, at') = Holds(x, now)
    BY <2>1
  <2>3. target' = target
    BY <1>7, <1>18
  <2> QED BY <2>2, <2>3, <1>9, <1>15, <1>16 DEF Written
<1>19. CASE ~e.dir
  <2>1. \A q : Wrote(q, at') <=> Wrote(q, now) \/ q = p
    BY <1>12, <1>17, <1>19
  <2>2. \A x : Below(x, at') <=> Below(x, now) \/ x \in Above(p)
    BY <2>1, <1>6
  <2>3. \A q \in Above(p) : q \in Paths /\ q # p /\ ~Wrote(q, at')
    <3>1. \A q \in Above(p) : ~Wrote(q, now)
      BY <1>11, <1>13 DEF Wrote
    <3> QED BY <3>1, <2>1, <1>13
  <2>4. ~Below(p, at')
    <3>1. \A q \in Paths : Wrote(q, now) => p \notin Above(q)
      <4>1. EntryOf(now, p)
        BY <1>12, <1>19
      <4> QED BY <4>1, <1>11, <1>14 DEF Wrote
    <3>2. p \notin Above(p)
      BY <2>3
    <3> QED BY <3>1, <3>2, <2>2
  <2>5. ~Wrote(p, now)
    <3> SUFFICES ASSUME NEW k \in 1 .. now - 1, EntryOf(k, p) PROVE FALSE
      BY DEF Wrote
    <3>1. k \in DOMAIN list /\ k # now
      BY <1>4, <1>11
    <3>2. list[k].vfs \in From!Ids
      <4>1. list \in Seq([vfs : From!Ids, parent : Nat, dir : BOOLEAN])
        BY <1>1 DEF ListSound
      <4>2. list[k] \in [vfs : From!Ids, parent : Nat, dir : BOOLEAN]
        BY <4>1, <3>1, Elements
      <4> QED BY <4>2
    <3>3. files[list[k].vfs].path = p
      BY DEF EntryOf
    <3>4. list[k].vfs = e.vfs
      BY <3>2, <3>3, <1>1, <1>2, <1>5, TreeFacts
    <3> QED BY <3>1, <3>4, <1>1, <1>2, <1>11 DEF ListSound
  <2> HIDE DEF Below
  <2>6. \A x \in Above(p) : Holds(x, at') = Folder
    BY <2>2, <2>3
  <2>7. Holds(p, at') = IF Writable(p) THEN FileWith(e.vfs) ELSE before[p]
    BY <2>1, <2>4, <1>6
  <2>8. Holds(p, now) = before[p]
    BY <2>2, <2>4, <2>5
  <2>9. \A x : x \notin Above(p) /\ x # p => Holds(x, at') = Holds(x, now)
    BY <2>1, <2>2
  <2>10. WithFolders(p) = [q \in Paths |-> IF q \in Above(p) THEN Folder ELSE target[q]]
    BY DEF WithFolders
  <2>11. \A x \in Paths : x \in Above(p) => target'[x] = Folder
    <3>1. \A x \in Above(p) : x # p
      BY <2>3
    <3> QED BY <3>1, <2>10, <1>6, <1>7, <1>19
  <2>12. \A x \in Paths : x \notin Above(p) /\ x # p => target'[x] = target[x]
    BY <2>10, <1>6, <1>7, <1>19
  <2>13. p # Root => target'[p] = Holds(p, at')
    <3> SUFFICES ASSUME p # Root PROVE target'[p] = Holds(p, at')
      OBVIOUS
    <3>1. target[p] = before[p]
      BY <2>8, <1>6, <1>15
    <3>2. p \notin Above(p)
      BY <2>3
    <3>3. CASE Writable(p)
      <4>1. target' = [WithFolders(p) EXCEPT ![p] = FileWith(e.vfs)]
        BY <3>1, <3>3, <1>7, <1>19 DEF Writable
      <4>2. target'[p] = FileWith(e.vfs)
        BY <4>1, <2>10, <1>6
      <4> QED BY <4>2, <3>3, <2>7
    <3>4. CASE ~Writable(p)
      <4>1. target' = WithFolders(p)
        BY <3>1, <3>4, <1>7, <1>19 DEF Writable
      <4>2. target'[p] = target[p]
        BY <4>1, <3>2, <2>10, <1>6
      <4> QED BY <4>2, <3>1, <3>4, <2>7
    <3> QED BY <3>3, <3>4
  <2>14. \A x \in Paths \ {Root} : target'[x] = Holds(x, at')
    <3> HIDE DEF Holds
    <3> QED BY <2>6, <2>9, <2>11, <2>12, <2>13, <1>15
  <2> QED BY <2>14, <1>9, <1>16 DEF Written
<1> QED BY <1>18, <1>19


-----------------------------------------------------------------------------
LEMMA TargetUntouched ==
  ASSUME UNCHANGED mounted
  PROVE  To!Init => To!Init'
BY DEF mounted, To!Init

LEMMA AllRegisteredStays ==
  ASSUME IInv, UNCHANGED <<source, list, at>>
  PROVE  (BelowLog' <=> BelowLog) /\ (AllRegistered' <=> AllRegistered)
<1>1. at' = at /\ list' = list /\ \A p : Visible(p)' <=> Visible(p)
  BY SourceStays
<1>2. Archived' = Archived
  BY <1>1 DEF Archived
<1>3. BelowLog' <=> BelowLog
  BY <1>2 DEF BelowLog, Above
<1> QED BY <1>1, <1>3 DEF AllRegistered

LEMMA RegisteredStays ==
  ASSUME IInv, UNCHANGED <<source, mounted, list, at>>
  PROVE  /\ Registered => Registered'
         /\ Files' = Files /\ To!Ids' = To!Ids
         /\ \A p : Has(p)' <=> Has(p)
         /\ MetaIsFile' <=> MetaIsFile
         /\ \A id : copy'[id].cid = copy[id].cid /\ ContentOf(id)' = ContentOf(id)
<1>1. /\ copy' = copy /\ copied' = copied /\ copyAborted' = copyAborted /\ owner' = owner
      /\ list' = list /\ at' = at
  BY DEF mounted
<1>2. To!Ids' = To!Ids /\ Files' = Files
  BY <1>1 DEF To!Ids, Files
<1>3. \A p : Has(p)' <=> Has(p)
  BY <1>1, <1>2 DEF Has
<1>4. MetaIsFile' <=> MetaIsFile
  BY <1>1, <1>2 DEF MetaIsFile
<1>5. \A id : copy'[id].cid = copy[id].cid /\ ContentOf(id)' = ContentOf(id)
  BY <1>1 DEF ContentOf
<1>6. \A id : Same(id)
  BY <1>1 DEF Same
<1>7. \A id : (\A k : IsEntry(id, k)' <=> IsEntry(id, k)) /\ (OfAnother(id)' <=> OfAnother(id))
  BY <1>1, <1>6, SameFile
<1>8. /\ \A k : HasEntry(k)' <=> HasEntry(k)
      /\ \A id : OfAnEntry(id)' <=> OfAnEntry(id)
  BY <1>1, <1>2, <1>7 DEF HasEntry, OfAnEntry
<1>9. ToP!IInv => ToP!IInv'
  <2>1. UNCHANGED To!vars
    BY <1>1 DEF To!vars
  <2> QED BY <2>1, ToStep
<1>10. Registered => Registered'
  BY <1>1, <1>2, <1>3, <1>7, <1>8, <1>9 DEF Registered
<1> QED BY <1>2, <1>3, <1>4, <1>5, <1>10

LEMMA WrittenStays ==
  ASSUME IInv, UNCHANGED <<source, list, target, before, at>>
  PROVE  Written => Written'
<1> SUFFICES ASSUME Written PROVE Written'
  OBVIOUS
<1>1. \A k, p : EntryOf(k, p)' <=> EntryOf(k, p)
  BY ListStays
<1>2. \A p : From!Lookup(p)' = From!Lookup(p)
  BY SourceStays
<1>3. \A q : Above(q)' = Above(q)
  BY DEF Above
<1>4. \A p : Expected(p)' = Expected(p)
  <2>1. \A p : Writable(p)' <=> Writable(p)
    BY DEF Writable
  <2>2. \A p : FileWith(From!Lookup(p))' = FileWith(From!Lookup(p))
    BY <1>2 DEF FileWith
  <2> QED BY <2>1, <2>2, <1>1, <1>3 DEF Expected, Folder
<1> QED BY <1>4 DEF Written

(* The file table is there before the export, and stays as it was.         *)
LEMMA TableStep == IInv /\ [ExtractionNext]_allVars => FromP!IInv'
<1> SUFFICES ASSUME IInv, [ExtractionNext]_allVars PROVE FromP!IInv'
  OBVIOUS
<1>1. CASE Work
  BY <1>1, FromStep DEF Work, IInv
<1>2. CASE UNCHANGED source
  BY <1>2, SourceStays
<1>3. ExporterStep => Work \/ UNCHANGED source
  BY DEF ExporterStep, Next, Step, GenerateFileList, SkipInvalid, VisitChild, VisitAsserts,
     ReturnFromScan, Mount, RegisterEntry, RegisterFails, MountSucceeds
<1>4. ExporterStep \/ UNCHANGED source
  BY DEF ExtractionNext, BeginFolder, WriteEntry, WriteThrows, WriteEnds,
     OpenArchive, OpenSteps, ForceDirectory, AddFile, AddFileRefused, AddFileCrashes, OpenEnds,
     ReadHeader, ProcessFile, allVars, vars
<1> QED BY <1>1, <1>2, <1>3, <1>4

LEMMA ScanStepInv ==
  ASSUME IInv, base' = Root, UNCHANGED extractionVars,
         \/ \E p \in Paths : GenerateFileList(p)
         \/ SkipInvalid \/ VisitChild \/ VisitAsserts \/ ReturnFromScan
  PROVE  RootExported'
<1>1. UNCHANGED mounted /\ metas' = metas /\ extracted' = extracted
  BY DEF GenerateFileList, SkipInvalid, VisitChild, VisitAsserts, ReturnFromScan, extractionVars
<1>2. /\ phase \in {"idle", "scan"} /\ base = Root /\ RootExported
  BY DEF GenerateFileList, SkipInvalid, VisitChild, VisitAsserts, ReturnFromScan, IInv
<1>3. To!Init' /\ metas' = 0 /\ extracted'.id = 0
  BY <1>1, <1>2, TargetUntouched DEF RootExported, Opening
<1>4. CASE \E p \in Paths : GenerateFileList(p)
  <2>1. PICK p \in Paths : GenerateFileList(p)
    BY <1>4
  <2>2. phase' = "scan"
    BY <2>1 DEF GenerateFileList
  <2>3. ListSound' /\ ScanSound'
    BY <2>1, GenerateFileListInv
  <2> QED BY <1>3, <2>2, <2>3 DEF RootExported, Mounting, Writing, Opening
<1>5. CASE SkipInvalid
  <2>1. phase = "scan" /\ phase' = "scan" /\ UNCHANGED <<source, list>>
    BY <1>5 DEF SkipInvalid
  <2>2. ListSound' /\ ScanSound'
    BY <1>2, <1>5, <2>1, SkipInvalidInv, ListStays DEF RootExported
  <2> QED BY <1>3, <2>1, <2>2 DEF RootExported, Mounting, Writing, Opening
<1>6. CASE VisitChild
  <2>1. phase' = "scan"
    BY <1>6 DEF VisitChild
  <2>2. ListSound' /\ ScanSound'
    BY <1>2, <1>6, VisitChildInv
  <2> QED BY <1>3, <2>1, <2>2 DEF RootExported, Mounting, Writing, Opening
<1>7. CASE VisitAsserts
  BY <1>2, <1>7 DEF VisitAsserts
<1>8. CASE ReturnFromScan
  <2>1. phase = "scan" /\ UNCHANGED <<source, list>>
    BY <1>8 DEF ReturnFromScan
  <2>2. ListSound'
    BY <1>2, <2>1, ListStays DEF RootExported
  <2>3. CASE Len(stack) # 1
    <3>1. ScanSound' /\ phase' = "scan"
      BY <1>2, <1>8, <2>1, <2>3, ReturnFromScanInv DEF ReturnFromScan
    <3> QED BY <1>3, <3>1, <2>2 DEF RootExported, Mounting, Writing, Opening
  <2>4. CASE Len(stack) = 1
    <3>1. ListComplete' /\ phase' = "exported"
      BY <1>2, <1>8, <2>1, <2>4, ReturnFromScanInv DEF ReturnFromScan
    <3> QED BY <1>3, <3>1, <2>2 DEF RootExported, Mounting, Writing, Opening
  <2> QED BY <2>3, <2>4
<1> QED BY <1>4, <1>5, <1>6, <1>7, <1>8

(* The mount begins in a table with the root, and perhaps the log's file.  *)
LEMMA MountBegins ==
  ASSUME IInv, base = Root, Mount \/ OpenArchive, at' \in {1, 2}
  PROVE  /\ ListSound' /\ ListComplete' /\ Registered'
         /\ at' = 1 => AllRegistered'
         /\ at' = 2 => Registering'
         /\ \A id \in Files' : copy'[id].cid # 3
<1>1. /\ To!Init /\ ListSound /\ ListSound' /\ ListComplete' /\ list' = list
  <2>1. phase = "exported" /\ UNCHANGED <<source, list>>
    BY DEF Mount, OpenArchive
  <2>2. To!Init /\ ListSound /\ ListComplete
    BY <2>1 DEF IInv, RootExported
  <2> QED BY <2>1, <2>2, ListStays
<1>2. ToP!IInv /\ copied = 2 /\ copyAborted = FALSE /\ To!Ids = {1} /\ copy[1].valid /\ copy[1].directory
  <2>1. 1 \in To!FileIDs
    BY ExporterAssumption DEF To!FileIDs
  <2>2. copied = 2 /\ copyAborted = FALSE /\ To!Ids = {1}
    BY <1>1 DEF To!Init, To!Ids
  <2>3. copy[1].valid /\ copy[1].directory
    BY <1>1, <2>1 DEF To!Init, To!Blank
  <2> QED BY <1>1, <2>2, <2>3, ToStart
<1>4. at' \in 1 .. Len(list') + 1 /\ 2 .. at' - 1 = {}
  <2>1. Len(list) \in Nat /\ DOMAIN list = 1 .. Len(list) /\ 1 \in DOMAIN list
    BY <1>1, EntryFacts DEF IInv, ListSound
  <2>2. PICK l \in Nat : l = Len(list) /\ 1 \in 1 .. l
    BY <2>1
  <2>3. Len(list') = l
    BY <1>1, <2>2
  <2>4. CASE at' = 1
    <3>1. 2 .. 1 - 1 = {} /\ 1 \in 1 .. l + 1
      BY <2>2
    <3> QED BY <2>3, <2>4, <3>1
  <2>5. CASE at' = 2
    <3>1. 2 .. 2 - 1 = {} /\ 2 \in 1 .. l + 1
      BY <2>2
    <3> QED BY <2>3, <2>5, <3>1
  <2> QED BY <2>4, <2>5
<1>5. at' = 1 => AllRegistered'
  BY DEF AllRegistered
<1>6. CASE Mount
  <2>1. /\ copy' = copy /\ copied' = 2 /\ copyAborted' = FALSE /\ To!Ids' = {1} /\ owner' = 1 /\ at' = 2
    BY <1>2, <1>6 DEF Mount, To!Ids
  <2>2. Files' = {}
    BY <2>1 DEF Files
  <2>3. ToP!IInv'
    <3>1. UNCHANGED To!vars
      BY <1>2, <2>1 DEF To!vars
    <3> QED BY <3>1, <1>2, ToStep
  <2>4. Registered'
    BY <2>1, <2>2, <2>3, <1>2, <1>4 DEF Registered
  <2>5. Registering'
    BY <2>1, <2>2 DEF Registering
  <2> QED BY <1>1, <1>5, <2>2, <2>4, <2>5
<1>7. CASE OpenArchive
  <2>1. /\ To!AddNew(Log, FALSE, 1, 1) /\ owner' = 2
    BY <1>7 DEF OpenArchive
  <2>2. /\ Log \in (Paths \cup Added) \ {Root} /\ FALSE \in BOOLEAN /\ 1 \in 1 .. 3 /\ 1 \in 0 .. MaxFiles + 1
    BY AddedFacts, ExporterAssumption DEF Added
  <2>3. /\ ToP!IInv' /\ copied' = 3 /\ To!Ids' = {1, 2} /\ copyAborted' = FALSE
        /\ copy'[2].path = Log /\ copy'[2].valid = TRUE /\ copy'[2].directory = FALSE
        /\ copy'[2].cid = 1 /\ copy'[2].cfid = 1
        /\ Same(1)
    <3>1. AddedFile(Log, FALSE, 1, 1)
      BY <1>2, <2>1, <2>2, FileAdded
    <3> QED BY <3>1, <1>2 DEF AddedFile
  <2>4. Files' = {2}
    BY <2>3 DEF Files
  <2>5. OfAnother(2)'
    BY <2>1, <2>3 DEF OfAnother
  <2>6. copy'[1].valid /\ copy'[1].directory
    BY <1>2, <2>3 DEF Same
  <2>7. Has(Log)'
    BY <2>3, <2>4 DEF Has
  <2>8. Registered'
    BY <2>1, <2>3, <2>4, <2>5, <2>6, <2>7, <1>4 DEF Registered
  <2>9. \A id \in Files' : copy'[id].cid # 3
    BY <2>3, <2>4
  <2>10. at' = 2 => Registering'
    BY <2>1, <2>3, <2>9 DEF Registering
  <2> QED BY <1>1, <1>5, <2>8, <2>9, <2>10
<1> QED BY <1>6, <1>7

LEMMA ParentIsAbove ==
  ASSUME NEW p \in Paths \ {Root}, To!Parent(p) # Root
  PROVE  To!Parent(p) \in Above(p)
<1>1. PICK n \in Nat : n = Len(p) /\ n # 0
  BY PathFacts
<1>2. To!Parent(p) = SubSeq(p, 1, n - 1)
  BY <1>1 DEF To!Parent
<1>3. n - 1 # 0
  <2>1. SubSeq(p, 1, 0) = Root
    <3>1. p \in Seq(Names)
      BY PathFacts
    <3> QED BY <3>1, PathFacts
  <2> QED BY <2>1, <1>2
<1>4. n - 1 \in 1 .. Len(p) - 1
  BY <1>1, <1>3
<1> QED BY <1>2, <1>4 DEF Above

LEMMA MountStepInv ==
  ASSUME IInv, base' = Root, UNCHANGED extractionVars,
         Mount \/ RegisterEntry \/ RegisterFails \/ MountSucceeds
  PROVE  RootExported'
<1>1. /\ phase \in {"exported", "mount"} /\ base = Root /\ UNCHANGED <<source, list>> /\ RootExported
  BY DEF Mount, RegisterEntry, RegisterFails, MountSucceeds, IInv
<1>2. /\ ListSound /\ ListComplete /\ ListSound' /\ ListComplete'
      /\ metas' = 0 /\ extracted'.id = 0
  BY <1>1, ListStays DEF RootExported, extractionVars, Opening
<1>3. CASE Mount
  <2>1. at' = 2 /\ phase' = "mount"
    BY <1>3 DEF Mount
  <2>2. Registered' /\ Registering'
    BY <1>1, <1>3, <2>1, MountBegins
  <2> QED BY <1>2, <2>1, <2>2 DEF RootExported, Mounting, Writing, Opening
<1>4. CASE RegisterEntry
  <2>1. phase' = "mount"
    BY <1>4 DEF RegisterEntry
  <2>2. Registered' /\ Registering'
    BY <1>1, <1>4, RegisterEntryInv
  <2> QED BY <1>2, <2>1, <2>2 DEF RootExported, Mounting, Writing, Opening
<1>5. CASE RegisterFails \/ MountSucceeds
  <2>1. /\ phase = "mount" /\ UNCHANGED <<source, mounted, list, at>>
        /\ Registered /\ Registering /\ owner' = owner /\ owner \in {1, 2}
    BY <1>1, <1>5 DEF RegisterFails, MountSucceeds, RootExported, Mounting, mounted, Registered
  <2>2. Registered'
    BY <2>1, RegisteredStays
  <2>3. \A id \in Files' : copy'[id].cid # 3
    BY <2>1, RegisteredStays DEF Registering
  <2>4. CASE owner = 1 /\ RegisterFails
    <3>1. phase' = "refused"
      BY <2>4 DEF RegisterFails, MountEnds
    <3> QED BY <1>2, <3>1 DEF RootExported, Mounting, Writing, Opening
  <2>5. MountSucceeds => at = Len(list) + 1
    <3>1. at \in 1 .. Len(list) + 1 /\ Len(list) \in Nat /\ DOMAIN list = 1 .. Len(list)
      BY <1>2, <2>1, EntryFacts DEF Registered, IInv
    <3> QED BY <3>1 DEF MountSucceeds
  <2>6. CASE owner = 1 /\ MountSucceeds
    <3>1. phase' = "done"
      BY <2>6 DEF MountSucceeds, MountEnds
    <3> QED BY <1>1, <1>2, <2>1, <2>2, <2>5, <2>6, <3>1 DEF RootExported, Mounting, Writing, Opening
  <2>7. CASE owner = 2
    <3>1. phase' = "meta"
      BY <1>5, <2>7 DEF RegisterFails, MountSucceeds, MountEnds
    <3>2. RegisterFails => BelowLog
      <4> SUFFICES ASSUME RegisterFails PROVE BelowLog
        OBVIOUS
      <4>1. at \in DOMAIN list /\ ~CanAlloc(at)
        BY DEF RegisterFails
      <4>2. PICK p \in Paths \ {Root} : p = PathOf(at)
        BY <1>1, <2>1, <4>1, ParentRegistered
      <4>3. at # 1 /\ Visible(p) /\ To!Parent(p) = Log
        <5>1. /\ at \in DOMAIN list \ {1} /\ To!Room
              /\ ~To!ValidDirectory(ParentID(at)) => To!Parent(PathOf(at)) = Log
          BY <1>1, <2>1, <4>1, ParentRegistered
        <5>2. Visible(PathOf(at))
          BY <1>2, <4>1, EntryFacts DEF IInv
        <5> QED BY <4>1, <4>2, <5>1, <5>2 DEF CanAlloc
      <4>4. p \in Archived
        BY <4>2, <4>3 DEF Archived
      <4>5. Log \in Above(p)
        BY <4>2, <4>3, ParentIsAbove, AddedFacts DEF Added
      <4> QED BY <4>4, <4>5 DEF BelowLog
    <3>3. AllRegistered'
      BY <1>1, <1>5, <2>1, <2>5, <3>2, AllRegisteredStays DEF AllRegistered
    <3>4. owner' = 2 /\ metas' = 0
      BY <1>2, <2>1, <2>7
    <3>5. Opened'
      <4>1. 1 .. metas' = {}
        BY <3>4
      <4> QED BY <2>3, <3>1, <3>3, <3>4, <4>1 DEF Opened
    <3>6. Read'
      BY <1>2, <3>1 DEF Read
    <3> QED BY <1>2, <2>2, <3>1, <3>5, <3>6 DEF RootExported, Mounting, Writing, Opening
  <2> QED BY <1>5, <2>1, <2>4, <2>6, <2>7
<1> QED BY <1>3, <1>4, <1>5

LEMMA FolderStepInv ==
  ASSUME IInv, base' = Root, BeginFolder \/ WriteEntry \/ WriteThrows \/ WriteEnds
  PROVE  RootExported'
<1>1. /\ phase \in {"exported", "write"} /\ base = Root /\ UNCHANGED <<source, list, metas, extracted>>
      /\ RootExported
  BY DEF BeginFolder, WriteEntry, WriteThrows, WriteEnds, extractionVars, IInv
<1>2. ListSound /\ ListSound' /\ ListComplete' /\ extracted'.id = 0 /\ metas' = 0
  BY <1>1, ListStays DEF RootExported, Mounting, Writing, Opening
<1>3. Len(list) \in Nat /\ DOMAIN list = 1 .. Len(list) /\ list # << >>
  BY <1>2, Elements DEF ListSound
<1>4. CASE BeginFolder
  <2>1. phase' = "write" /\ at' = 1 /\ before' = target' /\ list' = list
    BY <1>4 DEF BeginFolder
  <2>2. 1 .. at' - 1 = {}
    BY <2>1
  <2>3. \A p : Expected(p)' = before'[p]
    BY <2>2 DEF Expected
  <2>4. at' \in 1 .. Len(list') + 1
    BY <1>3, <2>1
  <2>5. Written'
    BY <2>1, <2>3, <2>4 DEF Written
  <2> QED BY <1>2, <2>1, <2>5 DEF RootExported, Mounting, Writing, Opening
<1>5. CASE WriteEntry
  <2>1. Written' /\ phase' = "write"
    BY <1>1, <1>5, WriteEntryInv DEF WriteEntry
  <2> QED BY <1>2, <2>1 DEF RootExported, Mounting, Writing, Opening
<1>6. CASE WriteThrows
  <2>1. phase' = "stopped"
    BY <1>6 DEF WriteThrows
  <2> QED BY <1>2, <2>1 DEF RootExported, Mounting, Writing, Opening
<1>7. CASE WriteEnds
  <2>1. phase = "write" /\ phase' = "written" /\ UNCHANGED <<target, before, at>>
    BY <1>7 DEF WriteEnds, extractionVars
  <2>2. Written /\ Written'
    BY <1>1, <2>1, WrittenStays DEF RootExported, Writing
  <2>3. at' = Len(list') + 1
    BY <1>1, <1>3, <1>7, <2>1, <2>2 DEF Written, WriteEnds
  <2> QED BY <1>2, <2>1, <2>2, <2>3 DEF RootExported, Mounting, Writing, Opening
<1> QED BY <1>4, <1>5, <1>6, <1>7

LEMMA OpenArchiveInv ==
  ASSUME IInv, base' = Root, OpenArchive
  PROVE  RootExported'
<1>1. /\ phase = "exported" /\ base = Root /\ RootExported /\ owner' = 2
      /\ \/ phase' = "mount" /\ at' = 2
         \/ phase' = "meta" /\ at' = 1
         \/ phase' = "stopped"
  BY DEF OpenArchive, IInv
<1>2. metas' = 0 /\ extracted'.id = 0
  BY <1>1 DEF OpenArchive, extractionVars, RootExported, Opening
<1>3. CASE phase' = "stopped"
  BY <1>2, <1>3 DEF RootExported, Mounting, Writing, Opening
<1>4. CASE phase' = "mount" /\ at' = 2
  <2>1. ListSound' /\ ListComplete' /\ Registered' /\ Registering'
    BY <1>1, <1>4, MountBegins
  <2> QED BY <1>2, <1>4, <2>1 DEF RootExported, Mounting, Writing, Opening
<1>5. CASE phase' = "meta" /\ at' = 1
  <2>1. /\ ListSound' /\ ListComplete' /\ Registered' /\ AllRegistered'
        /\ \A id \in Files' : copy'[id].cid # 3
    BY <1>1, <1>5, MountBegins
  <2>2. 1 .. metas' = {} /\ metas' \in 0 .. 2
    BY <1>2
  <2>3. Opened'
    BY <1>1, <1>2, <1>5, <2>1, <2>2 DEF Opened
  <2>4. Read'
    BY <1>2, <1>5 DEF Read
  <2> QED BY <1>2, <1>5, <2>1, <2>3, <2>4 DEF RootExported, Mounting, Writing, Opening
<1> QED BY <1>1, <1>3, <1>4, <1>5

(* A step of RDCMetaModule's AddFile. *)
LEMMA MetaStepInv ==
  ASSUME IInv, base' = Root, OpenSteps
  PROVE  RootExported'
<1>1. /\ phase = "meta" /\ base = Root /\ UNCHANGED <<source, list, owner, at>> /\ RootExported
      /\ extracted' = extracted
  BY DEF OpenSteps, ForceDirectory, AddFile, AddFileRefused, AddFileCrashes, OpenEnds, extractionVars,
     mounted, IInv
<1>2. /\ Registered /\ Opened /\ ListSound' /\ ListComplete' /\ extracted'.id = 0
  BY <1>1, ListStays DEF RootExported, Mounting, Writing, Opening
<1>3. PICK n \in 0 .. 2 : n = metas
  BY <1>2 DEF Opened
<1>4. AllRegistered' /\ owner = 2 /\ owner' = 2
  BY <1>1, <1>2, AllRegisteredStays DEF Opened
<1>5. ToP!IInv
  BY <1>2 DEF Registered
<1>6. CASE ForceDirectory
  <2>1. /\ To!AddNew(Meta, TRUE, 3, 0) /\ metas' = n /\ phase' = "meta"
    BY <1>1, <1>3, <1>6 DEF ForceDirectory, extractionVars
  <2>2. /\ Registered' /\ \A q : Has(q) => Has(q)'
        /\ Has(Meta)' /\ ~Has(Meta) /\ (MetaIsFile' => MetaIsFile)
    <3>1. Meta \in Added /\ Meta # Log /\ TRUE \in BOOLEAN /\ 0 \in 0 .. MaxFiles + 1
      BY AddedFacts, ExporterAssumption DEF Added
    <3> QED BY <1>1, <1>2, <1>4, <2>1, <3>1, OtherAdded
  <2>3. ~MetaIsFile
    BY <2>2 DEF MetaIsFile, Has
  <2>4. Opened'
    BY <1>2, <1>3, <1>4, <2>1, <2>2, <2>3 DEF Opened
  <2> QED BY <1>2, <2>1, <2>2, <2>4 DEF RootExported, Mounting, Writing, Opening, Read
<1>7. CASE AddFile
  <2>1. /\ To!AddNew(MetaFile[n + 1], FALSE, 3, n + 1) /\ metas' = n + 1 /\ phase' = "meta" /\ n < 2
    BY <1>1, <1>3, <1>7 DEF AddFile
  <2>2. n + 1 \in {1, 2} /\ n + 1 \in 0 .. MaxFiles + 1
    BY <2>1, ExporterAssumption
  <2>3. PICK p \in Added : p = MetaFile[n + 1] /\ p # Log /\ p # Meta /\ To!Parent(p) = Meta
    BY <2>2, AddedFacts DEF Added
  <2>4. /\ Registered' /\ \A q : Has(q) => Has(q)'
        /\ Has(p)' /\ ~Has(p) /\ (MetaIsFile' => MetaIsFile)
    BY <1>1, <1>2, <1>4, <2>1, <2>2, <2>3, OtherAdded
  <2>5. PICK id \in To!Ids : id = To!Lookup(Meta) /\ copy[id].path = Meta /\ copy[id].directory
    <3>1. To!ValidDirectory(To!Lookup(Meta))
      BY <2>1, <2>3 DEF To!AddNew, To!Accepts
    <3> QED BY <3>1, <1>5, ToLookup, CopyFacts DEF To!ValidDirectory
  <2>6. id \in Files
    BY <2>5, <1>5, CopyFacts, AddedFacts DEF Files, Added
  <2>7. ~MetaIsFile /\ Has(Meta)
    <3>1. \A x \in Files : copy[x].path = Meta => x = id
      BY <2>5, <1>5, CopyFacts DEF Files
    <3> QED BY <2>5, <2>6, <3>1 DEF MetaIsFile, Has
  <2>8. \A k \in 1 .. metas' : k \in 1 .. metas \/ k = n + 1
    BY <1>3, <2>1
  <2>9. \A k \in 1 .. metas' : Has(MetaFile[k])'
    BY <1>2, <2>3, <2>4, <2>7, <2>8 DEF Opened
  <2>10. Opened'
    BY <1>4, <2>1, <2>2, <2>4, <2>7, <2>9, <1>3 DEF Opened
  <2> QED BY <1>2, <2>1, <2>4, <2>10 DEF RootExported, Mounting, Writing, Opening, Read
<1>8. CASE AddFileRefused
  <2>1. /\ UNCHANGED <<source, mounted, list, at>> /\ metas' = n + 1 /\ phase' = "meta" /\ n < 2
        /\ To!ValidFile(To!Lookup(Meta)) \/ To!ValidFile(To!Lookup(MetaFile[n + 1]))
    BY <1>1, <1>3, <1>8 DEF AddFileRefused
  <2>2. /\ Registered' /\ Files' = Files
        /\ \A p : Has(p)' <=> Has(p)
        /\ MetaIsFile' <=> MetaIsFile
        /\ \A id : copy'[id].cid = copy[id].cid
    BY <1>2, <2>1, RegisteredStays
  <2>3. Has(Meta) /\ (Has(MetaFile[n + 1]) \/ MetaIsFile)
    <3>1. CASE To!ValidFile(To!Lookup(Meta))
      <4>1. PICK id \in To!Ids : id = To!Lookup(Meta) /\ copy[id].path = Meta /\ ~copy[id].directory
        BY <3>1, <1>5, ToLookup, CopyFacts DEF To!ValidFile
      <4>2. id \in Files
        BY <4>1, <1>5, CopyFacts, AddedFacts DEF Files, Added
      <4> QED BY <4>1, <4>2 DEF Has, MetaIsFile
    <3>2. CASE To!ValidFile(To!Lookup(MetaFile[n + 1]))
      <4>1. n + 1 \in {1, 2}
        BY <2>1
      <4>2. PICK p \in Added : p = MetaFile[n + 1] /\ To!Parent(p) = Meta /\ p # Root
        BY <4>1, AddedFacts DEF Added
      <4>3. PICK id \in To!Ids : id = To!Lookup(p) /\ copy[id].path = p
        BY <3>2, <4>2, <1>5, ToLookup, CopyFacts DEF To!ValidFile
      <4>4. id \in Files
        BY <4>2, <4>3, <1>5, CopyFacts DEF Files
      <4>5. PICK d \in To!Ids : d = copy[id].parent /\ copy[d].path = Meta
        BY <4>2, <4>3, <4>4, <1>5, CopyFacts DEF Files
      <4>6. d \in Files
        BY <4>5, <1>5, CopyFacts, AddedFacts DEF Files, Added
      <4> QED BY <4>2, <4>3, <4>4, <4>5, <4>6 DEF Has
    <3> QED BY <2>1, <3>1, <3>2
  <2>4. \A k \in 1 .. metas' : k \in 1 .. metas \/ k = n + 1
    BY <1>3, <2>1
  <2>5. \A k \in 1 .. metas' : Has(Meta)' /\ (Has(MetaFile[k])' \/ MetaIsFile')
    BY <1>2, <2>2, <2>3, <2>4 DEF Opened
  <2>6. metas' \in 0 .. 2
    BY <2>1
  <2>7. Opened'
    BY <1>2, <1>4, <2>1, <2>2, <2>5, <2>6 DEF Opened
  <2> QED BY <1>2, <2>1, <2>2, <2>7 DEF RootExported, Mounting, Writing, Opening, Read
<1>9. CASE AddFileCrashes
  <2>1. phase' = "stopped"
    BY <1>9 DEF AddFileCrashes
  <2> QED BY <1>2, <2>1 DEF RootExported, Mounting, Writing, Opening
<1>10. CASE OpenEnds
  <2>1. /\ UNCHANGED <<source, mounted, list, at>> /\ metas' = metas /\ metas = 2
        /\ phase' = "open" /\ iterator' = 2
    BY <1>10 DEF OpenEnds
  <2>2. /\ Registered' /\ Files' = Files
        /\ \A p : Has(p)' <=> Has(p)
        /\ MetaIsFile' <=> MetaIsFile
        /\ \A id : copy'[id].cid = copy[id].cid
    BY <1>2, <2>1, RegisteredStays
  <2>3. Opened'
    BY <1>2, <1>4, <2>1, <2>2 DEF Opened
  <2>4. iterator' \in 2 .. copied'
    <3>1. copied' \in Nat /\ copied' >= 2
      BY <1>5, <2>1, CopyFacts DEF mounted
    <3> QED BY <3>1, <2>1
  <2>5. Read'
    BY <1>2, <2>1, <2>4 DEF Read
  <2> QED BY <1>2, <2>1, <2>2, <2>3, <2>5 DEF RootExported, Mounting, Writing, Opening
<1> QED BY <1>6, <1>7, <1>8, <1>9, <1>10 DEF OpenSteps

LEMMA ManagerStepInv ==
  ASSUME IInv, base' = Root, ReadHeader \/ ProcessFile
  PROVE  RootExported'
<1>1. /\ phase = "open" /\ base = Root /\ UNCHANGED <<source, mounted, list, at, metas>> /\ RootExported
      /\ phase' \in {"open", "listed"}
  BY DEF ReadHeader, ProcessFile, IInv
<1>2. /\ ListSound' /\ ListComplete' /\ Registered /\ Registered' /\ Read /\ Opened
  BY <1>1, ListStays, RegisteredStays DEF RootExported, Mounting, Writing, Opening
<1>3. /\ Files' = Files
      /\ \A p : Has(p)' <=> Has(p)
      /\ MetaIsFile' <=> MetaIsFile
      /\ \A id : copy'[id].cid = copy[id].cid /\ ContentOf(id)' = ContentOf(id)
      /\ copied' = copied /\ owner' = owner
  BY <1>1, RegisteredStays DEF mounted
<1>4. Opened'
  BY <1>1, <1>2, <1>3, AllRegisteredStays DEF Opened
<1>5. PICK c \in Nat, i \in Nat : /\ c = copied /\ i = iterator /\ To!Ids = 1 .. c - 1
                                /\ 2 <= i /\ i <= c
  <2>1. copied \in Nat /\ To!Ids = 1 .. copied - 1 /\ copied >= 2
    BY <1>2, CopyFacts DEF Registered
  <2>2. iterator \in 2 .. copied
    BY <1>1, <1>2 DEF Read
  <2>3. iterator \in Nat /\ 2 <= iterator /\ iterator <= copied
    BY <2>1, <2>2
  <2> QED BY <2>1, <2>3
<1>6. CASE ReadHeader
  <2>1. extracted'.id = 0
    BY <1>6 DEF ReadHeader
  <2>2. IsFileValid(i) <=> i < c
    <3>1. i < c => i \in Files
      BY <1>5 DEF Files
    <3>2. i \in Files => copy[i].valid
      BY <1>2 DEF Registered, OfAnEntry, IsEntry, OfAnother
    <3>3. i \in To!Ids <=> i < c
      BY <1>5
    <3> QED BY <3>1, <3>2, <3>3 DEF IsFileValid, To!Known
  <2>3. CASE i < c
    <3>1. iterator' = i + 1 /\ phase' = "open"
      BY <1>1, <1>5, <1>6, <2>2, <2>3 DEF ReadHeader
    <3>2. iterator' \in 2 .. copied'
      BY <1>3, <1>5, <2>3, <3>1
    <3>3. Read'
      BY <2>1, <3>1, <3>2 DEF Read
    <3> QED BY <1>2, <1>4, <3>1, <3>3 DEF RootExported, Mounting, Writing, Opening
  <2>4. CASE ~(i < c)
    <3>1. iterator' = i /\ phase' = "listed"
      BY <1>1, <1>5, <1>6, <2>2, <2>4 DEF ReadHeader
    <3>2. iterator' = copied'
      BY <1>3, <1>5, <2>4, <3>1
    <3>3. Read'
      BY <2>1, <3>1, <3>2 DEF Read
    <3> QED BY <1>2, <1>4, <3>1, <3>3 DEF RootExported, Mounting, Writing, Opening
  <2> QED BY <2>3, <2>4
<1>7. CASE ProcessFile
  <2>1. /\ phase' = "open" /\ i > 2 /\ iterator' = i
        /\ extracted' = [id |-> i - 1, from |-> ContentOf(i - 1)]
    BY <1>1, <1>5, <1>7 DEF ProcessFile
  <2>2. PICK k : k = i - 1 /\ k \in Files'
    BY <1>3, <1>5, <2>1 DEF Files
  <2>3. extracted'.id = k /\ extracted'.from = ContentOf(k)
    BY <2>1, <2>2
  <2>4. extracted'.from = (ContentOf(extracted.id))'
    BY <2>3, <1>3 DEF ContentOf
  <2>5. iterator' \in 2 .. copied'
    BY <1>3, <1>5, <2>1
  <2>6. Read'
    BY <2>1, <2>2, <2>3, <2>4, <2>5 DEF Read
  <2> QED BY <1>2, <1>4, <2>1, <2>6 DEF RootExported, Mounting, Writing, Opening
<1> QED BY <1>6, <1>7

LEMMA StepInv == IInv /\ [ExtractionNext]_allVars => IInv'
<1> SUFFICES ASSUME IInv, [ExtractionNext]_allVars PROVE IInv'
  OBVIOUS
<1>1. FromP!IInv'
  BY TableStep
<1>2. phase' = "idle" => base' = Root
  <2>1. ExporterStep /\ phase' = "idle" => base' = Root
    BY DEF IInv, ExporterStep, Next, Work, Step, GenerateFileList, SkipInvalid, VisitChild,
       VisitAsserts, ReturnFromScan, Mount, RegisterEntry, RegisterFails, MountSucceeds, MountEnds
  <2> QED BY <2>1 DEF IInv, ExtractionNext, BeginFolder, WriteEntry, WriteThrows,
     WriteEnds, OpenArchive, OpenSteps, ForceDirectory, AddFile, AddFileRefused, AddFileCrashes, OpenEnds,
     ReadHeader, ProcessFile, allVars, vars
<1>3. ASSUME base' = Root PROVE RootExported'
  <2>1. CASE Work /\ UNCHANGED extractionVars
    <3>1. /\ phase = "idle" /\ phase' = "idle" /\ base = Root
          /\ UNCHANGED <<mounted, at, metas, extracted>>
      BY <2>1 DEF Work, extractionVars, IInv
    <3>2. To!Init' /\ extracted'.id = 0 /\ metas' = 0 /\ at' = 0
      BY <3>1, TargetUntouched DEF IInv, RootExported, Opening
    <3> QED BY <3>1, <3>2 DEF RootExported, Mounting, Writing, Opening
  <2>2. CASE /\ UNCHANGED extractionVars
             /\ \/ \E p \in Paths : GenerateFileList(p)
                \/ SkipInvalid \/ VisitChild \/ VisitAsserts \/ ReturnFromScan
    BY <1>3, <2>2, ScanStepInv
  <2>3. CASE UNCHANGED extractionVars /\ (Mount \/ RegisterEntry \/ RegisterFails \/ MountSucceeds)
    BY <1>3, <2>3, MountStepInv
  <2>4. CASE BeginFolder \/ WriteEntry \/ WriteThrows \/ WriteEnds
    BY <1>3, <2>4, FolderStepInv
  <2>5. CASE OpenArchive
    BY <1>3, <2>5, OpenArchiveInv
  <2>6. CASE OpenSteps
    BY <1>3, <2>6, MetaStepInv
  <2>7. CASE ReadHeader \/ ProcessFile
    BY <1>3, <2>7, ManagerStepInv
  <2>8. CASE UNCHANGED allVars
    <3>1. /\ UNCHANGED <<source, mounted, list, stack, phase, at, target, before, metas, iterator, extracted>>
          /\ RootExported
      BY <1>3, <2>8 DEF allVars, vars, extractionVars, IInv
    <3>2. /\ ListSound => ListSound'
          /\ ListComplete => ListComplete'
          /\ \A k \in DOMAIN list : ChildrenListed(k)' <=> ChildrenListed(k)
          /\ \A c : CallSound(c)' <=> CallSound(c)
      BY <3>1, ListStays
    <3>3. ScanSound => ScanSound'
      <4>1. \A s \in DOMAIN stack : CallSound(stack[s])' <=> CallSound(stack[s])
        <5> SUFFICES ASSUME NEW s \in DOMAIN stack PROVE CallSound(stack[s])' <=> CallSound(stack[s])
          OBVIOUS
        <5>1. PICK x : x = stack[s] /\ x = (stack[s])'
          BY <3>1
        <5>2. CallSound(x)' <=> CallSound(x)
          BY <3>2
        <5> QED BY <5>1, <5>2 DEF CallSound
      <4>2. From!Ids' = From!Ids
        BY <3>1, SourceStays
      <4> QED BY <3>1, <3>2, <4>1, <4>2 DEF ScanSound
    <3>4. (To!Init => To!Init') /\ (Registered => Registered') /\ (Written => Written')
      BY <3>1, TargetUntouched, RegisteredStays, WrittenStays
    <3>5. /\ Files' = Files
          /\ \A p : Has(p)' <=> Has(p)
          /\ MetaIsFile' <=> MetaIsFile
          /\ \A id : copy'[id].cid = copy[id].cid /\ ContentOf(id)' = ContentOf(id)
          /\ copied' = copied /\ owner' = owner
      BY <3>1, RegisteredStays DEF mounted
    <3>6. Registering => Registering'
      BY <3>1, <3>5 DEF Registering
    <3>7. Opened => Opened'
      BY <3>1, <3>5, AllRegisteredStays DEF Opened
    <3>8. Read => Read'
      <4>1. (ContentOf(extracted.id))' = ContentOf(extracted.id)
        BY <3>1 DEF ContentOf, mounted
      <4> QED BY <3>1, <3>5, <4>1 DEF Read
    <3>9. owner' = owner /\ list' = list /\ at' = at /\ metas' = metas /\ extracted' = extracted /\ phase' = phase
      BY <3>1, <3>5
    <3> HIDE DEF IInv
    <3> QED BY <3>1, <3>2, <3>3, <3>4, <3>6, <3>7, <3>8, <3>9 DEF RootExported
  <2> QED BY <2>1, <2>2, <2>3, <2>4, <2>5, <2>6, <2>7, <2>8 DEF ExtractionNext, ExporterStep, Next, Step
<1> QED BY <1>1, <1>2, <1>3 DEF IInv

LEMMA InitInv == ExtractionInit => IInv
<1> SUFFICES ASSUME ExtractionInit PROVE IInv
  OBVIOUS
<1>1. FromP!IInv
  BY FromStart DEF ExtractionInit, Init
<1>2. RootExported
  BY DEF ExtractionInit, Init, RootExported, Mounting, Writing, Opening
<1> QED BY <1>1, <1>2 DEF IInv, ExtractionInit, Init


-----------------------------------------------------------------------------
(* What holds throughout: the entries listed so far are of what a client   *)
(* reaches, the calls of the walk miss nothing, the files registered so    *)
(* far are those of the entries and the other containers', and the files   *)
(* written so far those of the entries.                                    *)
THEOREM ExtractionInvariant == ExtractionSpec => []IInv
<1> QED BY InitInv, StepInv, PTL DEF ExtractionSpec

(* Once the list is complete, it has an entry for just what a client of    *)
(* the exported file system can reach.                                     *)
LEMMA ListIsWhatIsVisible ==
  ASSUME FromP!IInv, ListSound, ListComplete, NEW p \in Paths
  PROVE  Visible(p) <=> \E k \in DOMAIN list : PathOf(k) = p
<1>1. ASSUME Visible(p) PROVE \E k \in DOMAIN list : PathOf(k) = p
  <2>1. From!Lookup(p) \in From!Ids /\ files[From!Lookup(p)].path = p
    BY <1>1, VisibleHasFile
  <2>2. Listed(From!Lookup(p))
    BY <2>1, <1>1, VisibleListed
  <2> QED BY <2>1, <2>2 DEF Listed, PathOf
<1>2. \A k \in DOMAIN list : PathOf(k) = p => Visible(p)
  BY EntryFacts
<1> QED BY <1>1, <1>2

(* An archive that was registered whole has an entry for just what a       *)
(* client could reach.                                                     *)
LEMMA EntriesAreVisible ==
  ASSUME FromP!IInv, ListSound, ListComplete, at = Len(list) + 1, NEW p \in Paths \ {Root}
  PROVE  Visible(p) <=> \E k \in 2 .. at - 1 : PathOf(k) = p
<1>1. PICK n \in Nat : n = Len(list) /\ DOMAIN list = 1 .. n
  BY EntryFacts
<1>2. \A k \in DOMAIN list : k = 1 \/ k \in 2 .. at - 1
  BY <1>1
<1>3. \A k \in 2 .. at - 1 : k \in DOMAIN list
  BY <1>1
<1>4. PathOf(1) # p
  BY EntryFacts
<1> QED BY <1>2, <1>3, <1>4, ListIsWhatIsVisible

(* An archive made of the root shows just what a client could reach, each  *)
(* file in its directory, and under each path the file that had it.        *)
THEOREM ExportsRoundTrip == ExtractionSpec => []RoundTrip
<1>1. ASSUME IInv PROVE RoundTrip
  <2> SUFFICES ASSUME phase = "done", base = Root, NEW p \in Paths \ {Root}, NEW id, id = To!Lookup(p)
               PROVE  /\ (id # 0) = Visible(p)
                      /\ id # 0 =>
                           /\ copy[id].valid
                           /\ copy[id].directory = files[From!Lookup(p)].directory
                           /\ copy[id].parent = To!Lookup(To!Parent(p))
                           /\ copy[id].cfid \in DOMAIN list
                           /\ list[copy[id].cfid].vfs = From!Lookup(p)
    BY DEF RoundTrip
  <2>1. /\ FromP!IInv /\ ListSound /\ ListComplete /\ Registered /\ ToP!IInv
        /\ owner = 1 /\ at = Len(list) + 1
    BY <1>1 DEF IInv, RootExported, Mounting, Writing, Registered
  <2>2. Visible(p) <=> \E k \in 2 .. at - 1 : PathOf(k) = p
    BY <2>1, EntriesAreVisible
  <2>3. /\ \/ id \in Files /\ copy[id].path = p
           \/ id = 0 /\ \A x \in Files : copy[x].path # p
        /\ 0 \notin Files
    <3>1. 0 \notin To!Ids
      BY <2>1, CopyFacts
    <3> QED BY <3>1, <2>1, ToLookup, CopyFacts DEF Files
  <2>4. \A x \in Files : OfAnEntry(x)
    BY <2>1 DEF Registered, OfAnother
  <2>5. Visible(p) => id # 0
    BY <2>1, <2>2, <2>3 DEF Registered, HasEntry, IsEntry
  <2>6. ASSUME id # 0
        PROVE  /\ Visible(p)
               /\ copy[id].valid
               /\ copy[id].directory = files[From!Lookup(p)].directory
               /\ copy[id].parent = To!Lookup(To!Parent(p))
               /\ copy[id].cfid \in DOMAIN list
               /\ list[copy[id].cfid].vfs = From!Lookup(p)
    <3>1. id \in Files /\ copy[id].path = p
      BY <2>3, <2>6
    <3>2. PICK k \in 2 .. at - 1 : IsEntry(id, k)
      BY <2>4, <3>1 DEF OfAnEntry
    <3>3. PathOf(k) = p /\ copy[id].valid /\ copy[id].cfid = k /\ copy[id].directory = list[k].dir
      <4>1. IsDir(k) <=> list[k].dir
        BY <2>1 DEF IsDir
      <4>2. /\ copy[id].path = PathOf(k) /\ copy[id].valid /\ copy[id].cfid = k
            /\ copy[id].directory = IsDir(k)
        BY <3>2 DEF IsEntry
      <4>3. k \in DOMAIN list
        <5>1. Len(list) \in Nat /\ DOMAIN list = 1 .. Len(list)
          BY <2>1, EntryFacts
        <5> QED BY <5>1, <2>1
      <4>4. list[k].dir \in BOOLEAN
        BY <2>1, <4>3, EntryFacts
      <4>5. IsDir(k) = list[k].dir
        BY <4>1, <4>4 DEF IsDir
      <4> QED BY <3>1, <4>2, <4>5
    <3>4. k \in DOMAIN list /\ list[k].vfs = From!Lookup(p) /\ list[k].dir = files[From!Lookup(p)].directory
      <4>1. Len(list) \in Nat /\ DOMAIN list = 1 .. Len(list)
        BY <2>1, EntryFacts
      <4>2. k \in DOMAIN list
        BY <4>1, <2>1
      <4> QED BY <4>2, <3>3, <2>1, EntryFacts
    <3>5. copy[id].parent = To!Lookup(To!Parent(p))
      <4>1. copy[id].parent \in To!Ids /\ copy[copy[id].parent].path = To!Parent(p)
        BY <3>1, <2>1, CopyFacts DEF Files
      <4> QED BY <4>1, <2>1, ToLookup
    <3> QED BY <2>2, <3>2, <3>3, <3>4, <3>5
  <2>7. (id # 0) = Visible(p)
    BY <2>5, <2>6 DEF Visible
  <2> QED BY <2>6, <2>7
<1> QED BY <1>1, ExtractionInvariant, PTL

(* A folder that was written has the files of the export and, but for what *)
(* they and their directories are in the place of, what it had.            *)
THEOREM FoldersHoldExports == ExtractionSpec => []FolderHoldsExport
<1>1. ASSUME IInv PROVE FolderHoldsExport
  <2> DEFINE exports(q) == Visible(q) /\ ~files[From!Lookup(q)].directory
  <2> SUFFICES ASSUME phase = "written", base = Root, NEW p \in Paths \ {Root}
               PROVE  IF exports(p) /\ p \notin Unreadable /\ before[p].kind # "folder"
                      THEN target[p] = FileWith(From!Lookup(p))
                      ELSE target[p] = IF \E q \in Paths : exports(q) /\ p \in Above(q)
                                       THEN Folder ELSE before[p]
    BY DEF FolderHoldsExport
  <2>1. /\ FromP!IInv /\ ListSound /\ ListComplete /\ Written /\ at = Len(list) + 1
    BY <1>1 DEF IInv, RootExported, Mounting, Writing
  <2>2. 1 .. at - 1 = DOMAIN list
    BY <2>1, Elements DEF ListSound
  <2>3. \A q \in Paths : exports(q) <=> \E k \in 1 .. at - 1 : EntryOf(k, q)
    <3> SUFFICES ASSUME NEW q \in Paths
                 PROVE  exports(q) <=> \E k \in DOMAIN list : EntryOf(k, q)
      BY <2>2
    <3>1. Visible(q) <=> \E k \in DOMAIN list : PathOf(k) = q
      BY <2>1, ListIsWhatIsVisible
    <3>2. \A k \in DOMAIN list : PathOf(k) = q =>
            list[k].dir = files[From!Lookup(q)].directory
      BY <2>1, EntryFacts
    <3> QED BY <3>1, <3>2 DEF EntryOf, PathOf
  <2> HIDE DEF exports
  <2>4. target[p] = Expected(p)
    BY <2>1 DEF Written
  <2> QED BY <2>3, <2>4 DEF Expected, Writable
<1> QED BY <1>1, ExtractionInvariant, PTL

(* Where the plugin's files come from.  A file of an entry has its content *)
(* unless it is a directory, any other has none of the archive's; and the  *)
(* entries are what is in the archive.                                     *)
LEMMA OpenedFacts ==
  ASSUME IInv, base = Root, phase \in {"open", "listed"}
  PROVE  /\ FromP!IInv /\ ToP!IInv /\ ListSound /\ Registered /\ Opened /\ Read
         /\ \A k \in 2 .. at - 1 : /\ k \in DOMAIN list
                                   /\ PathOf(k) \in Archived
                                   /\ PathOf(k) \in ArchivedFiles <=> ~list[k].dir
         /\ ~BelowLog => \A p \in Archived : \E k \in 2 .. at - 1 : PathOf(k) = p
<1>1. /\ FromP!IInv /\ ToP!IInv /\ ListSound /\ ListComplete /\ Registered /\ Opened /\ Read
  BY DEF IInv, RootExported, Mounting, Writing, Opening, Registered
<1>2. PICK n \in Nat : n = Len(list) /\ DOMAIN list = 1 .. n /\ at \in 1 .. n + 1
  BY <1>1, EntryFacts DEF Registered
<1>3. ASSUME NEW k \in 2 .. at - 1
      PROVE  /\ k \in DOMAIN list
             /\ PathOf(k) \in Archived
             /\ PathOf(k) \in ArchivedFiles <=> ~list[k].dir
  <2>1. k \in DOMAIN list \ {1} /\ at # 1
    BY <1>2
  <2>2. PathOf(k) \in Archived
    BY <1>1, <2>1, EntryFacts DEF Archived
  <2>3. list[k].dir = files[From!Lookup(PathOf(k))].directory
    BY <1>1, <2>1, EntryFacts
  <2> QED BY <2>1, <2>2, <2>3 DEF ArchivedFiles
<1>4. ASSUME ~BelowLog, NEW p \in Archived
      PROVE  \E k \in 2 .. at - 1 : PathOf(k) = p
  <2>1. at # 1 /\ p \in Paths \ {Root} /\ Visible(p)
    BY <1>4 DEF Archived
  <2>2. at = Len(list) + 1
    BY <1>1, <1>4, <2>1 DEF Opened, AllRegistered
  <2> QED BY <1>1, <2>1, <2>2, EntriesAreVisible
<1> QED BY <1>1, <1>3, <1>4

LEMMA HeadersShow ==
  ASSUME IInv
  PROVE  HeadersShowArchive
<1> DEFINE shown == {copy[id].path : id \in 2 .. iterator - 1}
           others == IF Meta \in ArchivedFiles THEN {} ELSE {MetaFile[1], MetaFile[2]}
<1> SUFFICES ASSUME base = Root, phase = "listed"
             PROVE  /\ iterator = copied
                    /\ \A i, j \in 2 .. iterator - 1 : copy[i].path = copy[j].path => i = j
                    /\ ~BelowLog => shown = Archived \cup {Log, Meta} \cup others
  BY DEF HeadersShowArchive
<1>1. /\ FromP!IInv /\ ToP!IInv /\ Registered /\ Opened /\ Read
      /\ \A k \in 2 .. at - 1 : /\ k \in DOMAIN list
                                /\ PathOf(k) \in Archived
                                /\ PathOf(k) \in ArchivedFiles <=> ~list[k].dir
      /\ ~BelowLog => \A p \in Archived : \E k \in 2 .. at - 1 : PathOf(k) = p
  BY OpenedFacts
<1>2. iterator = copied /\ 2 .. iterator - 1 = Files
  <2>1. iterator = copied /\ copied \in Nat /\ To!Ids = 1 .. copied - 1
    BY <1>1, CopyFacts DEF Read
  <2> QED BY <2>1 DEF Files
<1>3. \A i, j \in Files : copy[i].path = copy[j].path => i = j
  BY <1>1, CopyFacts DEF Files
<1>4. \A p : p \in shown <=> Has(p)
  BY <1>2 DEF Has
<1> HIDE DEF shown
<1>5. Has(Log) /\ Has(Meta) /\ \A n \in {1, 2} : Has(MetaFile[n]) \/ MetaIsFile
  <2>1. metas = 2 /\ 1 \in 1 .. metas /\ \A n \in {1, 2} : n \in 1 .. metas
    BY <1>1 DEF Opened
  <2>2. Has(Meta) /\ \A n \in {1, 2} : Has(MetaFile[n]) \/ MetaIsFile
    BY <1>1, <2>1 DEF Opened
  <2> QED BY <1>1, <2>2 DEF Opened, Registered
<1>6. MetaIsFile => Meta \in ArchivedFiles
  <2> SUFFICES ASSUME MetaIsFile PROVE Meta \in ArchivedFiles
    OBVIOUS
  <2>1. PICK id \in Files : copy[id].path = Meta /\ ~copy[id].directory
    BY DEF MetaIsFile
  <2>2. ~OfAnother(id)
    BY <2>1, AddedFacts DEF OfAnother
  <2>3. PICK k \in 2 .. at - 1 : IsEntry(id, k)
    BY <2>1, <2>2, <1>1 DEF Registered, OfAnEntry
  <2>4. PathOf(k) = Meta /\ ~list[k].dir
    BY <2>1, <2>3, AddedFacts DEF IsEntry, IsDir
  <2> QED BY <2>4, <1>1
<1>7. ASSUME ~BelowLog PROVE shown = Archived \cup {Log, Meta} \cup others
  <2>1. \A p \in Archived : \E k \in 2 .. at - 1 : PathOf(k) = p
    BY <1>1, <1>7
  <2>2. Meta \in ArchivedFiles => MetaIsFile
    <3> SUFFICES ASSUME Meta \in ArchivedFiles PROVE MetaIsFile
      OBVIOUS
    <3>1. PICK k \in 2 .. at - 1 : PathOf(k) = Meta
      BY <2>1 DEF ArchivedFiles
    <3>2. ~list[k].dir
      BY <3>1, <1>1
    <3>3. PICK id \in Files : IsEntry(id, k)
      BY <1>1 DEF Registered, HasEntry
    <3>4. copy[id].path = Meta /\ ~copy[id].directory
      BY <3>1, <3>2, <3>3 DEF IsEntry, IsDir
    <3> QED BY <3>4 DEF MetaIsFile
  <2>3. ASSUME NEW p \in Archived PROVE Has(p)
    <3>1. PICK k \in 2 .. at - 1 : PathOf(k) = p
      BY <2>1
    <3>2. PICK id \in Files : IsEntry(id, k)
      BY <1>1 DEF Registered, HasEntry
    <3> QED BY <3>1, <3>2 DEF IsEntry, Has
  <2>4. \A p \in others : Has(p)
    BY <1>5, <1>6
  <2>5. ASSUME NEW p, Has(p) PROVE p \in Archived \cup {Log, Meta} \cup others
    <3>1. PICK id \in Files : copy[id].path = p
      BY <2>5 DEF Has
    <3>2. CASE OfAnEntry(id)
      BY <3>1, <3>2, <1>1 DEF OfAnEntry, IsEntry
    <3>3. CASE OfAnother(id)
      <4>1. p \in {Log, Meta} \/ (copy[id].cid = 3 /\ p \in {MetaFile[1], MetaFile[2]})
        BY <3>1, <3>3 DEF OfAnother
      <4>2. copy[id].cid = 3 => Meta \notin ArchivedFiles
        BY <3>1, <2>2, <1>1 DEF Opened
      <4> QED BY <4>1, <4>2
    <3> QED BY <3>1, <3>2, <3>3, <1>1 DEF Registered
  <2> HIDE DEF others
  <2>6. \A p \in {Log, Meta} : Has(p)
    BY <1>5
  <2>7. \A p : p \in shown <=> p \in Archived \cup {Log, Meta} \cup others
    BY <1>4, <2>3, <2>4, <2>5, <2>6
  <2> QED BY <2>7
<1> QED BY <1>2, <1>3, <1>7

LEMMA ExtractsNamed ==
  ASSUME IInv
  PROVE  ExtractsWhatIsNamed
<1> SUFFICES ASSUME base = Root, extracted.id # 0, NEW id, id = extracted.id, NEW p, p = copy[id].path
             PROVE  /\ extracted.from \in {0, From!Lookup(p)}
                    /\ ~BelowLog => (extracted.from # 0) = (p \in ArchivedFiles)
  BY DEF ExtractsWhatIsNamed
<1>1. phase \in {"open", "listed"}
  BY DEF IInv, RootExported
<1>2. /\ FromP!IInv /\ ToP!IInv /\ ListSound /\ Registered /\ Opened /\ Read
      /\ \A k \in 2 .. at - 1 : /\ k \in DOMAIN list
                                /\ PathOf(k) \in Archived
                                /\ PathOf(k) \in ArchivedFiles <=> ~list[k].dir
      /\ ~BelowLog => \A q \in Archived : \E k \in 2 .. at - 1 : PathOf(k) = q
  BY <1>1, OpenedFacts
<1>3. id \in Files /\ extracted.from = ContentOf(id) /\ owner = 2
  BY <1>2 DEF Read, Opened
<1>4. CASE OfAnEntry(id)
  <2>1. PICK k \in 2 .. at - 1 : IsEntry(id, k)
    BY <1>4 DEF OfAnEntry
  <2>2. /\ p = PathOf(k) /\ copy[id].cid = 2 /\ copy[id].cfid = k
        /\ copy[id].directory = IsDir(k)
    BY <2>1, <1>3 DEF IsEntry
  <2>3. k \in DOMAIN list /\ list[k].vfs = From!Lookup(p) /\ list[k].vfs # 0
        /\ (p \in ArchivedFiles <=> ~list[k].dir)
    BY <2>2, <1>2, EntryFacts, TreeFacts
  <2>4. list[k].dir => ContentOf(id) = 0
    BY <2>2 DEF ContentOf
  <2>5. ~list[k].dir => ContentOf(id) = list[k].vfs
    BY <2>2 DEF ContentOf, IsDir
  <2>6. (extracted.from # 0) <=> (p \in ArchivedFiles)
    BY <1>3, <2>3, <2>4, <2>5
  <2> QED BY <1>3, <2>3, <2>4, <2>5, <2>6
<1>5. CASE OfAnother(id)
  <2>1. copy[id].cid # 2
    BY <1>5 DEF OfAnother
  <2>2. extracted.from = 0
    BY <1>3, <2>1 DEF ContentOf
  <2>3. ASSUME ~BelowLog, p \in Archived PROVE FALSE
    <3>1. PICK k \in 2 .. at - 1 : PathOf(k) = p
      BY <2>3, <1>2
    <3>2. PICK x \in Files : IsEntry(x, k)
      BY <1>2 DEF Registered, HasEntry
    <3>3. copy[x].path = p /\ copy[x].cid = 2
      BY <1>3, <3>1, <3>2 DEF IsEntry
    <3>4. x = id
      BY <3>3, <1>2, <1>3, CopyFacts DEF Files
    <3> QED BY <2>1, <3>3, <3>4
  <2>4. ~BelowLog => ~(p \in ArchivedFiles)
    BY <2>3 DEF ArchivedFiles
  <2>5. ~BelowLog => (extracted.from # 0) = (p \in ArchivedFiles)
    BY <2>2, <2>4
  <2> QED BY <2>2, <2>5
<1> QED BY <1>2, <1>3, <1>4, <1>5 DEF Registered

(* A file manager that asks for one file after another until there is none *)
(* has been shown what a client could reach and what the plugin adds, and  *)
(* extracts what the headers named.                                        *)
THEOREM ManagersSeeExports == ExtractionSpec => []ManagerSeesExport
<1>1. IInv => ManagerSeesExport
  BY HeadersShow, ExtractsNamed DEF ManagerSeesExport
<1> QED BY <1>1, ExtractionInvariant, PTL

(* RegisterStructureTable never meets what it does not check for when the  *)
(* archive is mounted alone: an entry whose path has a file already, whose *)
(* parent is no valid directory, or for which the table has no room.       *)
EntryCanBeRegistered ==
  phase = "mount" /\ owner = 1 /\ base = Root /\ at \in DOMAIN list =>
    To!Lookup(PathOf(at)) = 0 /\ CanAlloc(at)

THEOREM NoEntryIsRefused == ExtractionSpec => []EntryCanBeRegistered
<1>1. ASSUME IInv PROVE EntryCanBeRegistered
  <2> SUFFICES ASSUME phase = "mount", owner = 1, base = Root, at \in DOMAIN list
               PROVE  To!Lookup(PathOf(at)) = 0 /\ CanAlloc(at)
    BY DEF EntryCanBeRegistered
  <2>1. To!Lookup(PathOf(at)) = 0
    BY <1>1, OnlyLogIsThere
  <2>2. CanAlloc(at)
    BY <1>1, ParentRegistered DEF CanAlloc
  <2> QED BY <2>1, <2>2
<1> QED BY <1>1, ExtractionInvariant, PTL
=============================================================================
