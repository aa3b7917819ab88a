--------------------------- MODULE BlockStoreProofs ---------------------------
(***************************************************************************)
(* What holds of BlockStore for any blocks, sizes of files and number of   *)
(* crashes, as long as the index has not been built from the files: what   *)
(* it lists can be read, and pruning takes no block that is not pruned.    *)
(* When it is built from the files, it has every block that is whole.      *)
(***************************************************************************)
EXTENDS BlockStore, FiniteSetTheorems, NaturalsInduction, WellFoundedInduction, TLAPS

USE StoreAssumption

------------------------------------------------------------------------------
(* The inductive invariant.                                                *)

\* Records lie in what their file counts as used, and are whole if it is there.
RecordsFit ==
    \A h \in DOMAIN records :
        LET r == records[h] IN
        /\ r.file \in DOMAIN files
        /\ r.length = Size[h]
        /\ r.at + Size[h] <= files[r.file].used
        /\ r.file \in exists => IsAt(h, r.file, r.at)

\* The file that comes next is new.
FilesBelow == \A f \in DOMAIN files : f <= Last

Counted == \A f \in DOMAIN files : files[f].blocks = Cardinality(In(f))

\* A file that a prune has removed before it stopped had one record left.
Gone == \A f \in DOMAIN files \ exists : files[f].blocks = 1

Inv == TypeOK /\ RecordsFit /\ FilesBelow /\ Counted /\ Gone

IInv == ~rebuilt => Inv

------------------------------------------------------------------------------
(* Where a record goes.                                                    *)

LEMMA InFinite == ASSUME TypeOK, NEW f PROVE IsFiniteSet(In(f))
    BY FS_Subset DEF In, Listed, TypeOK

\* A record is written behind what is used and within the file.
LEMMA Room ==
    ASSUME TypeOK, NEW h \in Hash
    PROVE  /\ At(h) \in Nat /\ At(h) + Size[h] <= MaxFileLength
           /\ Last \in Nat /\ Last <= Target(h)
           /\ Touches(h) => At(h) = 0
           /\ ~Touches(h) => /\ Target(h) = Last /\ Target(h) \in DOMAIN files
                             /\ At(h) = files[Target(h)].used
<1>1. Last \in Nat
    BY DEF Last, TypeOK, FileNo, NoFile
<1>2. Size[h] \in 3 .. MaxFileLength /\ MaxFileLength \in Nat
    OBVIOUS
<1>3. CASE Touches(h)
    <2>1. At(h) = 0 /\ Last <= Target(h)
        BY <1>1, <1>3 DEF Target, At
    <2> QED
        BY <1>1, <1>2, <1>3, <2>1
<1>4. CASE ~Touches(h)
    <2>1. ~Full(h) /\ Last \in DOMAIN files
        BY <1>4 DEF Touches
    <2>2. Target(h) = Last /\ At(h) = Used(Last)
        BY <1>4, <2>1 DEF Target, At
    <2>3. Used(Last) = files[Last].used /\ files[Last].used \in Nat
        BY <2>1 DEF Used, TypeOK, FileRecord
    <2>4. Used(Last) + Size[h] <= MaxFileLength
        BY <1>2, <2>1, <2>3 DEF Full
    <2> QED
        BY <1>1, <1>4, <2>1, <2>2, <2>3, <2>4
<1> QED
    BY <1>3, <1>4

\* A file that is begun is one that nothing is listed in.
LEMMA Place ==
    ASSUME Inv, NEW h \in Hash, Target(h) \in FileNo
    PROVE  /\ At(h) \in Nat /\ At(h) + Size[h] <= MaxFileLength
           /\ Last \in Nat /\ Last <= Target(h)
           /\ Touches(h) => Target(h) \notin DOMAIN files /\ At(h) = 0
           /\ ~Touches(h) => /\ Target(h) = Last /\ Target(h) \in DOMAIN files
                             /\ At(h) = files[Target(h)].used
<1>1. TypeOK
    BY DEF Inv
<1>2. Last \in Nat
    BY <1>1, Room
<1>3. Full(h) => Target(h) \notin DOMAIN files
    BY <1>2 DEF Target, Inv, FilesBelow, TypeOK, FileNo
<1>4. ~Full(h) => Target(h) = Last
    BY DEF Target
<1>5. Touches(h) => Target(h) \notin DOMAIN files
    BY <1>3, <1>4 DEF Touches
<1> QED
    BY <1>1, <1>5, Room

\* Writing leaves the records that are listed alone.
LEMMA WrittenKeeps ==
    ASSUME Inv, NEW h \in Hash, Target(h) \in FileNo, NEW n \in 0 .. Size[h],
           NEW b \in DOMAIN records,
           records[b].file \in exists \cup {Target(h)},
           Touches(h) \/ Target(h) \in exists,
           cells' = Written(h, n)
    PROVE  \A i \in 1 .. Size[b] : cells'[records[b].file][records[b].at + i - 1] = <<b, i>>
<1> DEFINE r == records[b]
           f == Target(h)
<1>1. /\ b \in Hash /\ r \in BlockRecord /\ r.file \in FileNo /\ r.at \in Nat
      /\ r.file \in DOMAIN files /\ r.at + Size[b] <= files[r.file].used
      /\ files[r.file].used \in 0 .. MaxFileLength
    BY DEF Inv, TypeOK, RecordsFit, BlockRecord, FileRecord, Position
<1>2. Size[b] \in Nat /\ MaxFileLength \in Nat
    BY <1>1
<1>3. r.file \in exists
    BY <1>1, Place
<1>4. IsAt(b, r.file, r.at)
    BY <1>3 DEF Inv, RecordsFit
<1>5. \A i \in 1 .. Size[b] : r.at + i - 1 \in Position
    BY <1>1, <1>2 DEF Position
<1>6. \A i \in 1 .. Size[b] : cells'[r.file][r.at + i - 1] = cells[r.file][r.at + i - 1]
    <2>1. CASE r.file # f
        BY <1>1, <2>1 DEF Written, Inv, TypeOK
    <2>2. CASE r.file = f
        <3>1. ~Touches(h) /\ At(h) = files[f].used /\ At(h) \in Nat
            BY <1>1, <2>2, Place
        <3>2. ASSUME NEW i \in Position, i < At(h)
              PROVE  cells'[f][i] = cells[f][i]
            <4>1. cells'[f] = [j \in Position |->
                        IF j \in At(h) .. At(h) + n - 1 THEN <<h, j - At(h) + 1>> ELSE Before(h)[j]]
                BY <1>1, <2>2 DEF Written, Inv, TypeOK
            <4>2. Before(h) = cells[f]
                BY <3>1 DEF Before
            <4>3. i \notin At(h) .. At(h) + n - 1
                BY <3>1, <3>2
            <4> QED
                BY <3>2, <4>1, <4>2, <4>3
        <3>3. \A i \in 1 .. Size[b] : r.at + i - 1 < At(h)
            BY <1>1, <1>2, <2>2, <3>1
        <3> QED
            BY <1>5, <2>2, <3>2, <3>3
    <2> QED
        BY <2>1, <2>2
<1> QED
    BY <1>4, <1>6 DEF IsAt

\* What is written has the form of cells, and a whole record is there.
LEMMA WrittenThere ==
    ASSUME TypeOK, NEW h \in Hash, Target(h) \in FileNo, NEW n \in 0 .. Size[h]
    PROVE  /\ Written(h, n) \in [FileNo -> [Position -> Cells]]
           /\ n = Size[h] => \A i \in 1 .. Size[h] :
                Written(h, n)[Target(h)][At(h) + i - 1] = <<h, i>>
<1> DEFINE row == [i \in Position |->
            IF i \in At(h) .. At(h) + n - 1 THEN <<h, i - At(h) + 1>> ELSE Before(h)[i]]
<1>1. /\ At(h) \in Nat /\ At(h) + Size[h] <= MaxFileLength /\ MaxFileLength \in Nat
      /\ Size[h] \in 3 .. MaxFileLength
    BY Room
<1>2. Before(h) \in [Position -> Cells]
    BY DEF Before, Empty, Cells, TypeOK
<1>3. \A i \in Position : i \in At(h) .. At(h) + n - 1 => <<h, i - At(h) + 1>> \in Cells
    <2>1. \A i \in Position : i \in At(h) .. At(h) + n - 1 => i - At(h) + 1 \in 1 .. MaxFileLength
        BY <1>1 DEF Position
    <2> QED
        BY <2>1 DEF Cells
<1>4. row \in [Position -> Cells]
    BY <1>2, <1>3
<1>5. Written(h, n) = [cells EXCEPT ![Target(h)] = row]
    BY DEF Written
<1>6. Written(h, n) \in [FileNo -> [Position -> Cells]]
    BY <1>4, <1>5 DEF TypeOK
<1>7. ASSUME n = Size[h], NEW i \in 1 .. Size[h]
      PROVE  Written(h, n)[Target(h)][At(h) + i - 1] = <<h, i>>
    <2>1. Written(h, n)[Target(h)] = row
        BY <1>5 DEF TypeOK
    <2>2. At(h) + i - 1 \in Position /\ At(h) + i - 1 \in At(h) .. At(h) + n - 1
        BY <1>1, <1>7 DEF Position
    <2>3. (At(h) + i - 1) - At(h) + 1 = i
        BY <1>1
    <2> QED
        BY <2>1, <2>2, <2>3
<1> QED
    BY <1>6, <1>7

------------------------------------------------------------------------------
(* Types, also after the index was built from the files.                   *)

LEMMA EmptyTyped == Empty \in [Position -> Cells]
    BY DEF Empty, Cells

LEMMA InitTyped == Init => TypeOK
<1> SUFFICES ASSUME Init PROVE TypeOK
    OBVIOUS
<1>1. cells \in [FileNo -> [Position -> Cells]]
    BY EmptyTyped DEF Init
<1>2. DOMAIN files = {} /\ DOMAIN records = {}
    BY DEF Init
<1>3. crashes \in 0 .. MaxCrashes
    BY DEF Init
<1> QED
    BY <1>1, <1>2, <1>3 DEF Init, TypeOK

LEMMA WriteTyped ==
    ASSUME TypeOK, NEW h \in Hash, Write(h)
    PROVE  TypeOK'
<1>0. PICK f \in FileNo : f = Target(h)
    BY DEF Write, Writes
<1> DEFINE old == IF Touches(h) THEN [blocks |-> 0, used |-> 0] ELSE files[f]
<1>1. /\ exists' = exists \cup {f} /\ cells' = Written(h, Size[h])
      /\ DOMAIN files' = DOMAIN files \cup {f}
      /\ files'[f] = [blocks |-> old.blocks + 1, used |-> At(h) + Size[h]]
      /\ \A g \in DOMAIN files \ {f} : files'[g] = files[g]
      /\ lastFile' = f /\ UNCHANGED <<up, rebuilt, crashes>>
    BY <1>0 DEF Write, UsedAfter
<1>2. /\ DOMAIN records' = DOMAIN records \cup {h}
      /\ records'[h] = [file |-> f, at |-> At(h), length |-> Size[h]]
      /\ \A b \in DOMAIN records : records'[b] = records[b]
    BY <1>0 DEF Write, Writes
<1>3. Size[h] \in 3 .. MaxFileLength /\ MaxFileLength \in Nat /\ Size[h] \in 0 .. Size[h]
    OBVIOUS
<1>4. /\ At(h) \in Nat /\ At(h) + Size[h] <= MaxFileLength
      /\ ~Touches(h) => f \in DOMAIN files
    BY <1>0, Room
<1>5. cells' \in [FileNo -> [Position -> Cells]]
    BY <1>0, <1>1, <1>3, WrittenThere
<1>6. old.blocks \in Nat
    BY <1>4 DEF TypeOK, FileRecord
<1>7. files'[f] \in FileRecord
    BY <1>1, <1>3, <1>4, <1>6 DEF FileRecord
<1>8. \A g \in DOMAIN files' : files'[g] \in FileRecord
    BY <1>1, <1>7 DEF TypeOK
<1>9. records'[h] \in BlockRecord
    BY <1>2, <1>3, <1>4 DEF BlockRecord, Position
<1>10. \A b \in DOMAIN records' : records'[b] \in BlockRecord
    BY <1>2, <1>9 DEF TypeOK
<1> QED
    BY <1>1, <1>2, <1>5, <1>8, <1>10 DEF TypeOK

LEMMA StopTyped == ASSUME TypeOK, Stop PROVE crashes' \in 0 .. MaxCrashes /\ up' \in BOOLEAN
<1>1. MaxCrashes \in Nat
    OBVIOUS
<1>2. crashes \in 0 .. MaxCrashes /\ crashes < MaxCrashes /\ crashes' = crashes + 1
    BY DEF TypeOK, Stop
<1>3. crashes' \in 0 .. MaxCrashes
    BY <1>1, <1>2
<1>4. up' \in BOOLEAN
    BY DEF Stop
<1> QED
    BY <1>3, <1>4

LEMMA WriteCutTyped ==
    ASSUME TypeOK, NEW h \in Hash, NEW n \in 0 .. Size[h], WriteCut(h, n)
    PROVE  TypeOK'
<1>1. /\ Target(h) \in FileNo /\ exists' = exists \cup {Target(h)}
      /\ cells' = Written(h, n) /\ UNCHANGED <<files, records, lastFile, rebuilt>>
    BY DEF WriteCut, Writes, indexVars
<1>2. cells' \in [FileNo -> [Position -> Cells]] /\ exists' \subseteq FileNo
    BY <1>1, WrittenThere DEF TypeOK
<1>3. crashes' \in 0 .. MaxCrashes /\ up' \in BOOLEAN
    BY StopTyped DEF WriteCut
<1> QED
    BY <1>1, <1>2, <1>3 DEF TypeOK

LEMMA PruneTyped ==
    ASSUME TypeOK, NEW h \in Hash, Prune(h)
    PROVE  TypeOK'
<1>0. PICK f \in FileNo : f = records[h].file
    BY DEF Prune, Prunes, TypeOK
<1>1. /\ f \in DOMAIN files /\ records' = Without(records, h)
      /\ UNCHANGED <<lastFile, up, rebuilt, crashes>>
    BY <1>0 DEF Prune, Prunes
<1>2. DOMAIN records' \subseteq Hash /\ \A b \in DOMAIN records' : records'[b] \in BlockRecord
    BY <1>1 DEF Without, TypeOK
<1>3. CASE /\ exists' = exists \ {f}
           /\ cells' = [cells EXCEPT ![f] = Empty] /\ files' = Without(files, f)
    <2>1. cells' \in [FileNo -> [Position -> Cells]]
        BY <1>3, EmptyTyped DEF TypeOK
    <2>2. DOMAIN files' \subseteq FileNo /\ \A g \in DOMAIN files' : files'[g] \in FileRecord
        BY <1>3 DEF Without, TypeOK
    <2> QED
        BY <1>1, <1>2, <1>3, <2>1, <2>2 DEF TypeOK
<1>4. CASE /\ files[f].blocks > 0
           /\ files' = [files EXCEPT ![f].blocks = @ - 1] /\ UNCHANGED <<exists, cells>>
    <2>1. files[f] \in FileRecord
        BY <1>1 DEF TypeOK
    <2>2. /\ DOMAIN files' = DOMAIN files
          /\ files'[f] = [files[f] EXCEPT !.blocks = @ - 1]
          /\ \A g \in DOMAIN files \ {f} : files'[g] = files[g]
        BY <1>1, <1>4
    <2>3. files'[f] \in FileRecord
        BY <1>4, <2>1, <2>2 DEF FileRecord
    <2>4. DOMAIN files' \subseteq FileNo /\ \A g \in DOMAIN files' : files'[g] \in FileRecord
        BY <2>2, <2>3 DEF TypeOK
    <2> QED
        BY <1>1, <1>2, <1>4, <2>4 DEF TypeOK
<1> QED
    BY <1>0, <1>3, <1>4 DEF Prune

LEMMA PruneCutTyped ==
    ASSUME TypeOK, NEW h \in Hash, PruneCut(h)
    PROVE  TypeOK'
<1>0. PICK f \in FileNo : f = records[h].file
    BY DEF PruneCut, Prunes, TypeOK
<1>1. /\ exists' = exists \ {f} /\ cells' = [cells EXCEPT ![f] = Empty]
      /\ UNCHANGED <<files, records, lastFile, rebuilt>>
    BY <1>0 DEF PruneCut, indexVars
<1>2. cells' \in [FileNo -> [Position -> Cells]]
    BY <1>1, EmptyTyped DEF TypeOK
<1>3. crashes' \in 0 .. MaxCrashes /\ up' \in BOOLEAN
    BY StopTyped DEF PruneCut
<1> QED
    BY <1>1, <1>2, <1>3 DEF TypeOK

LEMMA RestTyped ==
    ASSUME TypeOK, Open \/ LoseIndex \/ UNCHANGED vars
    PROVE  TypeOK'
<1>1. CASE Open \/ UNCHANGED vars
    <2>1. UNCHANGED <<exists, cells, files, records, lastFile, rebuilt, crashes>> /\ up' \in BOOLEAN
        BY <1>1 DEF Open, vars, indexVars, TypeOK
    <2> QED
        BY <2>1 DEF TypeOK
<1>2. CASE LoseIndex
    <2>1. /\ DOMAIN files' = {} /\ DOMAIN records' = {} /\ lastFile' = NoFile
          /\ UNCHANGED <<exists, cells, rebuilt>>
        BY <1>2 DEF LoseIndex
    <2>2. Stop
        BY <1>2 DEF LoseIndex, Stop
    <2> QED
        BY <2>1, <2>2, StopTyped DEF TypeOK
<1> QED
    BY <1>1, <1>2

\* Of a bounded set of numbers one is the greatest.
Smaller == {ij \in Nat \X Nat : ij[1] < ij[2]}

LEMMA Greatest ==
    ASSUME NEW N \in Nat, NEW S \in SUBSET (0 .. N), S # {}
    PROVE  \E m \in S : \A x \in S : x <= m
<1> DEFINE T == {n \in Nat : \E x \in S : n = N - x}
<1>1. \A x \in S : x \in Nat /\ N - x \in Nat
    OBVIOUS
<1>2. T # {} /\ T \in SUBSET Nat
    BY <1>1
<1>3. IsWellFoundedOn(Smaller, Nat)
    <2>1. OpToRel(<, Nat) = Smaller
        BY DEF OpToRel, Smaller
    <2> QED
        BY <2>1, NatLessThanWellFounded
<1>4. PICK n \in T : \A k \in T : ~ (<<k, n>> \in Smaller)
    BY <1>2, <1>3, WFMin
<1>5. \A k \in T : ~ (k < n)
    <2> TAKE k \in T
    <2>1. <<k, n>> \in Nat \X Nat /\ <<k, n>>[1] = k /\ <<k, n>>[2] = n
        OBVIOUS
    <2> QED
        BY <1>4, <2>1 DEF Smaller
<1>6. PICK m \in S : n = N - m
    BY <1>2
<1>7. \A x \in S : x <= m
    <2> TAKE x \in S
    <2>1. N - x \in T
        BY <1>1
    <2>2. ~ (N - x < n)
        BY <1>5, <2>1
    <2> QED
        BY <1>1, <1>6, <2>2
<1> QED
    BY <1>7

LEMMA PositionFinite == IsFiniteSet(Position) /\ Cardinality(Position) = MaxFileLength
<1> DEFINE top == MaxFileLength - 1
<1>1. MaxFileLength \in Nat
    BY StoreAssumption
<1>2. top \in Int /\ 0 \in Int
    BY <1>1
<1> HIDE DEF top
<1>3. IsFiniteSet(0 .. top) /\ Cardinality(0 .. top) = IF 0 > top THEN 0 ELSE top - 0 + 1
    BY <1>2, FS_Interval
<1> QED
    BY <1>1, <1>3 DEF Position, top

LEMMA LengthTyped == ASSUME NEW f PROVE Length(f) \in Nat /\ Length(f) <= MaxFileLength
<1>1. {i \in Position : cells[f][i] # Blank} \subseteq Position
    OBVIOUS
<1> QED
    BY <1>1, PositionFinite, FS_Subset, FS_CardinalityType DEF Length

\* What the scan of a file counts.
LEMMA ScanTyped ==
    ASSUME TypeOK, NEW f \in exists, Scannable(f)
    PROVE  [blocks |-> Cardinality(Entries(f)), used |-> ScanEnds(f)] \in FileRecord
<1>1. MaxFileLength \in Nat
    BY StoreAssumption
<1>2. IsFiniteSet(Position)
    BY PositionFinite
<1>3. Entries(f) \subseteq Position
    BY DEF Entries, Found
<1>4. Cardinality(Entries(f)) \in Nat
    BY <1>2, <1>3, FS_Subset, FS_CardinalityType
<1>5. Length(f) \in Nat /\ Length(f) <= MaxFileLength
    BY LengthTyped
<1>6. ScanEnds(f) \in 0 .. MaxFileLength
    BY <1>1, <1>5 DEF ScanEnds, Scannable
<1> QED
    BY <1>4, <1>6 DEF FileRecord

\* What the scan of a file says of a record.
LEMMA RecordTyped ==
    ASSUME TypeOK, NEW f \in exists, NEW h \in HashesIn(f)
    PROVE  RecordIn(h, f) \in BlockRecord
<1> DEFINE found == {i \in Entries(f) : cells[f][i + 1] = <<h, 2>>}
           last  == CHOOSE i \in found : \A j \in found : j <= i
<1>1. MaxFileLength \in Nat
    BY StoreAssumption
<1>2. found # {} /\ found \subseteq Position
    BY DEF HashesIn, Entries, Found
<1>3. found \in SUBSET (0 .. MaxFileLength)
    BY <1>1, <1>2 DEF Position
<1>4. \E i \in found : \A j \in found : j <= i
    BY <1>1, <1>2, <1>3, Greatest
<1>5. PICK l \in found : l = last
    BY <1>4
<1>6. l \in Position /\ cells[f][l][2] = 1
    <2>1. l \in Found(f)
        BY <1>5 DEF Entries
    <2>2. PICK j \in 0 .. l : \A k \in j .. l : IsHead(f, k)
        BY <2>1 DEF Found
    <2>3. l \in j .. l
        BY <2>1 DEF Found, Position
    <2> QED
        BY <2>1, <2>2, <2>3 DEF Found, IsHead
<1>7. RecordIn(h, f) = [file |-> f, at |-> l, length |-> Size[cells[f][l][1]]]
    BY <1>5 DEF RecordIn
<1> HIDE DEF found, last
<1>8. cells[f][l] \in Cells /\ f \in FileNo
    <2>1. f \in FileNo /\ cells \in [FileNo -> [Position -> Cells]]
        BY DEF TypeOK
    <2> QED
        BY <1>6, <2>1
<1>9. cells[f][l][1] \in Hash
    BY <1>6, <1>8 DEF Cells, Blank
<1>10. Size[cells[f][l][1]] \in 3 .. MaxFileLength
    BY <1>9, StoreAssumption
<1> QED
    BY <1>6, <1>7, <1>8, <1>10 DEF BlockRecord

\* Some of the files are scanned, in some order.
LEMMA IndexTyped ==
    ASSUME TypeOK, NEW order \in Orders, NEW done \in SUBSET exists,
           \A f \in done : Scannable(f),
           files' = FilesAfter(done), records' = RecordsAfter(order, done)
    PROVE  /\ DOMAIN files' \subseteq FileNo /\ \A f \in DOMAIN files' : files'[f] \in FileRecord
           /\ DOMAIN records' \subseteq Hash
           /\ \A h \in DOMAIN records' : records'[h] \in BlockRecord
<1>1. IsFiniteSet(exists)
    <2>1. IsFiniteSet(0 .. MaxFile)
        BY FS_Interval
    <2> QED
        BY <2>1, FS_Subset DEF TypeOK, FileNo
<1>2. Cardinality(exists) \in Nat
    BY <1>1, FS_CardinalityType
<1>3. DOMAIN files' = DOMAIN files \cup done
    BY DEF FilesAfter
<1>4. ASSUME NEW f \in DOMAIN files' PROVE files'[f] \in FileRecord
    <2>1. CASE f \in done
        <3>1. files'[f] = [blocks |-> Cardinality(Entries(f)), used |-> ScanEnds(f)]
            BY <2>1 DEF FilesAfter
        <3> QED
            BY <2>1, <3>1, ScanTyped
    <2>2. CASE f \notin done
        <3>1. f \in DOMAIN files /\ files'[f] = files[f]
            BY <1>3, <2>2 DEF FilesAfter
        <3> QED
            BY <3>1 DEF TypeOK
    <2> QED
        BY <2>1, <2>2
<1>5. DOMAIN records' = DOMAIN records \cup UNION {HashesIn(f) : f \in done}
    BY DEF RecordsAfter
<1>6. ASSUME NEW h \in DOMAIN records' PROVE records'[h] \in BlockRecord
    <2> DEFINE in == {f \in done : h \in HashesIn(f)}
               latest == CHOOSE f \in in : \A g \in in : order[g] <= order[f]
    <2>1. records'[h] = IF in = {} THEN records[h] ELSE RecordIn(h, latest)
        BY <1>5 DEF RecordsAfter
    <2>2. CASE in = {}
        <3>1. h \in DOMAIN records
            BY <1>5, <2>2
        <3> QED
            BY <2>1, <2>2, <3>1 DEF TypeOK
    <2>3. CASE in # {}
        <3> DEFINE at == {order[f] : f \in in}
        <3>1. \A f \in in : order[f] \in 0 .. Cardinality(exists)
            BY <1>2 DEF Orders
        <3>2. at # {} /\ at \in SUBSET (0 .. Cardinality(exists))
            BY <2>3, <3>1
        <3>3. PICK m \in at : \A x \in at : x <= m
            BY <1>2, <3>2, Greatest
        <3>4. \E f \in in : \A g \in in : order[g] <= order[f]
            BY <3>3
        <3>5. latest \in in
            BY <3>4
        <3> QED
            BY <2>1, <2>3, <3>5, RecordTyped
    <2> QED
        BY <2>2, <2>3
<1>7. DOMAIN records' \subseteq Hash
    BY <1>5 DEF HashesIn, TypeOK
<1> QED
    BY <1>3, <1>4, <1>6, <1>7 DEF TypeOK

LEMMA RebuildTyped ==
    ASSUME TypeOK, Rebuild \/ RebuildCut
    PROVE  TypeOK'
<1>1. UNCHANGED <<exists, cells, lastFile>> /\ rebuilt' = TRUE
    BY DEF Rebuild, RebuildCut
<1>2. \E order \in Orders, done \in SUBSET exists :
        /\ \A f \in done : Scannable(f)
        /\ files' = FilesAfter(done) /\ records' = RecordsAfter(order, done)
    <2>1. CASE Rebuild
        BY <2>1 DEF Rebuild
    <2>2. CASE RebuildCut
        <3>1. PICK order \in Orders, n \in 1 .. Cardinality(exists) - 1 :
                /\ \A f \in ScannedFirst(order, n) : Scannable(f)
                /\ files' = FilesAfter(ScannedFirst(order, n))
                /\ records' = RecordsAfter(order, ScannedFirst(order, n))
            BY <2>2 DEF RebuildCut
        <3>2. ScannedFirst(order, n) \in SUBSET exists
            BY DEF ScannedFirst
        <3> QED
            BY <3>1, <3>2
    <2> QED
        BY <2>1, <2>2
<1>3. /\ DOMAIN files' \subseteq FileNo /\ \A f \in DOMAIN files' : files'[f] \in FileRecord
      /\ DOMAIN records' \subseteq Hash /\ \A h \in DOMAIN records' : records'[h] \in BlockRecord
    BY <1>2, IndexTyped
<1>4. crashes' \in 0 .. MaxCrashes /\ up' \in BOOLEAN
    BY StopTyped DEF Rebuild, RebuildCut, TypeOK
<1> QED
    BY <1>1, <1>3, <1>4 DEF TypeOK

LEMMA TypedStep == TypeOK /\ [Next]_vars => TypeOK'
    BY WriteTyped, WriteCutTyped, PruneTyped, PruneCutTyped, RestTyped, RebuildTyped DEF Next

------------------------------------------------------------------------------
(* The steps.                                                              *)

LEMMA InitInv == Init => IInv
<1> SUFFICES ASSUME Init PROVE Inv
    BY DEF IInv
<1>1. RecordsFit /\ FilesBelow /\ Counted /\ Gone
    BY DEF Init, RecordsFit, FilesBelow, Counted, Gone
<1> QED
    BY <1>1, InitTyped DEF Inv

LEMMA WriteCutInv ==
    ASSUME Inv, NEW h \in Hash, NEW n \in 0 .. Size[h], WriteCut(h, n)
    PROVE  Inv'
<1>1. /\ Target(h) \in FileNo /\ exists' = exists \cup {Target(h)}
      /\ cells' = Written(h, n) /\ UNCHANGED indexVars
      /\ Touches(h) \/ Target(h) \in exists
    BY DEF WriteCut, Writes
<1>2. UNCHANGED <<files, records, lastFile, Last>>
    BY <1>1 DEF indexVars, Last
<1>3. TypeOK'
    BY WriteCutTyped DEF Inv
<1>4. RecordsFit'
    <2> SUFFICES ASSUME NEW b \in DOMAIN records, records[b].file \in exists'
                 PROVE  IsAt(b, records[b].file, records[b].at)'
        BY <1>2 DEF Inv, RecordsFit
    <2>1. \A i \in 1 .. Size[b] : cells'[records[b].file][records[b].at + i - 1] = <<b, i>>
        BY <1>1, WrittenKeeps
    <2>2. records[b].at + Size[b] <= MaxFileLength
        BY DEF Inv, RecordsFit, TypeOK, FileRecord, BlockRecord, Position
    <2> QED
        BY <1>2, <2>1, <2>2 DEF IsAt
<1>5. FilesBelow' /\ Counted' /\ Gone'
    BY <1>1, <1>2 DEF Inv, FilesBelow, Counted, Gone, In, Listed
<1> QED
    BY <1>3, <1>4, <1>5 DEF Inv

LEMMA WriteInv ==
    ASSUME Inv, NEW h \in Hash, Write(h)
    PROVE  Inv'
<1>0. PICK f \in FileNo : f = Target(h)
    BY DEF Write, Writes
<1> DEFINE old == IF Touches(h) THEN [blocks |-> 0, used |-> 0] ELSE files[f]
<1>1. /\ f \in FileNo /\ exists' = exists \cup {f} /\ cells' = Written(h, Size[h])
      /\ Touches(h) \/ f \in exists
      /\ h \notin DOMAIN records
      /\ lastFile' = f /\ UNCHANGED <<up, rebuilt, crashes>>
    BY <1>0 DEF Write, Writes
<1>2. /\ DOMAIN files' = DOMAIN files \cup {f}
      /\ files'[f] = [blocks |-> old.blocks + 1, used |-> At(h) + Size[h]]
      /\ \A g \in DOMAIN files \ {f} : files'[g] = files[g]
    BY <1>0 DEF Write, UsedAfter
<1>3. /\ DOMAIN records' = DOMAIN records \cup {h}
      /\ records'[h] = [file |-> f, at |-> At(h), length |-> Size[h]]
      /\ \A b \in DOMAIN records : records'[b] = records[b]
    BY <1>0, <1>1 DEF Write
<1>4. /\ At(h) \in Nat /\ At(h) + Size[h] <= MaxFileLength /\ Last <= f /\ Last \in Nat
      /\ Touches(h) => f \notin DOMAIN files /\ At(h) = 0
      /\ ~Touches(h) => f \in DOMAIN files /\ At(h) = files[f].used
    BY <1>0, Place
<1>5. Size[h] \in 3 .. MaxFileLength /\ MaxFileLength \in Nat /\ Size[h] \in 0 .. Size[h]
    OBVIOUS
<1>6. old.blocks \in Nat
    BY <1>4 DEF Inv, TypeOK, FileRecord
<1>7. TypeOK'
    BY WriteTyped DEF Inv
<1>8. RecordsFit'
    <2>1. ASSUME NEW b \in DOMAIN records
          PROVE  /\ records[b].file \in DOMAIN files' /\ records[b].length = Size[b]
                 /\ records[b].at + Size[b] <= files'[records[b].file].used
                 /\ records[b].file \in exists' => IsAt(b, records[b].file, records[b].at)'
        <3>1. /\ records[b].file \in DOMAIN files /\ records[b].length = Size[b]
              /\ records[b].at + Size[b] <= files[records[b].file].used
              /\ records[b].at \in Nat /\ Size[b] \in Nat
              /\ files[records[b].file].used \in 0 .. MaxFileLength
            BY DEF Inv, RecordsFit, TypeOK, BlockRecord, FileRecord, Position
        <3>2. files[records[b].file].used <= files'[records[b].file].used
            BY <1>2, <1>4, <1>5, <3>1
        <3>3. files'[records[b].file].used \in Nat
            BY <1>2, <1>4, <1>5, <3>1
        <3>4. ASSUME records[b].file \in exists'
              PROVE  IsAt(b, records[b].file, records[b].at)'
            <4>1. \A i \in 1 .. Size[b] :
                    cells'[records[b].file][records[b].at + i - 1] = <<b, i>>
                <5>1. /\ Target(h) \in FileNo
                      /\ Touches(h) \/ Target(h) \in exists
                      /\ records[b].file \in exists \cup {Target(h)}
                    BY <1>0, <1>1, <3>4
                <5>2. cells' = Written(h, Size[h])
                    BY <1>1
                <5>3. Size[h] \in 0 .. Size[h]
                    BY <1>5
                <5> QED
                    BY <5>1, <5>2, <5>3, WrittenKeeps
            <4>2. records[b].at + Size[b] <= MaxFileLength
                <5>1. MaxFileLength \in Nat
                    BY StoreAssumption
                <5> QED
                    BY <3>1, <5>1
            <4> QED
                BY <1>3, <4>1, <4>2 DEF IsAt
        <3> QED
            BY <1>2, <3>1, <3>2, <3>3, <3>4
    <2>2. IsAt(h, records[h].file, records[h].at)'
        <3>1. \A i \in 1 .. Size[h] : cells'[f][At(h) + i - 1] = <<h, i>>
            BY <1>0, <1>1, <1>5, WrittenThere DEF Inv
        <3>2. records'[h].file = f /\ records'[h].at = At(h)
            BY <1>3
        <3> QED
            BY <1>4, <3>1, <3>2 DEF IsAt
    <2>3. /\ records'[h].file \in DOMAIN files' /\ records'[h].length = Size[h]
          /\ records'[h].at + Size[h] <= files'[records'[h].file].used
        BY <1>2, <1>3, <1>4, <1>5
    <2>4. ASSUME NEW b \in DOMAIN records'
          PROVE  /\ records'[b].file \in DOMAIN files' /\ records'[b].length = Size[b]
                 /\ records'[b].at + Size[b] <= files'[records'[b].file].used
                 /\ records'[b].file \in exists' => IsAt(b, records[b].file, records[b].at)'
        <3>1. CASE b = h
            BY <2>2, <2>3, <3>1
        <3>2. CASE b # h
            BY <1>3, <2>1, <3>2
        <3> QED
            BY <3>1, <3>2
    <2> QED
        BY <2>4 DEF RecordsFit
<1>9. FilesBelow'
    <2>1. Last' = f
        BY <1>1 DEF Last, NoFile, FileNo
    <2> QED
        BY <1>1, <1>2, <1>4, <2>1 DEF Inv, FilesBelow, TypeOK, FileNo
<1>10. Counted'
    <2>1. ASSUME NEW g \in FileNo, g # f PROVE In(g)' = In(g)
        BY <1>3, <2>1 DEF In, Listed
    <2>2. In(f)' = In(f) \cup {h} /\ h \notin In(f)
        BY <1>1, <1>3 DEF In, Listed
    <2>3. IsFiniteSet(In(f))
        BY InFinite DEF Inv
    <2>4. Cardinality(In(f)') = Cardinality(In(f)) + 1
        BY <2>2, <2>3, FS_AddElement
    <2>5. old.blocks = Cardinality(In(f))
        <3>1. CASE Touches(h)
            <4>1. In(f) = {}
                BY <1>4, <3>1 DEF In, Listed, Inv, RecordsFit
            <4> QED
                BY <3>1, <4>1, FS_EmptySet
        <3>2. CASE ~Touches(h)
            BY <1>4, <3>2 DEF Inv, Counted
        <3> QED
            BY <3>1, <3>2
    <2>6. files'[f].blocks = Cardinality(In(f)')
        BY <1>2, <2>4, <2>5
    <2>7. ASSUME NEW g \in DOMAIN files, g # f PROVE files'[g].blocks = Cardinality(In(g)')
        BY <1>2, <2>1, <2>7 DEF Inv, Counted, TypeOK
    <2> QED
        BY <1>2, <2>6, <2>7 DEF Counted
<1>11. Gone'
    BY <1>1, <1>2 DEF Inv, Gone
<1> QED
    BY <1>7, <1>8, <1>9, <1>10, <1>11 DEF Inv

LEMMA PruneInv ==
    ASSUME Inv, NEW h \in Hash, Prune(h)
    PROVE  Inv'
<1>0. PICK f \in FileNo : f = records[h].file
    BY DEF Prune, Prunes, Inv, TypeOK
<1>1. /\ h \in DOMAIN records /\ f \in DOMAIN files /\ f \in FileNo
      /\ records' = Without(records, h) /\ UNCHANGED <<lastFile, up, rebuilt, crashes>>
    BY <1>0 DEF Prune, Prunes, Inv, TypeOK
<1>2. DOMAIN records' = DOMAIN records \ {h} /\ \A b \in DOMAIN records' : records'[b] = records[b]
    BY <1>1 DEF Without
<1>3. \A g \in FileNo : In(g)' = In(g) \ {h}
    BY <1>2 DEF In, Listed
<1>4. h \in In(f) /\ IsFiniteSet(In(f)) /\ files[f].blocks = Cardinality(In(f))
    BY <1>0, <1>1, InFinite DEF In, Listed, Inv, Counted
<1>5. Last' = Last
    BY <1>1 DEF Last
<1>6. \A g \in FileNo \ {f} : In(g)' = In(g)
    BY <1>0, <1>3 DEF In
<1>7. \A b \in DOMAIN records' : records'[b] \in BlockRecord
    BY <1>2 DEF Inv, TypeOK
<1>8. CASE /\ LastOne(f) /\ f \in exists /\ exists' = exists \ {f}
           /\ cells' = [cells EXCEPT ![f] = Empty] /\ files' = Without(files, f)
    <2>1. DOMAIN files' = DOMAIN files \ {f} /\ \A g \in DOMAIN files' : files'[g] = files[g]
        BY <1>8 DEF Without
    <2>2. In(f) = {h}
        <3>1. Cardinality(In(f)) = 1
            BY <1>4, <1>8 DEF LastOne
        <3> QED
            BY <1>4, <3>1, FS_Singleton
    <2>3. \A b \in DOMAIN records' : records'[b].file \in DOMAIN files /\ records'[b].file # f
        BY <1>2, <2>2 DEF In, Listed, Inv, RecordsFit
    <2>4. \A g \in FileNo \ {f} : cells'[g] = cells[g]
        BY <1>8 DEF Inv, TypeOK
    <2>5. TypeOK'
        BY PruneTyped DEF Inv
    <2>6. RecordsFit'
        <3> SUFFICES ASSUME NEW b \in DOMAIN records'
                     PROVE  /\ records'[b].file \in DOMAIN files' /\ records'[b].length = Size[b]
                            /\ records'[b].at + Size[b] <= files'[records'[b].file].used
                            /\ records'[b].file \in exists' =>
                                IsAt(b, records[b].file, records[b].at)'
            BY DEF RecordsFit
        <3>1. /\ b \in DOMAIN records /\ records'[b] = records[b]
              /\ records[b].file \in DOMAIN files' /\ records[b].file # f
              /\ files'[records[b].file] = files[records[b].file]
            <4>1. b \in DOMAIN records /\ records'[b] = records[b]
                BY <1>2
            <4>2. records[b].file \in DOMAIN files /\ records[b].file # f
                BY <2>3, <4>1
            <4> QED
                BY <2>1, <4>1, <4>2
        <3>2. records[b].file \in FileNo /\ cells'[records[b].file] = cells[records[b].file]
            BY <2>4, <3>1 DEF Inv, TypeOK, BlockRecord
        <3>3. records[b].file \in exists' => IsAt(b, records[b].file, records[b].at)
            BY <1>8, <3>1 DEF Inv, RecordsFit
        <3>4. records[b].file \in exists' => IsAt(b, records[b].file, records[b].at)'
            BY <3>1, <3>2, <3>3 DEF IsAt
        <3> QED
            BY <3>1, <3>4 DEF Inv, RecordsFit
    <2>7. FilesBelow' /\ Gone'
        BY <1>5, <1>8, <2>1 DEF Inv, FilesBelow, Gone
    <2>8. Counted'
        BY <1>6, <2>1 DEF Inv, Counted, TypeOK
    <2> QED
        BY <2>5, <2>6, <2>7, <2>8 DEF Inv
<1>9. CASE /\ ~LastOne(f) /\ files[f].blocks > 0
           /\ files' = [files EXCEPT ![f].blocks = @ - 1] /\ UNCHANGED <<exists, cells>>
    <2>1. /\ DOMAIN files' = DOMAIN files /\ files[f] \in FileRecord
          /\ files'[f].blocks = files[f].blocks - 1 /\ files'[f].used = files[f].used
          /\ files'[f] = [files[f] EXCEPT !.blocks = @ - 1]
          /\ \A g \in DOMAIN files \ {f} : files'[g] = files[g]
        BY <1>1, <1>9 DEF Inv, TypeOK, FileRecord
    <2>2. files'[f] \in FileRecord
        BY <1>9, <2>1 DEF FileRecord
    <2>3. TypeOK'
        BY PruneTyped DEF Inv
    <2>4. RecordsFit'
        <3> SUFFICES ASSUME NEW b \in DOMAIN records'
                     PROVE  /\ records'[b].file \in DOMAIN files' /\ records'[b].length = Size[b]
                            /\ records'[b].at + Size[b] <= files'[records'[b].file].used
                            /\ records'[b].file \in exists' =>
                                IsAt(b, records[b].file, records[b].at)'
            BY DEF RecordsFit
        <3>1. b \in DOMAIN records /\ records'[b] = records[b]
            BY <1>2
        <3>2. files'[records[b].file].used = files[records[b].file].used
            BY <2>1, <3>1 DEF Inv, RecordsFit
        <3>3. records[b].file \in exists => IsAt(b, records[b].file, records[b].at)
            BY <3>1 DEF Inv, RecordsFit
        <3>4. records[b].file \in exists' => IsAt(b, records[b].file, records[b].at)'
            BY <1>9, <3>1, <3>3 DEF IsAt
        <3> QED
            BY <2>1, <3>1, <3>2, <3>4 DEF Inv, RecordsFit
    <2>5. FilesBelow'
        BY <1>5, <2>1 DEF Inv, FilesBelow
    <2>6. Gone'
        <3>1. f \in exists
            BY <1>1, <1>9 DEF Inv, Gone, LastOne
        <3> QED
            BY <1>9, <2>1, <3>1 DEF Inv, Gone
    <2>7. Counted'
        <3>1. Cardinality(In(f)') = Cardinality(In(f)) - 1
            BY <1>3, <1>4, FS_RemoveElement
        <3> QED
            BY <1>4, <1>6, <2>1, <3>1 DEF Inv, Counted, TypeOK
    <2> QED
        BY <2>3, <2>4, <2>5, <2>6, <2>7 DEF Inv
<1> QED
    BY <1>0, <1>8, <1>9 DEF Prune

LEMMA PruneCutInv ==
    ASSUME Inv, NEW h \in Hash, PruneCut(h)
    PROVE  Inv'
<1>0. PICK f \in FileNo : f = records[h].file
    BY DEF PruneCut, Prunes, Inv, TypeOK
<1>1. /\ f \in DOMAIN files /\ f \in FileNo /\ files[f].blocks = 1
      /\ exists' = exists \ {f} /\ cells' = [cells EXCEPT ![f] = Empty]
      /\ UNCHANGED <<files, records, lastFile, rebuilt>>
    BY <1>0 DEF PruneCut, Prunes, LastOne, indexVars, Inv, TypeOK
<1>2. TypeOK'
    BY PruneCutTyped DEF Inv
<1>3. RecordsFit'
    <2>1. \A g \in FileNo \ {f} : cells'[g] = cells[g]
        BY <1>1 DEF Inv, TypeOK
    <2> SUFFICES ASSUME NEW b \in DOMAIN records, records[b].file \in exists'
                 PROVE  IsAt(b, records[b].file, records[b].at)'
        BY <1>1 DEF Inv, RecordsFit
    <2>2. records[b].file # f /\ records[b].file \in exists /\ records[b].file \in FileNo
        BY <1>1 DEF Inv, TypeOK, BlockRecord
    <2>3. IsAt(b, records[b].file, records[b].at)
        BY <2>2 DEF Inv, RecordsFit
    <2> QED
        BY <1>1, <2>1, <2>2, <2>3 DEF IsAt
<1>4. FilesBelow' /\ Counted' /\ Gone'
    BY <1>1 DEF Inv, FilesBelow, Counted, Gone, Last, In, Listed
<1> QED
    BY <1>2, <1>3, <1>4 DEF Inv

LEMMA RestInv ==
    ASSUME Inv, Open \/ LoseIndex \/ UNCHANGED vars
    PROVE  Inv'
<1>1. TypeOK'
    BY RestTyped DEF Inv
<1>2. CASE Open \/ UNCHANGED vars
    <2>1. UNCHANGED <<exists, cells, files, records, lastFile>>
        BY <1>2 DEF Open, vars, indexVars
    <2> QED
        BY <1>1, <2>1 DEF Inv, RecordsFit, IsAt, FilesBelow, Last, Counted, In, Listed, Gone
<1>3. CASE LoseIndex
    <2>1. DOMAIN files' = {} /\ DOMAIN records' = {} /\ UNCHANGED exists
        BY <1>3 DEF LoseIndex
    <2> QED
        BY <1>1, <2>1 DEF Inv, RecordsFit, FilesBelow, Counted, Gone
<1> QED
    BY <1>2, <1>3

------------------------------------------------------------------------------
(* What files hold, and what a scan finds in them.                         *)

\* A file consists of whole records up to a place.  Behind it is what is left of writes
\* that were cut short: of those that began there, and the cells after the third of those
\* that began before, as a shorter record was written over them.
Laid(f, used) ==
    /\ \A i \in Position : i < used =>
          \E h \in Hash, at \in Position :
              at <= i /\ i < at + Size[h] /\ at + Size[h] <= used /\ IsAt(h, f, at)
    /\ \A i \in Position : i >= used =>
          \/ cells[f][i] = Blank
          \/ cells[f][i][2] = i - used + 1
          \/ cells[f][i][2] > 3

\* All files are like that, those the index knows up to where they are used.
FilesLaid ==
    \A f \in exists : \E used \in 0 .. MaxFileLength :
        Laid(f, used) /\ (f \in DOMAIN files => used = files[f].used)

\* A file that is not touched stays as it is.
LEMMA LaidSame ==
    ASSUME NEW f, NEW used, cells'[f] = cells[f], Laid(f, used)
    PROVE  Laid(f, used)'
<1>1. \A h \in Hash, at \in Position : IsAt(h, f, at) => IsAt(h, f, at)'
    BY DEF IsAt
<1>2. \A i \in Position : i < used =>
          \E h \in Hash, at \in Position :
              at <= i /\ i < at + Size[h] /\ at + Size[h] <= used /\ IsAt(h, f, at)'
    BY <1>1 DEF Laid
<1>3. \A i \in Position : i >= used =>
          cells'[f][i] = Blank \/ cells'[f][i][2] = i - used + 1 \/ cells'[f][i][2] > 3
    BY DEF Laid
<1> QED
    BY <1>2, <1>3 DEF Laid

\* The cells of the file that is written.
LEMMA WrittenCells ==
    ASSUME TypeOK, NEW h \in Hash, Target(h) \in FileNo, NEW n \in 0 .. Size[h],
           cells' = Written(h, n), Touches(h) \/ Laid(Target(h), At(h))
    PROVE  /\ \A i \in Position : i < At(h) =>
                 ~Touches(h) /\ cells'[Target(h)][i] = cells[Target(h)][i]
           /\ \A i \in Position : i >= At(h) =>
                 \/ cells'[Target(h)][i] = Blank
                 \/ cells'[Target(h)][i][2] = i - At(h) + 1
                 \/ cells'[Target(h)][i][2] > 3
<1> DEFINE f == Target(h)
<1>1. At(h) \in Nat /\ n \in Nat /\ (Touches(h) => At(h) = 0)
    BY Room
<1>2. cells'[f] = [i \in Position |->
            IF i \in At(h) .. At(h) + n - 1 THEN <<h, i - At(h) + 1>> ELSE Before(h)[i]]
    BY DEF Written, TypeOK
<1>3. ASSUME NEW i \in Position, i < At(h)
      PROVE  ~Touches(h) /\ cells'[f][i] = cells[f][i]
    <2>1. i \in Int /\ i >= 0
        BY DEF Position
    <2>2. ~Touches(h) /\ i \notin At(h) .. At(h) + n - 1
        BY <1>1, <1>3, <2>1
    <2>3. Before(h) = cells[f]
        BY <2>2 DEF Before
    <2> QED
        BY <1>2, <2>2, <2>3
<1>4. ASSUME NEW i \in Position, i >= At(h)
      PROVE  \/ cells'[f][i] = Blank
             \/ cells'[f][i][2] = i - At(h) + 1
             \/ cells'[f][i][2] > 3
    <2>1. CASE i \in At(h) .. At(h) + n - 1
        BY <1>2, <2>1
    <2>2. CASE i \notin At(h) .. At(h) + n - 1
        <3>1. cells'[f][i] = Before(h)[i]
            BY <1>2, <2>2
        <3>2. CASE Touches(h)
            BY <3>1, <3>2 DEF Before, Empty
        <3>3. CASE ~Touches(h)
            BY <1>4, <3>1, <3>3 DEF Before, Laid
        <3> QED
            BY <3>2, <3>3
    <2> QED
        BY <2>1, <2>2
<1> QED
    BY <1>3, <1>4

\* A write that was cut short leaves the records before it, a complete one adds one.
LEMMA WrittenLaid ==
    ASSUME TypeOK, NEW h \in Hash, NEW f \in FileNo, f = Target(h),
           NEW at \in Nat, at = At(h), NEW n \in 0 .. Size[h],
           cells' = Written(h, n), Touches(h) \/ Laid(f, at)
    PROVE  /\ Laid(f, at)'
           /\ n = Size[h] => Laid(f, at + Size[h])'
<1>1. f = Target(h) /\ at = At(h)
    OBVIOUS
<1>2. /\ \A i \in Position : i < at => ~Touches(h) /\ cells'[f][i] = cells[f][i]
      /\ \A i \in Position : i >= at =>
            cells'[f][i] = Blank \/ cells'[f][i][2] = i - at + 1 \/ cells'[f][i][2] > 3
    BY <1>1, WrittenCells
<1>3. Size \in [Hash -> 3 .. MaxFileLength] /\ MaxFileLength \in Nat
      /\ at + Size[h] <= MaxFileLength
    BY <1>1, Room
<1>4. ASSUME NEW i \in Position, i < at
      PROVE  \E b \in Hash, s \in Position :
                s <= i /\ i < s + Size[b] /\ s + Size[b] <= at /\ IsAt(b, f, s)'
    <2>1. Laid(f, at)
        BY <1>1, <1>2, <1>4
    <2>2. PICK b \in Hash, s \in Position :
            s <= i /\ i < s + Size[b] /\ s + Size[b] <= at /\ IsAt(b, f, s)
        BY <1>4, <2>1 DEF Laid
    <2>3. \A k \in 1 .. Size[b] : cells'[f][s + k - 1] = cells[f][s + k - 1]
        <3> TAKE k \in 1 .. Size[b]
        <3>1. s + k - 1 \in Position /\ s + k - 1 < at
            BY <1>3, <2>2 DEF Position
        <3> QED
            BY <1>2, <3>1
    <2>4. IsAt(b, f, s)'
        BY <2>2, <2>3 DEF IsAt
    <2> QED
        BY <2>2, <2>4
<1>5. Laid(f, at)'
    BY <1>2, <1>4 DEF Laid
<1>6. ASSUME n = Size[h] PROVE Laid(f, at + Size[h])'
    <2> DEFINE used == at + Size[h]
    <2>1. IsAt(h, f, at)'
        <3>1. \A k \in 1 .. Size[h] : cells'[f][at + k - 1] = <<h, k>>
            BY <1>1, <1>6, WrittenThere
        <3> QED
            BY <1>3, <3>1 DEF IsAt
    <2>2. ASSUME NEW i \in Position, i < used
          PROVE  \E b \in Hash, s \in Position :
                    s <= i /\ i < s + Size[b] /\ s + Size[b] <= used /\ IsAt(b, f, s)'
        <3>1. CASE i < at
            <4>1. PICK b \in Hash, s \in Position :
                    s <= i /\ i < s + Size[b] /\ s + Size[b] <= at /\ IsAt(b, f, s)'
                BY <1>4, <3>1
            <4>2. s + Size[b] <= used
                BY <1>3, <4>1 DEF Position
            <4> QED
                BY <4>1, <4>2
        <3>2. CASE at <= i
            <4>1. at \in Position
                BY <1>3, <3>2 DEF Position
            <4> QED
                BY <2>1, <2>2, <3>2, <4>1
        <3>3. i \in Int
            BY DEF Position
        <3> QED
            BY <3>1, <3>2, <3>3
    <2>3. ASSUME NEW i \in Position, i >= used
          PROVE  cells'[f][i] = Blank \/ cells'[f][i][2] = i - used + 1 \/ cells'[f][i][2] > 3
        <3>1. i \in Int /\ i >= at /\ i - at + 1 > 3
            BY <1>3, <2>3 DEF Position
        <3> QED
            BY <1>2, <3>1
    <2> QED
        BY <2>2, <2>3 DEF Laid
<1> QED
    BY <1>5, <1>6

LEMMA WriteLaid ==
    ASSUME Inv, FilesLaid, NEW h \in Hash, NEW n \in 0 .. Size[h], Writes(h),
           cells' = Written(h, n), exists' = exists \cup {Target(h)},
           \A g \in DOMAIN files' \ {Target(h)} : g \in DOMAIN files /\ files'[g] = files[g],
           \/ n = Size[h] /\ files'[Target(h)].used = At(h) + Size[h]
           \/ files' = files
    PROVE  FilesLaid'
<1>1. PICK f \in FileNo : f = Target(h) /\ (Touches(h) \/ f \in exists)
    BY DEF Writes
<1>2. /\ Touches(h) => f \notin DOMAIN files
      /\ ~Touches(h) => f \in DOMAIN files /\ At(h) = files[f].used
      /\ At(h) \in 0 .. MaxFileLength
    <2>1. MaxFileLength \in Nat /\ Size[h] \in 3 .. MaxFileLength
        OBVIOUS
    <2> QED
        BY <1>1, <2>1, Place
<1>3. PICK at \in 0 .. MaxFileLength : at = At(h)
    BY <1>2
<1>4. Laid(f, at)' /\ (n = Size[h] => Laid(f, at + Size[h])')
    <2>1. Touches(h) \/ Laid(f, at)
        BY <1>1, <1>2, <1>3 DEF FilesLaid
    <2> QED
        BY <1>1, <1>3, <2>1, WrittenLaid DEF Inv
<1>5. \E used \in 0 .. MaxFileLength :
        Laid(f, used)' /\ (f \in DOMAIN files' => used = files'[f].used)
    <2>1. CASE n = Size[h] /\ files'[Target(h)].used = At(h) + Size[h]
        <3>1. PICK used \in 0 .. MaxFileLength : used = at + Size[h]
            <4>1. MaxFileLength \in Nat /\ Size[h] \in 3 .. MaxFileLength
                OBVIOUS
            <4> QED
                BY <1>1, <1>3, <4>1, Room DEF Inv
        <3> QED
            BY <1>1, <1>3, <1>4, <2>1, <3>1
    <2>2. CASE files' = files
        BY <1>2, <1>3, <1>4, <2>2
    <2> QED
        BY <2>1, <2>2
<1>6. ASSUME NEW g \in exists \ {f}
      PROVE  \E used \in 0 .. MaxFileLength :
                Laid(g, used)' /\ (g \in DOMAIN files' => used = files'[g].used)
    <2>1. PICK used \in 0 .. MaxFileLength :
            Laid(g, used) /\ (g \in DOMAIN files => used = files[g].used)
        BY DEF FilesLaid
    <2>2. cells'[g] = cells[g]
        BY <1>1 DEF Written, Inv, TypeOK
    <2>3. Laid(g, used)'
        BY <2>1, <2>2, LaidSame
    <2> QED
        BY <1>1, <2>1, <2>3
<1> QED
    BY <1>1, <1>5, <1>6 DEF FilesLaid

LEMMA RestLaid ==
    ASSUME FilesLaid, exists' \subseteq exists, \A g \in exists' : cells'[g] = cells[g],
           \A g \in exists' \cap DOMAIN files' :
                g \in DOMAIN files /\ files'[g].used = files[g].used
    PROVE  FilesLaid'
<1> SUFFICES ASSUME NEW g \in exists'
             PROVE  \E used \in 0 .. MaxFileLength :
                        Laid(g, used)' /\ (g \in DOMAIN files' => used = files'[g].used)
    BY DEF FilesLaid
<1>1. PICK used \in 0 .. MaxFileLength :
        Laid(g, used) /\ (g \in DOMAIN files => used = files[g].used)
    BY DEF FilesLaid
<1>2. Laid(g, used)'
    BY <1>1, LaidSame
<1> QED
    BY <1>1, <1>2

LEMMA PruneLaid ==
    ASSUME Inv, FilesLaid, NEW h \in Hash, Prune(h) \/ PruneCut(h)
    PROVE  FilesLaid'
<1>1. PICK f \in FileNo : f = records[h].file /\ f \in DOMAIN files
    BY DEF Prune, PruneCut, Prunes, Inv, TypeOK
<1>2. CASE /\ exists' = exists \ {f} /\ cells' = [cells EXCEPT ![f] = Empty]
           /\ files' = Without(files, f) \/ files' = files
    <2>1. \A g \in exists' : g \in FileNo /\ cells'[g] = cells[g]
        BY <1>2 DEF Inv, TypeOK
    <2>2. \A g \in DOMAIN files' : g \in DOMAIN files /\ files'[g] = files[g]
        BY <1>2 DEF Without
    <2> QED
        BY <1>2, <2>1, <2>2, RestLaid
<1>3. CASE files' = [files EXCEPT ![f].blocks = @ - 1] /\ UNCHANGED <<exists, cells>>
    <2>1. files[f] \in FileRecord
        BY <1>1 DEF Inv, TypeOK
    <2>2. \A g \in DOMAIN files' : g \in DOMAIN files /\ files'[g].used = files[g].used
        BY <1>1, <1>3, <2>1 DEF FileRecord
    <2> QED
        BY <1>3, <2>2, RestLaid
<1> QED
    BY <1>1, <1>2, <1>3 DEF Prune, PruneCut, indexVars

LEMMA LaidStep == ASSUME Inv, FilesLaid, [Next]_vars, ~rebuilt' PROVE FilesLaid'
<1>1. ASSUME NEW h \in Hash, Write(h) PROVE FilesLaid'
    <2> DEFINE f == Target(h)
    <2>1. /\ Writes(h) /\ cells' = Written(h, Size[h]) /\ exists' = exists \cup {f}
          /\ files'[f].used = At(h) + Size[h]
          /\ \A g \in DOMAIN files' \ {f} : g \in DOMAIN files /\ files'[g] = files[g]
        BY <1>1 DEF Write, UsedAfter
    <2>2. Size[h] \in 0 .. Size[h]
        OBVIOUS
    <2> QED
        BY <2>1, <2>2, WriteLaid
<1>2. ASSUME NEW h \in Hash, NEW n \in 0 .. Size[h], WriteCut(h, n) PROVE FilesLaid'
    <2>1. /\ Writes(h) /\ cells' = Written(h, n) /\ exists' = exists \cup {Target(h)}
          /\ files' = files
        BY <1>2 DEF WriteCut, indexVars
    <2> QED
        BY <2>1, WriteLaid
<1>3. CASE Open \/ LoseIndex \/ UNCHANGED vars
    <2>1. UNCHANGED <<exists, cells>> /\ (DOMAIN files' = {} \/ files' = files)
        BY <1>3 DEF Open, LoseIndex, vars, indexVars
    <2> QED
        BY <2>1, RestLaid
<1>4. ~Rebuild /\ ~RebuildCut
    BY DEF Rebuild, RebuildCut
<1> QED
    BY <1>1, <1>2, <1>3, <1>4, PruneLaid DEF Next

\* The scan of a file comes by every record that is whole.
LEMMA WholeFound ==
    ASSUME TypeOK, NEW f \in exists, NEW used \in 0 .. MaxFileLength, Laid(f, used),
           NEW h \in Hash, NEW i \in Position, IsAt(h, f, i)
    PROVE  i \in Entries(f) /\ cells[f][i + 1] = <<h, 2>>
<1>1. Size \in [Hash -> 3 .. MaxFileLength] /\ MaxFileLength \in Nat
    OBVIOUS
<1>2. i \in Int /\ i >= 0 /\ i + Size[h] <= MaxFileLength
    BY DEF Position, IsAt
<1>3. \A k \in 1 .. Size[h] : cells[f][i + k - 1] = <<h, k>>
    BY DEF IsAt
<1>4. cells[f][i] = <<h, 1>> /\ cells[f][i + 1] = <<h, 2>> /\ cells[f][i + 2] = <<h, 3>>
    <2>1. 1 \in 1 .. Size[h] /\ 2 \in 1 .. Size[h] /\ 3 \in 1 .. Size[h]
        BY <1>1
    <2>2. i + 1 - 1 = i /\ i + 2 - 1 = i + 1 /\ i + 3 - 1 = i + 2
        BY <1>2
    <2> QED
        BY <1>3, <2>1, <2>2
<1>5. i <= used
    <2>1. SUFFICES ASSUME i >= used PROVE i = used
        BY <1>2
    <2>2. cells[f][i] # Blank
        BY <1>4 DEF Blank
    <2>3. cells[f][i][2] = 1
        BY <1>4
    <2>4. 1 = i - used + 1
        BY <2>1, <2>2, <2>3 DEF Laid
    <2> QED
        BY <1>2, <2>4
<1>6. \A k \in Position : k < i => cells[f][k] # Blank
    <2> TAKE k \in Position
    <2> HAVE k < i
    <2>1. k < used
        BY <1>2, <1>5 DEF Position
    <2>2. PICK b \in Hash, s \in Position : s <= k /\ k < s + Size[b] /\ IsAt(b, f, s)
        BY <2>1 DEF Laid
    <2>3. k - s + 1 \in 1 .. Size[b] /\ s + (k - s + 1) - 1 = k
        BY <1>1, <2>2 DEF Position
    <2>4. cells[f][k] = <<b, k - s + 1>>
        BY <2>2, <2>3 DEF IsAt
    <2> QED
        BY <2>4 DEF Blank
<1>7. i = 0 \/ ~IsHead(f, i - 1)
    <2>1. SUFFICES ASSUME i > 0, IsHead(f, i - 1) PROVE FALSE
        BY <1>2
    <2>2. i - 1 \in Position /\ i - 1 < used
        BY <1>1, <1>2, <1>5, <2>1 DEF Position
    <2>3. PICK b \in Hash, s \in Position :
            s <= i - 1 /\ i - 1 < s + Size[b] /\ IsAt(b, f, s)
        BY <2>2 DEF Laid
    <2>4. (i - 1) - s + 1 \in 1 .. Size[b] /\ s + ((i - 1) - s + 1) - 1 = i - 1
        BY <1>1, <1>2, <2>3 DEF Position
    <2>5. cells[f][i - 1] = <<b, (i - 1) - s + 1>>
        BY <2>3, <2>4 DEF IsAt
    <2>6. (i - 1) - s + 1 = 1
        BY <2>1, <2>5 DEF IsHead
    <2>7. 2 \in 1 .. Size[b] /\ s + 2 - 1 = i
        BY <1>1, <1>2, <2>6 DEF Position
    <2>8. cells[f][i] = <<b, 2>>
        BY <2>3, <2>7 DEF IsAt
    <2> QED
        BY <1>4, <2>8
<1>8. i \in Found(f)
    <2>1. i \in 0 .. i /\ (i - i) % 2 = 0 /\ \A k \in i .. i : k = i
        BY <1>2
    <2>2. IsHead(f, i)
        BY <1>4 DEF IsHead
    <2> QED
        BY <1>7, <2>1, <2>2 DEF Found
<1>9. i + 1 < Length(f)
    <2> DEFINE top == i + 2
               held == {k \in Position : cells[f][k] # Blank}
    <2>1. \A k \in 0 .. top : k \in held
        <3> TAKE k \in 0 .. top
        <3>1. k \in Position
            BY <1>1, <1>2 DEF Position
        <3>2. k < i \/ k = i \/ k = i + 1 \/ k = i + 2
            BY <1>2
        <3>3. cells[f][k] # Blank
            BY <1>4, <1>6, <3>1, <3>2 DEF Blank
        <3> QED
            BY <3>1, <3>3
    <2>2. IsFiniteSet(held)
        BY PositionFinite, FS_Subset
    <2>3. 0 .. top \subseteq held
        BY <2>1
    <2>4. top \in Int /\ top >= 0
        BY <1>2
    <2> HIDE DEF top, held
    <2>5. Cardinality(0 .. top) = top - 0 + 1
        BY <2>4, FS_Interval
    <2>6. Cardinality(0 .. top) <= Cardinality(held)
        BY <2>2, <2>3, FS_Subset
    <2>7. Cardinality(held) \in Nat
        BY <2>2, FS_CardinalityType
    <2>8. top + 1 <= Cardinality(held)
        BY <2>4, <2>5, <2>6
    <2> QED
        BY <1>2, <2>7, <2>8 DEF Length, top, held
<1> QED
    BY <1>4, <1>8, <1>9 DEF Entries

\* A scan that comes by a block of which there is no beginning that was cut short lists
\* where it is.
LEMMA EntryRight ==
    ASSUME TypeOK, NEW f \in exists, NEW h \in HashesIn(f), ~CutShort(h, f)
    PROVE  /\ RecordIn(h, f).file = f /\ RecordIn(h, f).length = Size[h]
           /\ IsAt(h, f, RecordIn(h, f).at)
<1> DEFINE found == {i \in Entries(f) : cells[f][i + 1] = <<h, 2>>}
           last  == CHOOSE i \in found : \A j \in found : j <= i
<1>1. MaxFileLength \in Nat /\ Size \in [Hash -> 3 .. MaxFileLength] /\ h \in Hash
    BY StoreAssumption DEF HashesIn
<1>2. found # {} /\ found \subseteq Position
    BY DEF HashesIn, Entries, Found
<1>3. found \in SUBSET (0 .. MaxFileLength)
    BY <1>1, <1>2 DEF Position
<1>4. \E i \in found : \A j \in found : j <= i
    BY <1>1, <1>2, <1>3, Greatest
<1>5. PICK l \in found : l = last
    BY <1>4
<1>6. RecordIn(h, f) = [file |-> f, at |-> l, length |-> Size[cells[f][l][1]]]
    BY <1>5 DEF RecordIn
<1>7. l \in Position /\ l + 1 < Length(f) /\ cells[f][l + 1] = <<h, 2>>
    BY <1>2, <1>5 DEF Entries
<1> HIDE DEF found, last
<1>8. l + 1 < MaxFileLength
    <2>1. Length(f) \in Nat /\ Length(f) <= MaxFileLength
        BY LengthTyped
    <2>2. l \in Int
        BY <1>7 DEF Position
    <2> QED
        BY <1>1, <1>7, <2>1, <2>2
<1>9. IsAt(h, f, l)
    BY <1>7, <1>8 DEF CutShort
<1>10. cells[f][l] = <<h, 1>>
    <2>1. 1 \in 1 .. Size[h] /\ l + 1 - 1 = l
        BY <1>1, <1>7 DEF Position
    <2> QED
        BY <1>9, <2>1 DEF IsAt
<1> QED
    BY <1>6, <1>9, <1>10

LEMMA RebuildRight ==
    ASSUME TypeOK, FilesLaid, Rebuild, NEW h \in Hash, \E f \in exists : Whole(h, f),
           \A f \in exists : ~CutShort(h, f)
    PROVE  h \in Listed' /\ Readable(h)'
<1>1. PICK order \in Orders : records' = RecordsAfter(order, exists)
    BY DEF Rebuild
<1> DEFINE in == {f \in exists : h \in HashesIn(f)}
           latest == CHOOSE f \in in : \A g \in in : order[g] <= order[f]
<1>2. in # {}
    <2>1. PICK f \in exists, i \in Position : IsAt(h, f, i)
        BY DEF Whole
    <2>2. PICK used \in 0 .. MaxFileLength : Laid(f, used)
        BY DEF FilesLaid
    <2>3. i \in Entries(f) /\ cells[f][i + 1] = <<h, 2>>
        BY <2>1, <2>2, WholeFound
    <2> QED
        BY <2>3 DEF HashesIn
<1>3. h \in DOMAIN records' /\ records'[h] = RecordIn(h, latest)
    <2>1. h \in DOMAIN records \cup UNION {HashesIn(f) : f \in exists}
        BY <1>2
    <2> QED
        BY <1>1, <1>2, <2>1 DEF RecordsAfter
<1>4. latest \in in
    <2>1. Cardinality(exists) \in Nat
        <3>1. IsFiniteSet(0 .. MaxFile)
            BY FS_Interval
        <3> QED
            BY <3>1, FS_Subset, FS_CardinalityType DEF TypeOK, FileNo
    <2> DEFINE at == {order[f] : f \in in}
    <2>2. at # {} /\ at \in SUBSET (0 .. Cardinality(exists))
        BY <1>2, <2>1 DEF Orders
    <2>3. PICK m \in at : \A x \in at : x <= m
        BY <2>1, <2>2, Greatest
    <2> QED
        BY <2>3
<1>5. PICK f \in exists : f = latest /\ h \in HashesIn(f)
    BY <1>4
<1> HIDE DEF in, latest
<1>6. /\ records'[h].file = f /\ records'[h].length = Size[h]
      /\ IsAt(h, f, records'[h].at)
    BY <1>3, <1>5, EntryRight
<1>7. cells' = cells
    BY DEF Rebuild
<1>8. IsAt(h, f, records[h].at)'
    BY <1>6, <1>7 DEF IsAt
<1> QED
    BY <1>3, <1>6, <1>8 DEF Listed, Readable

------------------------------------------------------------------------------
(* The theorems.                                                           *)

LEMMA Invariance == IInv /\ [Next]_vars => IInv'
<1> SUFFICES ASSUME IInv, [Next]_vars, ~rebuilt' PROVE Inv'
    BY DEF IInv
<1>1. ~rebuilt
    BY DEF Next, Write, WriteCut, Prune, PruneCut, Open, LoseIndex, Rebuild, RebuildCut, vars
<1>2. Inv
    BY <1>1 DEF IInv
<1>3. ~Rebuild /\ ~RebuildCut
    BY DEF Rebuild, RebuildCut
<1> QED
    BY <1>2, <1>3, WriteInv, WriteCutInv, PruneInv, PruneCutInv, RestInv DEF Next

LEMMA Reached == Spec => []IInv
    BY InitInv, Invariance, PTL DEF Spec

\* What the index says of files and records, and the files themselves, have their types,
\* also when it was built from the files, in whatever order the directory lists them and
\* however far the scan came: positions lie in a file, and a length is that of a block.
THEOREM TypeCorrect == Spec => []TypeOK
<1>1. Init => TypeOK
    BY InitTyped
<1> QED
    BY <1>1, TypedStep, PTL DEF Spec

\* Whatever was cut short, what the index lists can be read byte for byte if its file is
\* there, as long as the index has not been built from the files.
THEOREM ListedIsReadable == Spec => []ListedCanBeRead
<1>1. IInv => ListedCanBeRead
    BY DEF IInv, Inv, RecordsFit, ListedCanBeRead, Readable, Listed
<1> QED
    BY <1>1, Reached, PTL

\* A file counts the blocks that are listed in it, and is gone only when no other is: a
\* prune costs no block but its own.
THEOREM PruneCostsOne == Spec => []PruningCostsOne
<1>1. ASSUME Inv, NEW h \in Listed, records[h].file \notin exists
      PROVE  In(records[h].file) = {h}
    <2>1. records[h].file \in DOMAIN files
        BY <1>1 DEF Inv, RecordsFit, Listed
    <2>2. Cardinality(In(records[h].file)) = 1
        BY <1>1, <2>1 DEF Inv, Gone, Counted
    <2>3. h \in In(records[h].file) /\ IsFiniteSet(In(records[h].file))
        BY <1>1, InFinite DEF In, Inv
    <2> QED
        BY <2>2, <2>3, FS_Singleton
<1>2. IInv => PruningCostsOne
    BY <1>1 DEF IInv, Inv, Counted, PruningCostsOne
<1> QED
    BY <1>2, Reached, PTL

\* When the index is built for the first time, whatever the process stopped in before,
\* every block that is whole in a file is listed where it can be read, unless there is
\* also the beginning of a record of it that was cut short.
THEOREM RebuildListsAll == Spec => RebuildFindsAll
<1> DEFINE LInv == ~rebuilt => Inv /\ FilesLaid
           Step == ~rebuilt /\ Rebuild =>
                       \A h \in Hash :
                           /\ \E f \in exists : Whole(h, f)
                           /\ \A f \in exists : ~CutShort(h, f)
                           => h \in Listed' /\ Readable(h)'
<1>1. Init => LInv
    BY InitInv DEF Init, IInv, FilesLaid
<1>2. LInv /\ [Next]_vars => LInv'
    <2> SUFFICES ASSUME LInv, [Next]_vars, ~rebuilt' PROVE Inv' /\ FilesLaid'
        OBVIOUS
    <2>1. ~rebuilt
        BY DEF Next, Write, WriteCut, Prune, PruneCut, Open, LoseIndex, Rebuild, RebuildCut, vars
    <2>2. Inv'
        BY <2>1, Invariance DEF IInv
    <2> QED
        BY <2>1, <2>2, LaidStep
<1>3. LInv /\ [Next]_vars => [Step]_vars
    <2> SUFFICES ASSUME LInv, ~rebuilt, Rebuild PROVE Step
        OBVIOUS
    <2> QED
        BY RebuildRight DEF Inv
<1>4. Spec => [][Step]_vars
    BY <1>1, <1>2, <1>3, PTL DEF Spec
<1> QED
    BY <1>4 DEF RebuildFindsAll

=============================================================================
