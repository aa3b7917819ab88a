------------------------------ MODULE BlockStore ------------------------------
(***************************************************************************)
(* The block store (src/src/blockstore): records in flat files, and a      *)
(* database that says which record is where and how far each file is used. *)
(* Blocks and undo coins are kept apart, in files and keys of their own,   *)
(* by the same code; this is the store of one of the two types.            *)
(*                                                                         *)
(* A file is a row of cells.  The cells of a record are its magic and      *)
(* length (1), what identifies it (2: the header of a block, the hash of a *)
(* block for its undo coins), and then four bytes each.  The process may   *)
(* stop anywhere in a write, between a file and the database, and while    *)
(* the index is built again.                                               *)
(***************************************************************************)
EXTENDS Integers, FiniteSets

CONSTANTS
    RecordType,     \* "Block" or "Undo"
    Hash,           \* hashes of blocks
    Size,           \* how many cells the record of a block takes
    MaxFileLength,  \* BlockStoreOptions.max_file_length
    MaxFile,        \* bound: the largest file number
    MaxCrashes      \* bound: how often the process stops or the index is lost

FileNo == 0 .. MaxFile
Position == 0 .. MaxFileLength - 1

\* Nothing is written there.
Blank == <<"blank", 0>>

Cells == {<<h, i>> : h \in Hash, i \in 1 .. MaxFileLength} \cup {Blank}

ASSUME StoreAssumption ==
    /\ RecordType \in {"Block", "Undo"}
    /\ IsFiniteSet(Hash)
    /\ {MaxFileLength, MaxFile, MaxCrashes} \subseteq Nat
    /\ Size \in [Hash -> 3 .. MaxFileLength]
    /\ "blank" \notin Hash

VARIABLES
    exists,   \* files in the directory
    cells,    \* what they hold
    files,    \* Key::File: FileRecord by number
    records,  \* Key::BlockRecord: BlockRecord by hash
    lastFile, \* Key::LastFile, NoFile if there is none
    up,       \* the process runs
    rebuilt,  \* the index has been built again in this behaviour
    crashes   \* how often the process has stopped or the index was lost

indexVars == <<files, records, lastFile>>

vars == <<exists, cells, indexVars, up, rebuilt, crashes>>

NoFile == -1

FileRecord == [blocks : Nat, used : 0 .. MaxFileLength]

\* The position is kept as that of the magic, in front of what the code counts from.
BlockRecord == [file : FileNo, at : Position, length : 3 .. MaxFileLength]

TypeOK ==
    /\ exists \subseteq FileNo
    /\ cells \in [FileNo -> [Position -> Cells]]
    /\ DOMAIN files \subseteq FileNo
    /\ \A f \in DOMAIN files : files[f] \in FileRecord
    /\ DOMAIN records \subseteq Hash
    /\ \A h \in DOMAIN records : records[h] \in BlockRecord
    /\ lastFile \in FileNo \cup {NoFile}
    /\ up \in BOOLEAN
    /\ rebuilt \in BOOLEAN
    /\ crashes \in 0 .. MaxCrashes

------------------------------------------------------------------------------
(* BlockStore::allocate.                                                   *)

Last == IF lastFile = NoFile THEN 0 ELSE lastFile

Used(f) == IF f \in DOMAIN files THEN files[f].used ELSE 0

\* Broken variant: a file is full only when it has no room at all.
FullAtTheEnd(h) == Used(Last) >= MaxFileLength

\* The record does not fit in the last file.
Full(h) == Used(Last) + Size[h] > MaxFileLength

\* Where the record goes: into the last file, or into the one after it.
Target(h) == IF Full(h) THEN Last + 1 ELSE Last

\* That file is created, and emptied if there was one: it has no file record.
Touches(h) == Full(h) \/ Last \notin DOMAIN files

At(h) == IF Touches(h) THEN 0 ELSE Used(Last)

Empty == [i \in Position |-> Blank]

Before(h) == IF Touches(h) THEN Empty ELSE cells[Target(h)]

\* The first n cells of the record are written.
Written(h, n) ==
    [cells EXCEPT ![Target(h)] =
        [i \in Position |->
            IF i \in At(h) .. At(h) + n - 1 THEN <<h, i - At(h) + 1>> ELSE Before(h)[i]]]

------------------------------------------------------------------------------
(* BlockStore::write and prune.                                            *)

\* A record that is known already is not written again, and a file that has a record
\* but is gone cannot be opened.
Writes(h) ==
    /\ up
    /\ h \notin DOMAIN records
    /\ Target(h) \in FileNo
    /\ Touches(h) \/ Target(h) \in exists

\* What is in the file is not counted as used.
UsedAsBefore(h) == At(h)

UsedAfter(h) == At(h) + Size[h]

\* The record is written and flushed, and one batch tells the index.
Write(h) ==
    LET f   == Target(h)
        old == IF Touches(h) THEN [blocks |-> 0, used |-> 0] ELSE files[f] IN
    /\ Writes(h)
    /\ exists' = exists \cup {f}
    /\ cells' = Written(h, Size[h])
    /\ files' = [g \in DOMAIN files \cup {f} |->
                    IF g = f THEN [blocks |-> old.blocks + 1, used |-> UsedAfter(h)]
                    ELSE files[g]]
    /\ records' = [b \in DOMAIN records \cup {h} |->
                    IF b = h THEN [file |-> f, at |-> At(h), length |-> Size[h]]
                    ELSE records[b]]
    /\ lastFile' = f
    /\ UNCHANGED <<up, rebuilt, crashes>>

Stop ==
    /\ crashes < MaxCrashes
    /\ crashes' = crashes + 1
    /\ up' = FALSE

\* The process stops after n cells, before the batch.  A stop within the eight bytes
\* of the first cell is not told from one before them: the next record overwrites
\* them, and they spoil at most the length of one that was itself cut short.  If
\* instead the index is lost, the scan can panic on them at the end of the file
\* ("bad len"), where the model also builds the index.
WriteCut(h, n) ==
    /\ Writes(h)
    /\ exists' = exists \cup {Target(h)}
    /\ cells' = Written(h, n)
    /\ Stop
    /\ UNCHANGED <<indexVars, rebuilt>>

Without(map, k) == [x \in DOMAIN map \ {k} |-> map[x]]

\* Broken variant: a file is removed one record too early.
LastOfTwo(f) == files[f].blocks <= 2

\* No other record is left in the file.
LastOne(f) == files[f].blocks = 1

Prunes(h) ==
    /\ up
    /\ h \in DOMAIN records
    /\ records[h].file \in DOMAIN files

\* BlockStore::prune: a file with no record left goes, with its file record; the last
\* file's number stays.  A count of zero, which only a rebuilt index can hold, is
\* an overflow, and nothing is written.
Prune(h) ==
    LET f == records[h].file IN
    /\ Prunes(h)
    /\ records' = Without(records, h)
    /\ \/ /\ LastOne(f)
          /\ f \in exists
          /\ exists' = exists \ {f}
          /\ cells' = [cells EXCEPT ![f] = Empty]
          /\ files' = Without(files, f)
       \/ /\ ~LastOne(f)
          /\ files[f].blocks > 0
          /\ files' = [files EXCEPT ![f].blocks = @ - 1]
          /\ UNCHANGED <<exists, cells>>
    /\ UNCHANGED <<lastFile, up, rebuilt, crashes>>

\* The process stops after the file is removed, before the batch.
PruneCut(h) ==
    /\ Prunes(h)
    /\ LastOne(records[h].file)
    /\ records[h].file \in exists
    /\ exists' = exists \ {records[h].file}
    /\ cells' = [cells EXCEPT ![records[h].file] = Empty]
    /\ Stop
    /\ UNCHANGED <<indexVars, rebuilt>>

------------------------------------------------------------------------------
(* BlockStore::open: the index is built again if a file has no record.     *)

\* How many cells a file holds; they have no gaps.
Length(f) == Cardinality({i \in Position : cells[f][i] # Blank})

IsHead(f, i) == cells[f][i][2] = 1

\* Broken variant: the scan skips the length of a record after what identifies it.
FoundSkipping(f) ==
    LET head[i \in Position] ==
            /\ IsHead(f, i)
            /\ \A j \in 0 .. i - 1 : head[j] => i # j + Size[cells[f][j][1]]
    IN {i \in Position : head[i]}

\* Where the scan finds the magic: it goes on behind the identifying cell of each
\* record, so a magic right behind one it has found is taken for that, and of magics in
\* a row it finds every other one.
Found(f) ==
    {i \in Position : \E j \in 0 .. i :
        /\ j = 0 \/ ~IsHead(f, j - 1)
        /\ \A k \in j .. i : IsHead(f, k)
        /\ (i - j) % 2 = 0}

\* ... and reads what identifies a record.
Entries(f) == {i \in Found(f) : i + 1 < Length(f)}

\* The scan panics in a file of less than four bytes, and for undo coins where the
\* file ends before the hash.
Scannable(f) ==
    /\ Length(f) > 0
    /\ RecordType = "Undo" => Found(f) = Entries(f)

\* The scan ends four bytes before the end unless it has just read beyond.
ScanEnds(f) ==
    IF {Length(f) - 1, Length(f) - 2} \cap Found(f) # {} THEN Length(f) ELSE Length(f) - 1

\* The hash is taken from the identifying cell, the length from the cell before.
HashesIn(f) == {h \in Hash : \E i \in Entries(f) : cells[f][i + 1] = <<h, 2>>}

RecordIn(h, f) ==
    LET found == {i \in Entries(f) : cells[f][i + 1] = <<h, 2>>}
        last  == CHOOSE i \in found : \A j \in found : j <= i
    IN [file |-> f, at |-> last, length |-> Size[cells[f][last][1]]]

Missing == exists \ DOMAIN files

\* The orders in which read_dir may list the files.
Orders ==
    {o \in [exists -> 1 .. Cardinality(exists)] : \A f, g \in exists : o[f] = o[g] => f = g}

\* What the index holds when the first n files of the order are done: what the scan
\* of a file finds replaces what there was, and nothing is removed.
ScannedFirst(order, n) == {f \in exists : order[f] <= n}

FilesAfter(done) ==
    [f \in DOMAIN files \cup done |->
        IF f \in done THEN [blocks |-> Cardinality(Entries(f)), used |-> ScanEnds(f)]
        ELSE files[f]]

RecordsAfter(order, done) ==
    [h \in DOMAIN records \cup UNION {HashesIn(f) : f \in done} |->
        LET in == {f \in done : h \in HashesIn(f)} IN
        IF in = {} THEN records[h]
        ELSE RecordIn(h, CHOOSE f \in in : \A g \in in : order[g] <= order[f])]

\* BlockStore::index, over all files, a batch for each.
Rebuild ==
    /\ ~up
    /\ Missing # {}
    /\ \A f \in exists : Scannable(f)
    /\ \E order \in Orders :
          /\ files' = FilesAfter(exists)
          /\ records' = RecordsAfter(order, exists)
    /\ up' = TRUE
    /\ rebuilt' = TRUE
    /\ UNCHANGED <<exists, cells, lastFile, crashes>>

\* The process stops in the middle of it.
RebuildCut ==
    /\ ~up
    /\ Missing # {}
    /\ \E order \in Orders, n \in 1 .. Cardinality(exists) - 1 :
          LET done == ScannedFirst(order, n) IN
          /\ \A f \in done : Scannable(f)
          /\ files' = FilesAfter(done)
          /\ records' = RecordsAfter(order, done)
    /\ rebuilt' = TRUE
    /\ Stop
    /\ UNCHANGED <<exists, cells, lastFile>>

Open ==
    /\ ~up
    /\ Missing = {}
    /\ up' = TRUE
    /\ UNCHANGED <<exists, cells, indexVars, rebuilt, crashes>>

\* The index directory is deleted while the process does not run (test_reindex).
LoseIndex ==
    /\ crashes < MaxCrashes
    /\ crashes' = crashes + 1
    /\ up' = FALSE
    /\ files' = [f \in {} |-> [blocks |-> 0, used |-> 0]]
    /\ records' = [h \in {} |-> [file |-> 0, at |-> 0, length |-> 3]]
    /\ lastFile' = NoFile
    /\ UNCHANGED <<exists, cells, rebuilt>>

------------------------------------------------------------------------------

\* FileBlockStore in an empty directory.
Init ==
    /\ exists = {}
    /\ cells = [f \in FileNo |-> Empty]
    /\ files = [f \in {} |-> [blocks |-> 0, used |-> 0]]
    /\ records = [h \in {} |-> [file |-> 0, at |-> 0, length |-> 3]]
    /\ lastFile = NoFile
    /\ up = TRUE
    /\ rebuilt = FALSE
    /\ crashes = 0

Next ==
    \/ \E h \in Hash :
          \/ Write(h)
          \/ \E n \in 0 .. Size[h] : WriteCut(h, n)
          \/ Prune(h)
          \/ PruneCut(h)
    \/ Rebuild
    \/ RebuildCut
    \/ Open
    \/ LoseIndex

Spec == Init /\ [][Next]_vars

------------------------------------------------------------------------------
(* Properties.                                                             *)

\* BlockStore::has; ChainDB takes these for the downloaded blocks when it opens.
Listed == DOMAIN records

\* The whole record of a block is in a file at some place.
IsAt(h, f, at) ==
    /\ at + Size[h] <= MaxFileLength
    /\ \A i \in 1 .. Size[h] : cells[f][at + i - 1] = <<h, i>>

\* BlockStore::read returns what was written.
Readable(h) ==
    LET r == records[h] IN
    /\ r.length = Size[h]
    /\ IsAt(h, r.file, r.at)

\* What the index lists can be read, byte for byte, whatever writes were cut short
\* before or after it, as long as its file is there and the index has not been
\* built from the files ("assert_eq!(block_bytes, serialize(&block))", mod.rs:715).
ListedCanBeRead ==
    ~rebuilt => \A h \in Listed : records[h].file \in exists => Readable(h)

\* A file is gone only when nothing else in it is listed: pruning, also when it is cut
\* short, costs no other block.
In(f) == {h \in Listed : records[h].file = f}

PruningCostsOne ==
    ~rebuilt =>
        /\ \A f \in DOMAIN files : files[f].blocks = Cardinality(In(f))
        /\ \A h \in Listed : records[h].file \notin exists => In(records[h].file) = {h}

\* A record is complete in a file, or only its beginning is.
Whole(h, f) == \E i \in Position : IsAt(h, f, i)

CutShort(h, f) ==
    \E i \in Position :
        /\ i + 1 < MaxFileLength /\ cells[f][i + 1] = <<h, 2>>
        /\ ~IsAt(h, f, i)

\* When the index is built from the files, every block whose record is complete in a
\* file is listed and can be read (test_reindex, mod.rs:473), unless there is also
\* the beginning of a record of it that was cut short.
RebuildFindsAll ==
    [][~rebuilt /\ Rebuild =>
          \A h \in Hash :
              /\ \E f \in exists : Whole(h, f)
              /\ \A f \in exists : ~CutShort(h, f)
              => h \in Listed' /\ Readable(h)']_vars
==============================================================================
