----------------------------- MODULE BlockFiles ------------------------------
(***************************************************************************)
(* The raw block store of src/libs/server/BlocksDB.cpp: DBPrivate's        *)
(* writeBlock appends framed blocks to blkNNNNN.dat and framed, checksummed*)
(* undo blocks to revNNNNN.dat, growing the files by chunks; the per-file  *)
(* CBlockFileInfo (vinfoBlockFile) and nLastBlockFile say where the next   *)
(* write goes.  Blocks::DB::appendBlock and WriteBatchSync persist block   *)
(* records, file infos and the last-file index in the metadata store; a    *)
(* crash loses everything in memory and the node reloads from that store.  *)
(*                                                                         *)
(* File contents are abstracted to one stamp per byte: 0 for a byte never  *)
(* written (a preallocated or grown region is zero-filled) and the id of   *)
(* the write that last stored it otherwise.  A record reads back intact    *)
(* exactly when its frame (magic and length), payload and, for undo, the   *)
(* checksum all still carry its stamp: loadBlock then finds the length it  *)
(* wrote and loadUndoBlock the checksum it computed.                       *)
(***************************************************************************)
EXTENDS Integers, Sequences, FiniteSets, TLC, BlockScan

CONSTANTS
  MaxBlockFileSize,  \* MAX_BLOCKFILE_SIZE
  BlockFileChunk,    \* BLOCKFILE_CHUNK_SIZE
  UndoFileChunk,     \* UNDOFILE_CHUNK_SIZE
  FrameSize,         \* the magic and length before each payload (4 + 4)
  ChecksumSize,      \* the hash after each undo payload (256 / 8)
  BlockSizes,        \* payload sizes of the blocks and undo blocks written
  MaxWrites,         \* bound on the number of writes
  MaxCrashes         \* bound on the number of crashes

ASSUME \A s \in BlockSizes : 0 < s /\ s < MaxBlockFileSize - FrameSize

Kinds == {"blk", "rev"}

VARIABLES
  nLastBlockFile,   \* DBPrivate::nLastBlockFile
  vinfo,            \* vinfoBlockFile: file index -> CBlockFileInfo
  dirty,            \* setDirtyFileInfo
  disk,             \* kind -> file index -> byte stamps of the file on disk
  writes,           \* writes so far; the id of a write is its number
  pending,          \* records of writes not yet persisted
  dbRecords,        \* block records ('b') in the metadata store
  dbFileInfo,       \* file infos ('f') in the metadata store
  dbLastFile,       \* the last-file index ('l'), -1 while absent
  crashes,          \* crashes so far
  failure,          \* "none", or how writeBlock failed: "open" or "assert"
  lastLoad,         \* outcome of the last loadBlock: "ok", "error" or "corrupt"
  written           \* history: every record any write stored, kept across crashes

vars == <<nLastBlockFile, vinfo, dirty, disk, writes, pending, dbRecords,
          dbFileInfo, dbLastFile, crashes, failure, lastLoad, written>>

-----------------------------------------------------------------------------
EmptyInfo == [nBlocks |-> 0, nSize |-> 0, nUndoSize |-> 0]

(* vinfoBlockFile.size() and vinfoBlockFile.resize(n).                     *)
VSize(v) == Cardinality(DOMAIN v)
Resize(v, n) == [f \in 0..(n - 1) |-> IF f \in DOMAIN v THEN v[f] ELSE EmptyInfo]

Max2(a, b) == IF a > b THEN a ELSE b
Zeros(n) == [i \in 1..n |-> 0]

(* boost::filesystem::ofstream(path) truncates or creates the file and     *)
(* resize_file then zero-fills it to size bytes.                           *)
CreateFile(size) == Zeros(size)

(* resize_file growing a file: the new bytes are zero.                     *)
GrowFile(content, size) == content \o Zeros(size - Len(content))

(* The resize loop `while (posInFile + blockSize + 8 [+ 32] >= fileSize)`:*)
(* the file size after adding chunks until need < fileSize.                *)
RECURSIVE GrownSize(_, _, _)
GrownSize(fileSize, need, chunk) ==
  IF need >= fileSize THEN GrownSize(fileSize + chunk, need, chunk) ELSE fileSize

(* The memcpy of the frame, the payload and (undo) the checksum: bytes     *)
(* from, from + 1, ..., from + n - 1 of the file now carry stamp id.       *)
Stamp(content, from, n, id) ==
  [i \in DOMAIN content |-> IF from < i /\ i <= from + n THEN id ELSE content[i]]

(* The bytes one write of a payload of size bs occupies.                   *)
RecordBytes(kind, bs) == FrameSize + bs + (IF kind = "rev" THEN ChecksumSize ELSE 0)

(* loadBlock / loadUndoBlock of record r succeed and return r's payload:   *)
(* the file is there, the length word before r.pos, the payload and the    *)
(* undo checksum after it are all still the bytes r's write stored.        *)
ReadsBack(r) ==
  LET from == r.pos - FrameSize
      n    == RecordBytes(r.kind, r.len)
  IN /\ r.file \in DOMAIN disk[r.kind]
     /\ from + n <= Len(disk[r.kind][r.file])
     /\ \A i \in (from + 1)..(from + n) : disk[r.kind][r.file][i] = r.id

(* DBPrivate::loadBlock at record r's position.  It throws when the file   *)
(* cannot be mapped, the position or the length it reads runs past the     *)
(* file, or (undo) the checksum does not match; otherwise it returns the   *)
(* bytes after the length word, which are another write's when r's bytes   *)
(* were overwritten.                                                       *)
LoadOutcome(r) ==
  LET content == disk[r.kind][r.file]
  IN CASE r.file \notin DOMAIN disk[r.kind] \/ r.pos >= Len(content) -> "error"
       [] ReadsBack(r) -> "ok"
       [] r.kind = "rev" -> "error"
       [] OTHER -> "corrupt"

(* The bytes LoadExternalBlockFile scans.  One unit stands for the 8      *)
(* bytes of a frame (magic, then the payload length), so every unit of a   *)
(* blk file is 8 bytes: a zero unit is zeros, a unit holding the frame of  *)
(* write r is Magic and LE32 of r's payload length, and a payload unit is  *)
(* the bytes of the block.  The payload bytes of a live frame are taken as *)
(* zeros (the scan jumps over them, ScanFindsWrittenBlocks); those of an   *)
(* orphan unit, a payload unit whose frame a later write overwrote, are    *)
(* chosen by pick.                                                         *)
UnitBytes == 8 \div FrameSize

RecordOf(id) == CHOOSE r \in written : r.id = id

Orphans(f) ==
  LET c == disk["blk"][f]
  IN {i \in DOMAIN c : c[i] # 0 /\ c[RecordOf(c[i]).pos - FrameSize + 1] # c[i]}

UnitImage(f, i, pick) ==
  LET s == disk["blk"][f][i]
  IN CASE s = 0 -> Zeros(UnitBytes)
       [] i = RecordOf(s).pos - FrameSize + 1 -> Magic \o LE32(RecordOf(s).len * UnitBytes)
       [] i \in DOMAIN pick -> pick[i]
       [] OTHER -> Zeros(UnitBytes)

BlkImage(f, pick) ==
  FoldLeft(LAMBDA acc, u : acc \o u, <<>>,
           [i \in DOMAIN disk["blk"][f] |-> UnitImage(f, i, pick)])

(* The bytes an orphan unit can hold: two little-endian words whose        *)
(* values are among PayloadBytes (a payload byte equal to the first magic  *)
(* byte, followed by a size word, among them).                             *)
OrphanUnits == {LE32(x) \o LE32(y) : x, y \in PayloadBytes}

-----------------------------------------------------------------------------
Init ==
  /\ nLastBlockFile = 0
  /\ vinfo = Resize(<<>>, 0)
  /\ dirty = {}
  /\ disk = [k \in Kinds |-> Resize(<<>>, 0)]
  /\ writes = 0
  /\ pending = {}
  /\ dbRecords = {}
  /\ dbFileInfo = Resize(<<>>, 0)
  /\ dbLastFile = -1
  /\ crashes = 0
  /\ failure = "none"
  /\ lastLoad = "none"
  /\ written = {}

(* The part of DBPrivate::writeBlock after the file is chosen, for a       *)
(* payload of size bs into file f of the given kind, with v the file infos *)
(* and d the disk after the choice: map the file (failing if it is not     *)
(* there), grow it by chunks until the record fits, write the record and   *)
(* advance the file's size.                                                *)
WriteInto(kind, f, bs, v, d, last) ==
  LET id    == writes + 1
      size  == RecordBytes(kind, bs)
      start == IF kind = "blk" THEN v[f].nSize ELSE v[f].nUndoSize
      chunk == IF kind = "blk" THEN BlockFileChunk ELSE UndoFileChunk
  IN IF f \notin DOMAIN d[kind]
     THEN \* mapFile returned null: "Failed to open file" is thrown
          /\ failure' = "open"
          /\ UNCHANGED <<nLastBlockFile, vinfo, dirty, disk, writes, pending, written>>
     ELSE LET fileSize == GrownSize(Len(d[kind][f]), start + size, chunk)
              content  == GrowFile(d[kind][f], fileSize)
              rec      == [id |-> id, kind |-> kind, file |-> f,
                           pos |-> start + FrameSize, len |-> bs]
          IN /\ disk' = [d EXCEPT ![kind][f] = Stamp(content, start, size, id)]
             /\ vinfo' = [v EXCEPT ![f] =
                  IF kind = "blk"
                  THEN [@ EXCEPT !.nSize = @ + size, !.nBlocks = @ + 1]
                  ELSE [@ EXCEPT !.nUndoSize = @ + size]]
             /\ nLastBlockFile' = last
             /\ dirty' = dirty \cup {f}
             /\ writes' = id
             /\ pending' = pending \cup {rec}
             /\ written' = written \cup {rec}
             /\ UNCHANGED failure

(* Mutant: the fullness check forgets the 8-byte frame.                   *)
WriteBlockNoFrame(bs) ==
  LET first == VSize(vinfo) <= nLastBlockFile
      full  == ~first /\ vinfo[nLastBlockFile].nSize + bs > MaxBlockFileSize
      last  == IF full THEN nLastBlockFile + 1 ELSE nLastBlockFile
      v     == IF first \/ full THEN Resize(vinfo, last + 1) ELSE vinfo
      d     == IF first \/ full
               THEN [disk EXCEPT !["blk"] =
                       (last :> CreateFile(Max2(bs + FrameSize, BlockFileChunk))) @@ @]
               ELSE disk
  IN WriteInto("blk", last, bs, v, d, last)

(* Blocks::DB::writeBlock: a block always goes to the last file, a new one *)
(* when there is none yet or the block does not fit below                  *)
(* MAX_BLOCKFILE_SIZE; a new file is created at max(size + 8, chunk).      *)
WriteBlock(bs) ==
  LET first == VSize(vinfo) <= nLastBlockFile
      full  == ~first /\ vinfo[nLastBlockFile].nSize + bs + FrameSize > MaxBlockFileSize
      last  == IF full THEN nLastBlockFile + 1 ELSE nLastBlockFile
      v     == IF first \/ full THEN Resize(vinfo, last + 1) ELSE vinfo
      d     == IF first \/ full
               THEN [disk EXCEPT !["blk"] =
                       (last :> CreateFile(Max2(bs + FrameSize, BlockFileChunk))) @@ @]
               ELSE disk
  IN WriteInto("blk", last, bs, v, d, last)

(* Mutant: the rev file is recreated on every undo write.                 *)
WriteUndoTruncating(bs, f) ==
  LET first  == VSize(vinfo) <= nLastBlockFile
      behind == ~first /\ nLastBlockFile < f
      last   == IF behind THEN Max2(nLastBlockFile + 1, f) ELSE nLastBlockFile
      v      == IF first \/ behind THEN Resize(vinfo, last + 1) ELSE vinfo
      d      == [disk EXCEPT !["rev"] =
                   (f :> CreateFile(Max2(bs + FrameSize, UndoFileChunk))) @@ @]
  IN IF f > last
     THEN /\ failure' = "assert"
          /\ UNCHANGED <<nLastBlockFile, vinfo, dirty, disk, writes, pending, written>>
     ELSE WriteInto("rev", f, bs, v, d, last)

(* Blocks::DB::writeUndoBlock into rev file f, the file of the block it    *)
(* undoes: a file index past nLastBlockFile moves nLastBlockFile up to it; *)
(* the rev file is created (truncating any old one) when the file is new   *)
(* or its info has no undo bytes yet.                                      *)
WriteUndo(bs, f) ==
  LET first  == VSize(vinfo) <= nLastBlockFile
      behind == ~first /\ nLastBlockFile < f
      last   == IF behind THEN Max2(nLastBlockFile + 1, f) ELSE nLastBlockFile
      v      == IF first \/ behind THEN Resize(vinfo, last + 1) ELSE vinfo
      create == first \/ behind \/ v[f].nUndoSize = 0
      d      == IF create
                THEN [disk EXCEPT !["rev"] =
                        (f :> CreateFile(Max2(bs + FrameSize, UndoFileChunk))) @@ @]
                ELSE disk
  IN IF f > last
     THEN \* assert(pos.nFile <= nLastBlockFile) aborts the process
          /\ failure' = "assert"
          /\ UNCHANGED <<nLastBlockFile, vinfo, dirty, disk, writes, pending, written>>
     ELSE WriteInto("rev", f, bs, v, d, last)

-----------------------------------------------------------------------------
(* The files that hold a block the consensus layer still knows about: the  *)
(* undo data of a block goes to the rev file with the block's own index.   *)
BlockFilesInUse == {r.file : r \in {q \in pending \cup dbRecords : q.kind = "blk"}}

(* The writer's steps; each takes cs_LastBlockFile for its whole length.   *)
WriteBlockStep ==
  /\ failure = "none" /\ writes < MaxWrites
  /\ \E bs \in BlockSizes : WriteBlock(bs)
  /\ UNCHANGED <<dbRecords, dbFileInfo, dbLastFile, crashes, lastLoad>>

WriteUndoStep ==
  /\ failure = "none" /\ writes < MaxWrites
  /\ \E bs \in BlockSizes, f \in BlockFilesInUse : WriteUndo(bs, f)
  /\ UNCHANGED <<dbRecords, dbFileInfo, dbLastFile, crashes, lastLoad>>

(* Blocks::DB::appendBlock(block, lastBlockFile): one synced batch with    *)
(* the block's record and the 'l' key, and an empty list of file infos.    *)
AppendBlock ==
  /\ failure = "none"
  /\ \E r \in pending :
       /\ dbRecords' = dbRecords \cup {r}
       /\ pending' = pending \ {r}
  /\ dbLastFile' = nLastBlockFile
  /\ UNCHANGED <<nLastBlockFile, vinfo, dirty, disk, writes, dbFileInfo, crashes, failure, lastLoad, written>>

(* Mutant: the flush persists the records and 'l' but no file infos.      *)
WriteBatchSyncNoInfos ==
  /\ failure = "none"
  /\ dbLastFile' = nLastBlockFile
  /\ dbRecords' = dbRecords \cup pending
  /\ pending' = {}
  /\ dirty' = {}
  /\ UNCHANGED <<nLastBlockFile, vinfo, disk, writes, dbFileInfo, crashes, failure, lastLoad, written>>

(* Blocks::DB::WriteBatchSync as the periodic flush calls it: the infos of *)
(* the dirty files, the 'l' key and the dirty block records in one synced  *)
(* batch; the flush then empties setDirtyFileInfo.                         *)
WriteBatchSync ==
  /\ failure = "none"
  /\ dbFileInfo' = [f \in DOMAIN dbFileInfo \cup dirty |->
                      IF f \in dirty THEN vinfo[f] ELSE dbFileInfo[f]]
  /\ dbLastFile' = nLastBlockFile
  /\ dbRecords' = dbRecords \cup pending
  /\ pending' = {}
  /\ dirty' = {}
  /\ UNCHANGED <<nLastBlockFile, vinfo, disk, writes, crashes, failure, lastLoad, written>>

(* The number of file infos read back at startup: the 'f' keys stored     *)
(* for files 0, 1, ... up to the 'l' key, stopping at the first missing.   *)
StoredInfos ==
  CHOOSE n \in 0..(dbLastFile + 1) :
    /\ 0..(n - 1) \subseteq DOMAIN dbFileInfo
    /\ n = dbLastFile + 1 \/ n \notin DOMAIN dbFileInfo

(* Mutant: the restart keeps the old setDirtyFileInfo.                    *)
CrashRestartKeepDirty ==
  /\ crashes < MaxCrashes
  /\ nLastBlockFile' = IF dbLastFile < 0 THEN 0 ELSE dbLastFile
  /\ vinfo' = [f \in 0..(StoredInfos - 1) |-> dbFileInfo[f]]
  /\ pending' = {}
  /\ crashes' = crashes + 1
  /\ failure' = "none"
  /\ UNCHANGED <<dirty, disk, writes, dbRecords, dbFileInfo, dbLastFile, lastLoad, written>>

(* The process dies (or a write threw and took it down) and starts again:  *)
(* the memory-mapped bytes already written stay in the files, everything   *)
(* in memory is lost, and nLastBlockFile and vinfoBlockFile are read back  *)
(* from the 'l' and 'f' keys.                                              *)
CrashRestart ==
  /\ crashes < MaxCrashes
  /\ nLastBlockFile' = IF dbLastFile < 0 THEN 0 ELSE dbLastFile
  /\ vinfo' = [f \in 0..(StoredInfos - 1) |-> dbFileInfo[f]]
  /\ dirty' = {}
  /\ pending' = {}
  /\ crashes' = crashes + 1
  /\ failure' = "none"
  /\ UNCHANGED <<disk, writes, dbRecords, dbFileInfo, dbLastFile, lastLoad, written>>

(* Blocks::DB::loadBlock / loadUndoBlock of a block the node has a record *)
(* of; reads do not change the store.                                      *)
LoadBlock ==
  /\ \E r \in pending \cup dbRecords : lastLoad' = LoadOutcome(r)
  /\ UNCHANGED <<nLastBlockFile, vinfo, dirty, disk, writes, pending, dbRecords,
                 dbFileInfo, dbLastFile, crashes, failure, written>>

(* A caller that persists block records only through WriteBatchSync.      *)
NextSynced ==
  WriteBlockStep \/ WriteUndoStep \/ WriteBatchSync \/ CrashRestart \/ LoadBlock

Next == NextSynced \/ AppendBlock

SpecSynced == Init /\ [][NextSynced]_vars
Spec == Init /\ [][Next]_vars

-----------------------------------------------------------------------------
Info == [nBlocks : Nat, nSize : Nat, nUndoSize : Nat]
Record == [id : Nat, kind : Kinds, file : Nat, pos : Nat, len : BlockSizes]

TypeOK ==
  /\ nLastBlockFile \in Nat
  /\ DOMAIN vinfo = 0..(VSize(vinfo) - 1) /\ \A f \in DOMAIN vinfo : vinfo[f] \in Info
  /\ dirty \subseteq DOMAIN vinfo
  /\ \A k \in Kinds : \A f \in DOMAIN disk[k] : disk[k][f] \in Seq(0..writes)
  /\ pending \cup dbRecords \subseteq Record
  /\ dbLastFile \in Nat \cup {-1}
  /\ failure \in {"none", "open", "assert"}
  /\ lastLoad \in {"none", "ok", "error", "corrupt"}
  /\ written \subseteq Record

(* Every block and undo block the node has a record of, in memory or in    *)
(* the metadata store, reads back as written (spec P4): no later write,    *)
(* file creation or restart of writeBlock has overwritten or truncated it. *)
RecordsReadBack == \A r \in pending \cup dbRecords : ReadsBack(r)

(* No blk file is filled past MAX_BLOCKFILE_SIZE: writeBlock moves to a    *)
(* new file when the block and its 8-byte frame would not fit (spec P7).   *)
BlkFileWithinMax == \A f \in DOMAIN vinfo : vinfo[f].nSize <= MaxBlockFileSize

(* loadBlock never hands back another block's bytes as the block a record *)
(* names: a record whose bytes a later writeBlock overwrote is a silent    *)
(* corruption rather than an error the caller sees.                        *)
NoSilentCorruption == lastLoad # "corrupt"

(* Spec 4.6 and section 5: a crash between a block write and the batch     *)
(* sync leaves the block on disk and the reindex recovers it.  For every   *)
(* blk file and whatever bytes its orphan units hold, LoadExternalBlockFile *)
(* reports exactly the payloads of the frames still intact on disk: the    *)
(* writes from a stale nSize after the restart must not make it miss one,  *)
(* nor report the tail of an overwritten frame as a block.                 *)
ReindexRecoversBlocks ==
  \A f \in DOMAIN disk["blk"] :
    \A pick \in [Orphans(f) -> OrphanUnits] :
      ToSet(ScanFile(BlkImage(f, pick)).pos) =
        {r.pos * UnitBytes : r \in {q \in written : q.kind = "blk" /\ q.file = f /\ ReadsBack(q)}}
=============================================================================
