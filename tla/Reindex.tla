------------------------------- MODULE Reindex -------------------------------
(***************************************************************************)
(* The reindex of src/libs/server/BlocksDB.cpp together with the parts it  *)
(* drives concurrently:                                                    *)
(*  - the importer thread (reimportBlockFiles): LoadExternalBlockFile maps *)
(*    blk files 0, 1, ... through loadBlockFile, hands every framed block  *)
(*    to validation and registers the file with foundBlockFile; then      *)
(*    setReindexing moves the persisted 'R' key on;                        *)
(*  - the validation workers, which write the undo data of every block     *)
(*    handed to them (writeBlock of a RevertBlock) into the rev file of    *)
(*    the block's own file;                                                *)
(*  - the consensus layer writing new blocks once the reindex is over;     *)
(*  - the periodic FlushStateToDisk (WriteBatchSync), and crashes.         *)
(* All writes and loadBlockFile go through mapFile's cache: one slot per   *)
(* file (datafiles, revertDatafiles) holding a weak reference to the       *)
(* mapping, and fileHistory keeping the last mappings alive.               *)
(*                                                                         *)
(* A blk file's contents are the payload sizes of its framed blocks from   *)
(* offset 0; a rev file's contents are the end of its undo data.           *)
(***************************************************************************)
EXTENDS Integers, Sequences, SequencesExt, FiniteSets, BlockScan

CONSTANTS
  MaxBlockFileSize,  \* MAX_BLOCKFILE_SIZE
  BlockFileChunk,    \* BLOCKFILE_CHUNK_SIZE
  UndoFileChunk,     \* UNDOFILE_CHUNK_SIZE
  FrameSize,         \* the magic and length before each payload (4 + 4)
  ChecksumSize,      \* the hash after each undo payload (256 / 8)
  BlockSizes,        \* payload sizes of the blocks and undo blocks written
  HistorySize,       \* the 10 mappings fileHistory keeps
  QueueSize,         \* the blocks validation accepts before waitForSpace blocks
  InitBlk,           \* the blk files on disk when the node starts: payload sizes
  MaxWrites,         \* bound on the new blocks written after the reindex
  MaxCrashes,        \* bound on the number of crashes
  NoMap              \* an empty shared_ptr / a null slot

Kinds == {"blk", "rev"}
Files == 0..Len(InitBlk)   \* the files on disk and one more

Mapping == [kind : Kinds, file : Files, rw : BOOLEAN, size : Nat]

VARIABLES
  nLastBlockFile,  \* DBPrivate::nLastBlockFile
  vinfo,           \* vinfoBlockFile: file index -> CBlockFileInfo
  dirty,           \* setDirtyFileInfo
  fileSize,        \* kind -> file index -> size of the file on disk
  blkData,         \* blk file index -> payload sizes of its framed blocks
  revEnd,          \* rev file index -> end of the undo data written into it
  datafiles,       \* kind -> file index -> the mapping the slot refers to
  fileHistory,     \* the mappings fileHistory keeps alive, oldest first
  reindexing,      \* DBPrivate::reindexing
  dbReindex,       \* the 'R' key: 1, 2, or 0 while absent
  dbFileInfo,      \* the 'f' keys
  dbLastFile,      \* the 'l' key, -1 while absent
  ipc,             \* where the importer thread is
  nFile,           \* reimportBlockFiles' file counter
  dataFile,        \* the mapping LoadExternalBlockFile holds, or NoMap
  info,            \* LoadExternalBlockFile's CBlockFileInfo
  queue,           \* blocks handed to validation and not yet validated
  undoWritten,     \* the undo blocks written since the start: file and end
  writes,          \* new blocks written so far
  crashes,         \* crashes so far
  failure          \* "none", or why a writeBlock threw or aborted

vars == <<nLastBlockFile, vinfo, dirty, fileSize, blkData, revEnd, datafiles,
          fileHistory, reindexing, dbReindex, dbFileInfo, dbLastFile, ipc,
          nFile, dataFile, info, queue, undoWritten, writes, crashes, failure>>

-----------------------------------------------------------------------------
EmptyInfo == [nBlocks |-> 0, nSize |-> 0, nUndoSize |-> 0]
VSize(v) == Cardinality(DOMAIN v)
Resize(v, n) == [f \in 0..(n - 1) |-> IF f \in DOMAIN v THEN v[f] ELSE EmptyInfo]
Max2(a, b) == IF a > b THEN a ELSE b

(* The offset just past the first n framed blocks of a blk file.           *)
FrameEnd(s, n) == FoldLeft(LAMBDA acc, l : acc + FrameSize + l, 0, SubSeq(s, 1, n))
DataEnd(s) == FrameEnd(s, Len(s))

(* The resize loop of writeBlock: the file size after adding chunks to a   *)
(* mapping of size fileSize until need < fileSize.                         *)
RECURSIVE GrownSize(_, _, _)
GrownSize(size, need, chunk) ==
  IF need >= size THEN GrownSize(size + chunk, need, chunk) ELSE size

(* Mutant: fileHistory is never trimmed.                                 *)
PushUncapped(hist, ms) == hist \o ms

(* fileHistory.push_back of each of ms, erasing the oldest beyond the cap. *)
Push(hist, ms) ==
  LET h == hist \o ms
  IN SubSeq(h, Max2(1, Len(h) - HistorySize + 1), Len(h))

(* A mapping is alive while fileHistory or a thread holds a buffer of it;  *)
(* the last buffer going away runs cleanupLambda, which empties the slot.  *)
Live(m) == m # NoMap /\ (m \in ToSet(fileHistory) \/ m = dataFile)

(* DBPrivate::mapFile(f) of the given kind with fs the file sizes on disk  *)
(* and last the nLastBlockFile it reads: the slot's mapping while it is    *)
(* alive; otherwise a new mapping of the whole file, read-write for the    *)
(* last blk file and every rev file and read-only otherwise, recorded in  *)
(* the slot and pushed into fileHistory; NoMap when the file is missing.  *)
MapFile(k, f, last, fs) ==
  LET m == [kind |-> k, file |-> f, rw |-> k = "rev" \/ f = last, size |-> fs[k][f]]
  IN CASE Live(datafiles[k][f]) ->
            [buf |-> datafiles[k][f], slots |-> datafiles, hist |-> fileHistory]
       [] fs[k][f] = 0 ->
            [buf |-> NoMap, slots |-> [datafiles EXCEPT ![k][f] = NoMap], hist |-> fileHistory]
       [] OTHER ->
            [buf |-> m, slots |-> [datafiles EXCEPT ![k][f] = m], hist |-> Push(fileHistory, <<m>>)]

(* The blk file after a framed block of size bs is written at offset at:   *)
(* the frames that end before it stay and the new frame follows them; the *)
(* frames it overwrote, and those after it, are taken as lost.            *)
Written(s, at, bs) ==
  LET keep == CHOOSE n \in 0..Len(s) :
                FrameEnd(s, n) <= at /\ (n = Len(s) \/ FrameEnd(s, n + 1) > at)
  IN SubSeq(s, 1, keep) \o <<bs>>

-----------------------------------------------------------------------------
(* The part of DBPrivate::writeBlock after the file is chosen, for a       *)
(* payload of size bs into file f of the given kind, with v the file infos,*)
(* fs the file sizes and last the nLastBlockFile after the choice: map the *)
(* file, throw when it is missing or mapped read-only, grow it by chunks   *)
(* (fileHasGrown empties the slot, resize_file, mapFile again) until the   *)
(* record fits, write the record and advance the file's size.              *)
WriteInto(kind, f, bs, v, fs, re, last) ==
  LET mp    == MapFile(kind, f, last, fs)
      start == IF kind = "blk" THEN v[f].nSize ELSE v[f].nUndoSize
      need  == FrameSize + bs + (IF kind = "rev" THEN ChecksumSize ELSE 0)
      chunk == IF kind = "blk" THEN BlockFileChunk ELSE UndoFileChunk
      size  == IF mp.buf = NoMap THEN 0 ELSE mp.buf.size
      grown == (GrownSize(size, start + need, chunk) - size) \div chunk
      remap == [i \in 1..grown |-> [mp.buf EXCEPT !.size = size + i * chunk]]
  IN /\ nLastBlockFile' = last
     /\ vinfo' = IF mp.buf = NoMap \/ ~mp.buf.rw THEN v
                 ELSE [v EXCEPT ![f] =
                        IF kind = "blk"
                        THEN [@ EXCEPT !.nSize = @ + need, !.nBlocks = @ + 1]
                        ELSE [@ EXCEPT !.nUndoSize = @ + need]]
     /\ CASE mp.buf = NoMap ->
               /\ failure' = "open"
               /\ fileSize' = fs /\ revEnd' = re
               /\ UNCHANGED <<dirty, blkData>>
               /\ datafiles' = mp.slots /\ fileHistory' = mp.hist
          [] ~mp.buf.rw ->
               /\ failure' = "notWritable"
               /\ fileSize' = fs /\ revEnd' = re
               /\ UNCHANGED <<dirty, blkData>>
               /\ datafiles' = mp.slots /\ fileHistory' = mp.hist
          [] OTHER ->
               /\ fileSize' = IF grown = 0 THEN fs
                              ELSE [fs EXCEPT ![kind][f] = size + grown * chunk]
               /\ datafiles' = [mp.slots EXCEPT ![kind][f] =
                                  IF grown = 0 THEN mp.buf ELSE remap[grown]]
               /\ fileHistory' = Push(mp.hist, remap)
               /\ dirty' = dirty \cup {f}
               /\ IF kind = "blk"
                  THEN /\ blkData' = [blkData EXCEPT ![f] = Written(@, start, bs)]
                       /\ revEnd' = re
                  ELSE /\ revEnd' = [re EXCEPT ![f] = IF start <= @ THEN start + need ELSE @]
                       /\ UNCHANGED blkData
               /\ UNCHANGED failure

(* A file created (ofstream truncates it) and resized to size.             *)
Create(fs, k, f, size) == [fs EXCEPT ![k][f] = size]

(* Blocks::DB::writeBlock: a block goes to the last file, a new one when   *)
(* there is none yet or the block does not fit below MAX_BLOCKFILE_SIZE.   *)
WriteBlock(bs) ==
  LET first == VSize(vinfo) <= nLastBlockFile
      full  == ~first /\ vinfo[nLastBlockFile].nSize + bs + FrameSize > MaxBlockFileSize
      last  == IF full THEN nLastBlockFile + 1 ELSE nLastBlockFile
      new   == first \/ full
      v     == IF new THEN Resize(vinfo, last + 1) ELSE vinfo
      fs    == IF new THEN Create(fileSize, "blk", last, Max2(bs + FrameSize, BlockFileChunk))
               ELSE fileSize
  IN /\ last \in Files
     /\ WriteInto("blk", last, bs, v, fs, revEnd, last)

(* Blocks::DB::writeUndoBlock into rev file f: a file index past           *)
(* nLastBlockFile moves it up; the rev file is created (truncating any old *)
(* one) when the file is new or its info has no undo bytes yet.            *)
WriteUndo(bs, f) ==
  LET first  == VSize(vinfo) <= nLastBlockFile
      behind == ~first /\ nLastBlockFile < f
      last   == IF behind THEN Max2(nLastBlockFile + 1, f) ELSE nLastBlockFile
      v      == IF first \/ behind THEN Resize(vinfo, last + 1) ELSE vinfo
      create == first \/ behind \/ v[f].nUndoSize = 0
      fs     == IF create THEN Create(fileSize, "rev", f, Max2(bs + FrameSize, UndoFileChunk))
                ELSE fileSize
      re     == IF create THEN [revEnd EXCEPT ![f] = 0] ELSE revEnd
  IN IF f > last
     THEN \* assert(pos.nFile <= nLastBlockFile) aborts the process
          /\ failure' = "assert"
          /\ UNCHANGED <<nLastBlockFile, vinfo, dirty, fileSize, blkData, revEnd,
                         datafiles, fileHistory>>
     ELSE WriteInto("rev", f, bs, v, fs, re, last)

-----------------------------------------------------------------------------
Init ==
  /\ nLastBlockFile = 0
  /\ vinfo = Resize(<<>>, 0)
  /\ dirty = {}
  /\ fileSize = [k \in Kinds |-> [f \in Files |->
                   CASE f = Len(InitBlk) -> 0
                     [] k = "blk" -> GrownSize(BlockFileChunk, DataEnd(InitBlk[f + 1]), BlockFileChunk)
                     [] OTHER -> UndoFileChunk]]
  /\ blkData = [f \in Files |-> IF f < Len(InitBlk) THEN InitBlk[f + 1] ELSE <<>>]
  /\ revEnd = [f \in Files |-> 0]
  /\ datafiles = [k \in Kinds |-> [f \in Files |-> NoMap]]
  /\ fileHistory = <<>>
  /\ reindexing = "ScanningFiles"
  /\ dbReindex = 1
  /\ dbFileInfo = Resize(<<>>, 0)
  /\ dbLastFile = -1
  /\ ipc = "map"
  /\ nFile = 0
  /\ dataFile = NoMap
  /\ info = [nBlocks |-> 0, nSize |-> 0]
  /\ queue = {}
  /\ undoWritten = {}
  /\ writes = 0
  /\ crashes = 0
  /\ failure = "none"

(* Blocks::DB::setReindexing: nothing when the state is unchanged, else    *)
(* the new state in memory and in the 'R' key (erased for NoReindex).      *)
SetReindexing(state) ==
  /\ reindexing' = state
  /\ dbReindex' = IF reindexing = state THEN dbReindex
                  ELSE CASE state = "NoReindex" -> 0
                         [] state = "ScanningFiles" -> 1
                         [] OTHER -> 2

(* Mutant: foundBlockFile copies the whole info, undo size included.     *)
FoundBlockFileAll(index, inf) ==
  LET last == Max2(nLastBlockFile, index)
      v    == IF VSize(vinfo) <= last THEN Resize(vinfo, last + 1) ELSE vinfo
  IN /\ nLastBlockFile' = last
     /\ vinfo' = [v EXCEPT ![index] = [nBlocks |-> inf.nBlocks, nSize |-> inf.nSize, nUndoSize |-> 0]]

(* DBPrivate::foundBlockFile: raise nLastBlockFile to the file, and copy   *)
(* the scanned block count and size but not the undo size.                 *)
FoundBlockFile(index, inf) ==
  LET last == Max2(nLastBlockFile, index)
      v    == IF VSize(vinfo) <= last THEN Resize(vinfo, last + 1) ELSE vinfo
  IN /\ nLastBlockFile' = last
     /\ vinfo' = [v EXCEPT ![index].nBlocks = inf.nBlocks, ![index].nSize = inf.nSize]

(* reimportBlockFiles maps blk file nFile through loadBlockFile and       *)
(* LoadExternalBlockFile starts scanning it.                               *)
ImportMap ==
  LET mp == MapFile("blk", nFile, nLastBlockFile, fileSize)
  IN /\ ipc = "map" /\ mp.buf # NoMap
     /\ datafiles' = mp.slots /\ fileHistory' = mp.hist
     /\ dataFile' = mp.buf
     /\ info' = [nBlocks |-> 0, nSize |-> 0]
     /\ ipc' = "scan"
     /\ UNCHANGED <<nLastBlockFile, vinfo, dirty, fileSize, blkData, revEnd, reindexing,
                    dbReindex, dbFileInfo, dbLastFile, nFile, queue, undoWritten, writes,
                    crashes, failure>>

(* Mutant: a file that cannot be mapped is tried again.                   *)
ImportEndRetry ==
  LET mp == MapFile("blk", nFile, nLastBlockFile, fileSize)
  IN /\ ipc = "map" /\ mp.buf = NoMap
     /\ datafiles' = mp.slots
     /\ UNCHANGED <<nLastBlockFile, vinfo, dirty, fileSize, blkData, revEnd, fileHistory,
                    reindexing, dbReindex, dbFileInfo, dbLastFile, ipc, nFile, dataFile,
                    info, queue, undoWritten, writes, crashes, failure>>

(* A file that cannot be mapped (missing or pruned) makes                  *)
(* LoadExternalBlockFile return false: the scan ends and the reindex moves *)
(* to ParsingBlocks.                                                       *)
ImportEnd ==
  LET mp == MapFile("blk", nFile, nLastBlockFile, fileSize)
  IN /\ ipc = "map" /\ mp.buf = NoMap
     /\ datafiles' = mp.slots
     /\ SetReindexing("ParsingBlocks")
     /\ ipc' = "wait"
     /\ UNCHANGED <<nLastBlockFile, vinfo, dirty, fileSize, blkData, revEnd, fileHistory,
                    dbFileInfo, dbLastFile, nFile, dataFile, info, queue, undoWritten,
                    writes, crashes, failure>>

(* Mutant: the scanned size is taken before the payload is skipped.      *)
ScanBlockSizeBeforePayload ==
  LET s == blkData[nFile]
      i == info.nBlocks
  IN /\ ipc = "scan"
     /\ i < Len(s) /\ info.nSize < dataFile.size - 1
     /\ Cardinality(queue) < QueueSize
     /\ queue' = queue \cup {[file |-> nFile, n |-> i + 1]}
     /\ info' = [nBlocks |-> i + 1, nSize |-> FrameEnd(s, i) + FrameSize]
     /\ UNCHANGED <<nLastBlockFile, vinfo, dirty, fileSize, blkData, revEnd, datafiles,
                    fileHistory, reindexing, dbReindex, dbFileInfo, dbLastFile, ipc,
                    nFile, dataFile, undoWritten, writes, crashes, failure>>

(* One turn of LoadExternalBlockFile's loop over the mapped buffer, which  *)
(* ends one byte before the end of the file: the frame at the scan         *)
(* position is handed to validation (after waitForSpace) and counted.      *)
ScanBlock ==
  LET s == blkData[nFile]
      i == info.nBlocks
  IN /\ ipc = "scan"
     /\ i < Len(s) /\ info.nSize < dataFile.size - 1
     /\ Cardinality(queue) < QueueSize
     /\ queue' = queue \cup {[file |-> nFile, n |-> i + 1]}
     /\ info' = [nBlocks |-> i + 1, nSize |-> FrameEnd(s, i + 1)]
     /\ UNCHANGED <<nLastBlockFile, vinfo, dirty, fileSize, blkData, revEnd, datafiles,
                    fileHistory, reindexing, dbReindex, dbFileInfo, dbLastFile, ipc,
                    nFile, dataFile, undoWritten, writes, crashes, failure>>

(* No frame at the scan position (memchr finds no magic) or the position   *)
(* at the buffer's end: the file is registered with foundBlockFile when it *)
(* held blocks, LoadExternalBlockFile drops its buffer and returns, and    *)
(* reimportBlockFiles moves on to the next file.                           *)
ScanDone ==
  /\ ipc = "scan"
  /\ ~(info.nBlocks < Len(blkData[nFile]) /\ info.nSize < dataFile.size - 1)
  /\ IF info.nBlocks > 0 THEN FoundBlockFile(nFile, info)
     ELSE UNCHANGED <<nLastBlockFile, vinfo>>
  /\ dataFile' = NoMap
  /\ nFile' = nFile + 1
  /\ ipc' = "map"
  /\ UNCHANGED <<dirty, fileSize, blkData, revEnd, datafiles, fileHistory, reindexing,
                 dbReindex, dbFileInfo, dbLastFile, info, queue, undoWritten, writes,
                 crashes, failure>>

(* waitValidationFinished, then setReindexing(NoReindex).                  *)
ImportWait ==
  /\ ipc = "wait" /\ queue = {}
  /\ SetReindexing("NoReindex")
  /\ ipc' = "flush"
  /\ UNCHANGED <<nLastBlockFile, vinfo, dirty, fileSize, blkData, revEnd, datafiles,
                 fileHistory, dbFileInfo, dbLastFile, nFile, dataFile, info, queue,
                 undoWritten, writes, crashes, failure>>

(* WriteBatchSync as FlushStateToDisk calls it: the infos of the dirty     *)
(* files and the 'l' key in one synced batch, then setDirtyFileInfo is     *)
(* emptied.                                                                *)
WriteBatchSync ==
  /\ dbFileInfo' = [f \in DOMAIN dbFileInfo \cup dirty |->
                      IF f \in dirty THEN vinfo[f] ELSE dbFileInfo[f]]
  /\ dbLastFile' = nLastBlockFile
  /\ dirty' = {}

(* reimportBlockFiles' FlushStateToDisk after the reindex.                 *)
ImportFlush ==
  /\ ipc = "flush"
  /\ WriteBatchSync
  /\ ipc' = "done"
  /\ UNCHANGED <<nLastBlockFile, vinfo, fileSize, blkData, revEnd, datafiles, fileHistory,
                 reindexing, dbReindex, nFile, dataFile, info, queue, undoWritten, writes,
                 crashes, failure>>

(* A validation worker validates a block handed to it and writes its undo  *)
(* data into the rev file of the block's file (writeUndoBlock).            *)
Validate(q, bs) ==
  /\ q \in queue /\ failure = "none"
  /\ WriteUndo(bs, q.file)
  /\ queue' = queue \ {q}
  /\ undoWritten' = IF failure' = "none"
                    THEN undoWritten \cup {[file |-> q.file, end |-> revEnd'[q.file]]}
                    ELSE undoWritten
  /\ UNCHANGED <<reindexing, dbReindex, dbFileInfo, dbLastFile, ipc, nFile, dataFile,
                 info, writes, crashes>>

(* The consensus layer stores a new block (Blocks::DB::writeBlock); it     *)
(* downloads new blocks only once no reindex is running.                   *)
NewBlock(bs) ==
  /\ reindexing = "NoReindex" /\ failure = "none" /\ writes < MaxWrites
  /\ WriteBlock(bs)
  /\ writes' = writes + 1
  /\ UNCHANGED <<reindexing, dbReindex, dbFileInfo, dbLastFile, ipc, nFile, dataFile,
                 info, queue, undoWritten, crashes>>

(* The periodic FlushStateToDisk of the validation engine.                 *)
Flush ==
  /\ WriteBatchSync
  /\ UNCHANGED <<nLastBlockFile, vinfo, fileSize, blkData, revEnd, datafiles, fileHistory,
                 reindexing, dbReindex, ipc, nFile, dataFile, info, queue, undoWritten,
                 writes, crashes, failure>>

(* The file infos read back at startup: the 'f' keys of files 0, 1, ...    *)
(* up to the 'l' key, stopping at the first missing one.                   *)
StoredInfos ==
  LET n == CHOOSE n \in 0..(dbLastFile + 1) :
             /\ 0..(n - 1) \subseteq DOMAIN dbFileInfo
             /\ n = dbLastFile + 1 \/ n \notin DOMAIN dbFileInfo
  IN [f \in 0..(n - 1) |-> dbFileInfo[f]]

(* The process dies and starts again: memory, the mapping cache and the    *)
(* validation queue are lost; nLastBlockFile and vinfoBlockFile are read   *)
(* back from 'l' and 'f'; the DB constructor takes the reindex state from  *)
(* 'R' (1 is ScanningFiles, any other value ParsingBlocks) and             *)
(* startBlockImporter starts reimportBlockFiles unless it is NoReindex.    *)
Crash ==
  /\ crashes < MaxCrashes
  /\ nLastBlockFile' = IF dbLastFile < 0 THEN 0 ELSE dbLastFile
  /\ vinfo' = StoredInfos
  /\ dirty' = {}
  /\ datafiles' = [k \in Kinds |-> [f \in Files |-> NoMap]]
  /\ fileHistory' = <<>>
  /\ reindexing' = CASE dbReindex = 0 -> "NoReindex"
                     [] dbReindex = 1 -> "ScanningFiles"
                     [] OTHER -> "ParsingBlocks"
  /\ ipc' = CASE dbReindex = 0 -> "done"
              [] dbReindex = 1 -> "map"
              [] OTHER -> "wait"
  /\ nFile' = 0
  /\ dataFile' = NoMap
  /\ info' = [nBlocks |-> 0, nSize |-> 0]
  /\ queue' = {}
  /\ undoWritten' = {}
  /\ crashes' = crashes + 1
  /\ failure' = "none"
  /\ UNCHANGED <<fileSize, blkData, revEnd, dbReindex, dbFileInfo, dbLastFile, writes>>

ImporterStep == ImportMap \/ ImportEnd \/ ScanBlock \/ ScanDone \/ ImportWait \/ ImportFlush
ValidationStep == \E q \in queue, bs \in BlockSizes : Validate(q, bs)

NextRunning ==
  \/ ImporterStep
  \/ ValidationStep
  \/ \E bs \in BlockSizes : NewBlock(bs)
  \/ Flush

Next == NextRunning \/ Crash

(* The importer is a thread of its own and the validation engine runs     *)
(* worker threads while blocks are queued: both keep taking steps that are *)
(* enabled.  New blocks, flushes and crashes are left to the environment.  *)
Fairness == WF_vars(ImporterStep) /\ WF_vars(ValidationStep)

SpecRunning == Init /\ [][NextRunning]_vars /\ Fairness
Spec == Init /\ [][Next]_vars /\ Fairness

-----------------------------------------------------------------------------
Info == [nBlocks : Nat, nSize : Nat, nUndoSize : Nat]

TypeOK ==
  /\ nLastBlockFile \in Files
  /\ DOMAIN vinfo = 0..(VSize(vinfo) - 1) /\ \A f \in DOMAIN vinfo : vinfo[f] \in Info
  /\ dirty \subseteq DOMAIN vinfo
  /\ fileSize \in [Kinds -> [Files -> Nat]]
  /\ datafiles \in [Kinds -> [Files -> Mapping \cup {NoMap}]]
  /\ fileHistory \in Seq(Mapping) /\ Len(fileHistory) <= HistorySize
  /\ reindexing \in {"NoReindex", "ScanningFiles", "ParsingBlocks"}
  /\ dbReindex \in 0..2
  /\ ipc \in {"map", "scan", "wait", "flush", "done"}
  /\ dataFile \in Mapping \cup {NoMap}
  /\ queue \subseteq [file : Files, n : Nat] /\ Cardinality(queue) <= QueueSize
  /\ failure \in {"none", "open", "notWritable", "assert"}

(* Once the reindex is over, the in-memory file infos describe every blk   *)
(* file on disk: each file with blocks is registered, its nSize is the end *)
(* of its data, and nLastBlockFile is at least its index, so the next      *)
(* writeBlock appends after the data rather than over it.  The scan's     *)
(* count, foundBlockFile and the persisted 'R' key have to agree for this. *)
InfoCoversDisk ==
  reindexing = "NoReindex" =>
    \A f \in Files : blkData[f] # <<>> =>
      /\ f \in DOMAIN vinfo
      /\ vinfo[f].nSize = DataEnd(blkData[f])
      /\ f <= nLastBlockFile

(* Every undo block validation wrote is still in its rev file: neither a   *)
(* later undo write nor a recreation of the rev file (when its info says   *)
(* it holds no undo bytes) has truncated or overwritten it.                *)
UndoKept == \A u \in undoWritten : revEnd[u.file] >= u.end

(* A writeBlock never throws "File is not writable": the mapping of the    *)
(* file it writes to is read-write.                                        *)
WritesWritable == failure # "notWritable"

(* The frames of the blk file the importer holds, in bytes: a payload of  *)
(* l units is MinBlockSize - 1 + l bytes, so a one-unit block is exactly  *)
(* the size of a block header, and each unit of free space is a zero.      *)
ScannedPayloadLengths == [k \in DOMAIN blkData[nFile] |-> MinBlockSize - 1 + blkData[nFile][k]]

(* ScanBlock's frame-by-frame reading is what LoadExternalBlockFile's     *)
(* byte-level loop does: for the file the importer has mapped, and for    *)
(* any payload bytes (the first magic byte among them), memchr over a     *)
(* quarter of what remains, the unchecked magic and the `< 80` skip find  *)
(* exactly the blocks writeBlock wrote and end at the last of them.        *)
ScanFindsWrittenBlocks ==
  ipc = "scan" =>
    \A ps \in PayloadsOf(ScannedPayloadLengths) :
      ScanMatchesFrames(ps, dataFile.size - DataEnd(blkData[nFile]))

(* The reindex finishes: the importer reaches the end of reimportBlockFiles *)
(* with every block it handed to validation validated.                     *)
ReindexCompletes == <>(ipc = "done")
=============================================================================
