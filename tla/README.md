# TLA+ models of the Flowee hub block store

This directory holds TLA+ models of `src/libs/server/BlocksDB.cpp` (the block
database: header chains, header index, raw block files, metadata store,
reindex) and of `src/hub-qt/qvalidatedlineedit.cpp`. It also holds the TLC
configurations that check them. `PROJECT.json` lists:
- every component and its status;
- every run and what it checks;
- the mutant that each checked property must catch;
- the source lines behind every definition;
- the findings;
- the hazards of the code.

## The system

| Part | Code | State | Operations |
|---|---|---|---|
| ChainSet | `Blocks::DB::appendHeader` | `headerChainTips` (a list), `headersChain` (its tip), `pindexBestHeader` | appendHeader, headerChain, headerChainTips |
| HeaderIndex | `Blocks::Index`, `InsertBlockIndex`, `CacheAllBlockInfos` | `indexMap` (hash to CBlockIndex), the status flags | insert, get, exists, reconsiderBlock, fileIndexes, allByHeight, unload, load |
| RawFileWriter | `DBPrivate::writeBlock`, `DB::writeBlock`, `DB::writeUndoBlock` | `nLastBlockFile`, `vinfoBlockFile`, `setDirtyFileInfo`, the bytes of `blkNNNNN.dat` / `revNNNNN.dat` | write a framed block, or a framed and checksummed undo block |
| FileMapper | `mapFile`, `fileHasGrown`, `revertFileHasGrown`, `loadBlock`, `loadBlockFile` | `datafiles` / `revertDatafiles` slots, `fileHistory` (the last 10 mappings) | map a file read-only or read-write, invalidate after growth, read a block |
| MetaStore | `WriteBatchSync`, `appendBlock`, `Read/WriteFlag`, `ReadBlockFileInfo`, `ReadLastBlockFile`, tx index | the keys `b`, `f`, `l`, `R`, `F`, `t` | synced batch of file infos, last file and records; single record |
| ReindexCoordinator | `reimportBlockFiles`, `LoadExternalBlockFile`, `setReindexing`, `foundBlockFile` | the reindex state (in memory and as key `R`) | scan blk files, register what was found |
| Facade | `createInstance`, `shutdown`, the `DB` constructor | the singleton | restart |
| QValidatedLineEdit | the whole file | `valid`, and the QLineEdit's text, enabled state and focus | setValid, focusIn/Out, markValid, clear, setEnabled, checkValidity, isValid |

How the parts interact:
- The consensus layer (outside `src/`) submits headers to appendHeader.
- It writes block bodies and undo data through writeBlock and writeUndoBlock. These choose a file and grow it through mapFile.
- It persists records with appendBlock, and everything with WriteBatchSync.
- On startup, CacheAllBlockInfos reads the index and replays appendHeader.
- After corruption, the reindex thread scans the blk files. It hands block positions to validation, and registers each file with foundBlockFile.

Validation re-writes the undo data of those blocks concurrently with the scan.
The base chain parameters (`chainparamsbase.cpp`) are a constant table; they
are not modelled (see below).

## Modules

**BlockTree** holds the constant tree of headers that may ever be announced:
- `Prev`;
- `Height`, `ChainWork` and `GetAncestor`, which are RECURSIVE;
- `IsAncestor` and `Descendants`.

CBlockIndex and `GetAncestor` live outside `src/`, so these operators are
written from the spec (I1, I2, P2).

**HeaderChains** (extends BlockTree) models appendHeader exactly as the code runs it:
- `AppendHeader(block, failed)` computes the whole call as one record: new tip list, main tip, best header, return value, or an assertion failure.
- Its sub-operators follow the code's blocks:
  - `NearestValid`: the validPrev loop.
  - The first loop, through `SelectInSeq`.
  - `OnSomeTip` and `ScanTip`: the second loop, folded over the list with `FoldLeft`.
  - `ReaddValidPrev`.
  - `FinishAppend`: the final work comparison.

The actions:
- **Consensus:** `AcceptHeader` (InsertBlockIndex plus appendHeader), `Reappend`.
- **Failure:** `InvalidateBlock` (the spec's failure marking, then appendHeader), `ReconsiderBlock`.
- **Restart:** `Restart` (the in-memory chain is lost), `LoadHeader` (one iteration of CacheAllBlockInfos, in any order, with `workKnown = FALSE` because nChainWork is not loaded), `FinishLoad`.

Specifications: `SpecConsensus`, `SpecRestart`, `SpecInvalidate`, `SpecFailure` and `Spec` combine these groups.

**ChainSet** is the abstract promise of the header bookkeeping (spec sections 3 and 4.5):
- a set of known headers, whose leaves are the tips;
- a main tip that a new header replaces only with strictly more work, so the first seen wins a tie;
- a best header equal to the main tip.

HeaderChains instantiates it as `Abstract` with `INSTANCE ... WITH`. The refinement mapping takes the index, the range of the tip list, headersChain's tip and pindexBestHeader. `ChainSetRefined` (`Abstract!Spec`) is checked in chains_consensus: every AcceptHeader is an AddHeader, and every Reappend is a stutter.

**MC_HeaderChains** instantiates the tree with model values:
- an 8-header tree with three forks, one of them heavier (`MCParent`, `MCWork`);
- a 5-header tree for the runs with failures and restarts.

**BlockFiles** models the raw file store and its persistence:
- File contents are one stamp per byte: 0 for never written, otherwise the id of the write that stored it. A record reads back exactly when its frame, payload and (for undo data) its checksum still carry its stamp.
- `WriteBlock` and `WriteUndo` are writeBlock's file choice, new-file creation (ofstream truncates) and the `first`, `full` and `behind` branches.
- `WriteInto` is the rest of writeBlock: mapping, a missing file, the chunked grow loop, the memcpy and the size accounting.
- `AppendBlock` and `WriteBatchSync` are the two ways records reach the metadata store.
- `CrashRestart` loses memory and reloads `nLastBlockFile` and `vinfoBlockFile` from `l` and `f`. The loader is outside `src/`, so it reads the stored infos from file 0 up, stopping at the first missing one.
- `LoadBlock` is loadBlock's outcome: ok, error (it throws), or corrupt (another block's bytes).
- `written` is a history variable: every record any write stored, kept across crashes. Only properties read it.
- `BlkImage` turns a blk file into the bytes LoadExternalBlockFile scans. Every unit is 8 bytes:
  - a unit holding a frame is the magic and the payload length;
  - zero units and the payloads of live frames are zeros (ScanFindsWrittenBlocks shows the scan jumps over them);
  - an orphan unit (a payload unit whose frame a later write overwrote) holds any two little-endian words with values in `PayloadBytes`.

Sizes are scaled down, and the constants keep their roles:
- the 8-byte frame is 1 unit and the 32-byte checksum is 1 unit;
- a blk file holds 5 units, and chunks are 2 units.

The inequalities in the code (`> MAX`, `>= fileSize`) are unchanged, so every
boundary case (exact fit, one over, a new file, growth by one chunk or several)
occurs with payloads of 1 and 2.

**Reindex** models the reindex thread running alongside the writer, with the mapping cache between them:
- `MapFile` is mapFile: it reuses a slot whose buffer is still alive, returns nothing for a missing file, and otherwise maps the file. The mapping is read-write for a rev file or the current last blk file, and read-only otherwise. The new mapping goes into the slot and into `fileHistory`, which keeps only the last `HistorySize` mappings.
- A mapping is alive (`Live`) while the history or the importer's `dataFile` holds it. That models the weak buffer and cleanupLambda.
- `WriteBlock`, `WriteUndo` and `WriteInto` are writeBlock over this cache. They cover file choice, creation, the open and not-writable failures, and growth that replaces the mapping. Block payloads are kept as a sequence of sizes, so the frames of a blk file are known.
- The importer's steps are the lines of reimportBlockFiles and LoadExternalBlockFile:
  - `ImportMap` is loadBlockFile;
  - `ImportEnd` is the missing file that ends the loop, followed by setReindexing(ParsingBlocks);
  - `ScanBlock` is one frame of the scan (waitForSpace, addBlock);
  - `ScanDone` is foundBlockFile;
  - `ImportWait` is waitValidationFinished and setReindexing(NoReindex);
  - `ImportFlush` is the final flush.
- `Validate` is a validation worker: it takes a queued block and writes its undo data with writeUndoBlock.
- `NewBlock` is a block written after the reindex, and `Flush` is a periodic flush.
- `Crash` loses memory, reloads the file infos and `l`, and restarts the importer according to the stored `R` key. It covers the constructor and startBlockImporter.

**BlockScan** is the byte-level scan of LoadExternalBlockFile:
- `ScanFrom` is a RECURSIVE operator for the loop. It covers memchr over a quarter of what remains, the unchecked magic bytes, the little-endian size, the `< 80` skip, and the jump over the payload.
- It runs over the buffer that loadBlockFile returns, which is one byte short of the file.
- Reindex extends it. `ScanFindsWrittenBlocks` checks, in every state where the importer holds a blk file, that the scan of that file's bytes finds exactly the frames in `blkData` and ends where they end. The check covers every choice of payload bytes among 0, 5 and the first magic byte 227.
- The header size 80 is scaled to 2, and a payload of l units is 1 + l bytes, so a one-unit block is exactly the header size. Free space is zero bytes.
- This property justifies ScanBlock's frame-by-frame abstraction. Its mutant skips a payload of exactly the header size.

**MC_BlockFiles** gives the main-chain magic for the byte image.

**MC_Reindex** gives the initial disk: blk file 0 holds blocks of sizes 2 and 1, blk file 1 holds one block of size 1, and each has a rev file.

**QValidatedLineEdit** models a form of edits that share the keyboard focus:
- Texts are four classes: empty; intermediate; accepted by the edit's validator but not by the checkValidator (another network's address); a valid address.
- The actions are the handlers. Each one includes Qt's own part that the handler triggers: `textChanged` runs markValid; a focus move sends focus-out before focus-in; disabling the focus widget moves the focus away.

## Runs

| Run | Checks | Result |
|---|---|---|
| chains_consensus | TipsAreLeaves, ReturnReportsChange, ChainSetRefined | pass (8 headers, 241 states) |
| chains_failure | TypeOK, FailureInherited, NoValidHeaderLostKept (every step but reconsiderBlock keeps each valid header under a tip) under invalidate and reconsider | pass (1096 states) |
| chains_chain_state | ChainStateKept (the ChainSet state of spec section 3) under invalidate and reconsider | violation: line 424 leaves pindexBestHeader on a failed header |
| chains_reload | ReloadRebuildsChains: the load never aborts and ends with leaf tips and a most-work main tip | violation: a failed header loaded first hits the assert at line 449 |
| files_synced_crash | TypeOK, RecordsReadBack, BlkFileWithinMax with crashes, records persisted only by WriteBatchSync | pass (10736 states) |
| files_append_crash | NoSilentCorruption with crashes and appendBlock | violation: a stale offset after a crash |
| files_stale_scan | ReindexRecoversBlocks: the scan of every blk file reports exactly the frames intact on disk, with crashes and WriteBatchSync only | violation: after a write from the stale nSize, a stale payload byte equal to the first magic byte is reported as a block |
| reindex_running | TypeOK, InfoCoversDisk, UndoKept, ScanFindsWrittenBlocks, ReindexCompletes | pass (3005 states) |
| reindex_readonly | WritesWritable | violation: the scan's read-only mapping of the last blk file is reused by writeBlock |
| reindex_crash | InfoCoversDisk with one crash | violation: a restart in ParsingBlocks skips the scan whose results were only in memory |
| lineedit_form | TypeOK, NoStaleInvalid | pass (836 states) |
| lineedit_disable | DisabledShownValid | violation: the focus-out after setValid(true) |

Each violation run shows the shortest trace. The run's property is also broken by other causes, and each was reached by checking one conjunct alone:
- `ChainStateKept`:
  - with `NoValidHeaderLost` alone, an InvalidateBlock followed by a ReconsiderBlock leaves a valid header under no tip (line 534);
  - with `MainTipHasMostWork` alone under SpecInvalidate, the early return at line 403 leaves the main chain on a lighter tip.
- `ReindexRecoversBlocks`: with `PayloadBytes = {0}`, so that no false block can appear, blocks 2 and 3 are written after a sync and lost in a crash. Block 4 then overwrites block 2's frame. Block 3 is still intact on disk, but the scan never finds it, because memchr searches only a quarter of what remains, which is block 2's stale zeros. With every orphan byte zero and blk files of 5 units, the property holds under both specs (10736 and 79137 states), so the encoding itself raises no false alarm.
- `ReloadRebuildsChains`: with MaxInvalidations = 0, the replay with nChainWork still 0 (line 253) leaves the main chain on a1 while b1 has more work.

The bounds, and why they are enough:
- **MaxInvalidations = 2 and MaxRestarts = 1.** They let every failure case occur: invalidating a main tip, a side tip, an inner header, and invalidating twice.
- **Bound on the tip list.** Without these bounds the tip list grows without limit. validPrev is pushed again at lines 399 and 439 even when another tip already covers it. Under invalidation the list is therefore not one tip per leaf, as the spec describes it. TipsAreLeaves is checked only where no header fails.
- **MaxWrites = 4.** It fills a blk file, moves to a second one and writes undo data to both.
- **One crash.** It reaches the stale-offset overwrite.
- **files_stale_scan: blk files of 8 units.** Room for one synced block and two unsynced ones behind it, so an intact frame can lie past a stale tail. `PayloadBytes = {0, 227}` gives orphan units with and without a false magic byte.
- **Two edits.** They are enough for every focus transfer.
- **Reindex: two blk files, one more missing; HistorySize = 2, QueueSize = 2, MaxWrites = 2, at most one crash.**
  - Two files are enough for the scan to map a file while it is not yet the last one.
  - A history of 2 stands for the code's 10. It is still longer than the number of mappings made between the scan of the last file and the first write after the reindex.
  - A queue of 2 makes the scan block on waitForSpace.
  - An undo chunk of 4 units against payloads of 1 or 2 mirrors the real 1 MiB chunk against small undo blocks. With it, a first undo write does not always grow the file, so a later undo write can land in a rev file created earlier, which is the case UndoKept is about.

## Fairness

Only reindex_running checks a liveness property (ReindexCompletes). It assumes weak fairness of the importer's steps and of the validation step:
- reimportBlockFiles runs on a dedicated thread (`Application::createThread`);
- validation runs its own worker pool (spec, scheduling model);
- neither is ever blocked for good while it is enabled.

New blocks, flushes and crashes get no fairness, because nothing in the code forces them to happen.

## Findings

Details are in `PROJECT.json`. In short:
1. Invalidating a header on the main chain can leave pindexBestHeader (and, behind a redundant tip, the main tip) on a failed header. It can also leave the main chain on a lighter tip. reconsiderBlock leaves the tips alone, so a reconsidered header lies under no tip.
2. The reindex scan maps the future last blk file read-only, and fileHistory keeps that mapping. The first writeBlock after the reindex then throws "File is not writable".
3. After a restart a failed header loaded first aborts the load. CacheAllBlockInfos replays appendHeader in hash order with nChainWork still 0, so even without failures the main chain it leaves depends on that order rather than on work.
4. appendBlock persists `l` and a record without the FileInfo. A crash before the next batch sync lets the next write overwrite the block, and loadBlock silently returns another block.
5. Disabling the focused line edit can show it invalid, contrary to its comment.
6. A restart in ParsingBlocks skips the scan, but the scan's file infos were only in memory: foundBlockFile does not mark them dirty. The reindex then ends with no file info for data on disk, and the next block overwrites blk file 0.
7. A crash before the batch sync is not recovered by the reindex, contrary to spec section 5. After the restart, writeBlock overwrites the unsynced block from the stale nSize, and the scan of the file goes wrong in the tail left behind. It reports a stale payload byte equal to the first magic byte as a block. And, because memchr searches only a quarter of what remains, a stale zero tail hides the next unsynced block, which is still intact on disk.

## Plan

Built, in order of importance: HeaderChains (with its ChainSet refinement), BlockFiles (with the byte image of its blk files), Reindex (with the mapping cache and BlockScan), QValidatedLineEdit. Nothing further of `src/` can be added faithfully within TLC's reach; the parts left out are listed below with the reason.

## Not modelled

- **Base chain parameters.** A constant table and a flag parser, with no state changing over time. The spec puts the chain-parameter registry out of scope. Its one use in the block store, the network magic, is the `Magic` constant of BlockScan.
- **FILE*-based `OpenDiskFile`, `getFilepathForIndex` and `loadConfig`.** Path handling.
- **The tx index and the `F` flags.** Stored values that no modelled operation reads.
- **The validation engine and the consensus layer.** Outside `src/`. They appear only as the environment actions named above: Validate, NewBlock and Flush in Reindex.
- **Concurrent loadBlock readers as threads of their own.** A reader gets its buffer from mapFile and then only reads. What it returns depends only on whether its record's bytes survive, which BlockFiles' LoadBlock models. Reading through a mapping of a file that was truncated meanwhile (SIGBUS) is operating-system behaviour outside the model.
- **fileHasGrown / revertFileHasGrown as separate steps.** They run under the mapper lock inside the write that grows the file, so they are part of WriteInto.
