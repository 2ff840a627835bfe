\* Crashes and restarts with a caller that persists records only through
\* WriteBatchSync, together with the file infos.  Sizes are scaled down: an 8-byte
\* frame is 1 unit, a 32-byte checksum 1 unit, a blk file holds 5 units.
CONSTANTS
  MaxBlockFileSize = 5
  BlockFileChunk = 2
  UndoFileChunk = 2
  FrameSize = 1
  ChecksumSize = 1
  BlockSizes = {1, 2}
  MaxWrites = 4
  MaxCrashes = 1
  Magic <- MCMagic
  MinBlockSize = 8
  PayloadBytes = {0, 227}
SPECIFICATION SpecSynced
INVARIANTS TypeOK RecordsReadBack BlkFileWithinMax
