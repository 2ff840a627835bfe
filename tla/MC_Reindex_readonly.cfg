\* The reindex without crashes, with the importer and validation weakly fair.
\* Sizes are scaled down as in BlockFiles: an 8-byte frame and a 32-byte
\* checksum are 1 unit each, a blk file holds 5 units, chunks are 2 units.
CONSTANTS
  MaxBlockFileSize = 5
  BlockFileChunk = 2
  UndoFileChunk = 4
  FrameSize = 1
  ChecksumSize = 1
  BlockSizes = {1, 2}
  HistorySize = 2
  QueueSize = 2
  InitBlk <- MCInitBlk
  MaxWrites = 2
  MaxCrashes = 0
  NoMap = NoMap
  Magic <- MCMagic
  MinBlockSize = 2
  PayloadBytes = {0, 5, 227}
SPECIFICATION SpecRunning
INVARIANT WritesWritable
