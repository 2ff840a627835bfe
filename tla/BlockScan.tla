----------------------------- MODULE BlockScan ------------------------------
(***************************************************************************)
(* The byte-level scan of a blk file in LoadExternalBlockFile              *)
(* (src/libs/server/BlocksDB.cpp), as a pure operator over the bytes of   *)
(* the buffer loadBlockFile hands it, checked against the frames that      *)
(* DBPrivate::writeBlock put into the file.                                *)
(*                                                                         *)
(* The scan looks for the first byte of the network magic with memchr,    *)
(* over only a quarter of the bytes that remain, skips the other three    *)
(* magic bytes unchecked, reads the little-endian size and, for a size of *)
(* at least the size of a block header, reports a block and jumps over    *)
(* its payload.  A file as the writer leaves it is a run of frames        *)
(* (magic, size, payload) followed by the zeros of the last grown chunk.  *)
(***************************************************************************)
EXTENDS Naturals, Sequences, SequencesExt, FiniteSets

CONSTANTS
  Magic,         \* Params().MessageStart(), four bytes
  MinBlockSize,  \* the 80 of `if (blockSize < 80) continue;`
  PayloadBytes   \* the byte values payloads are made of

(* htole32(n), the four bytes of the size field.                           *)
LE32(n) == [i \in 1..4 |-> (n \div (256 ^ (i - 1))) % 256]

(* le32toh of the four bytes at offset at of file f; bytes past the end of *)
(* the file read as the zeros of the rest of the mapped page.              *)
ReadLE32(f, at) ==
  LET byte(i) == IF at + i <= Len(f) THEN f[at + i] ELSE 0
  IN byte(1) + 256 * byte(2) + 65536 * byte(3) + 16777216 * byte(4)

(* A record as writeBlock lays it out: magic, size, payload.              *)
Frame(payload) == Magic \o LE32(Len(payload)) \o payload

(* The bytes of a blk file: the frames, then tail zero bytes.             *)
FileBytes(payloads, tail) ==
  FoldLeft(LAMBDA acc, p : acc \o Frame(p), <<>>, payloads) \o [i \in 1..tail |-> 0]

(* The offset (0-based) of the first byte of each payload: pos.nPos.      *)
PayloadOffsets(payloads) ==
  [k \in 1..Len(payloads) |->
     FoldLeft(LAMBDA acc, p : acc + 8 + Len(p), 0, SubSeq(payloads, 1, k - 1)) + 8]

(* The offset just past the last frame.                                    *)
FramesEnd(payloads) == FoldLeft(LAMBDA acc, p : acc + 8 + Len(p), 0, payloads)

(* memchr(buf, Magic[1], n) over the buffer d: the offset of the first    *)
(* matching byte in [buf, buf + n), or -1 for nullptr.                     *)
MemChr(d, buf, n) ==
  LET hits == {i \in buf..(buf + n - 1) : d[i + 1] = Magic[1]}
  IN IF hits = {} THEN -1 ELSE Min(hits)

(* Mutant: a size equal to the block-header size is skipped as well.     *)
RECURSIVE ScanFromSkipEqual(_, _, _, _)
ScanFromSkipEqual(f, d, buf, acc) ==
  IF buf >= Len(d) THEN acc
  ELSE LET at == MemChr(d, buf, (Len(d) - buf) \div 4)
       IN IF at = -1 THEN acc
          ELSE LET size == ReadLE32(f, at + 4)
               IN IF size <= MinBlockSize
                  THEN ScanFromSkipEqual(f, d, at + 4, acc)
                  ELSE ScanFromSkipEqual(f, d, at + 8 + size,
                         [pos |-> Append(acc.pos, at + 8),
                          nSize |-> at + 8 + size])

(* The loop `while (buf < dataFile.end())` from offset buf over the        *)
(* buffer d of file f: acc collects the positions handed to               *)
(* validation->addBlock and info.nSize (nBlocks is their number).          *)
RECURSIVE ScanFrom(_, _, _, _)
ScanFrom(f, d, buf, acc) ==
  IF buf >= Len(d) THEN acc
  ELSE LET at == MemChr(d, buf, (Len(d) - buf) \div 4)
       IN IF at = -1 THEN acc
          ELSE LET size == ReadLE32(f, at + 4)
               IN IF size < MinBlockSize
                  THEN ScanFrom(f, d, at + 4, acc)
                  ELSE ScanFrom(f, d, at + 8 + size,
                         [pos |-> Append(acc.pos, at + 8),
                          nSize |-> at + 8 + size])

(* LoadExternalBlockFile over file f: loadBlockFile's buffer stops one    *)
(* byte short of the end of the file.                                      *)
ScanFile(f) == ScanFrom(f, SubSeq(f, 1, Len(f) - 1), 0, [pos |-> <<>>, nSize |-> 0])

(* Every sequence of payloads with the lengths ls, over PayloadBytes.     *)
PayloadsOf(ls) ==
  {ps \in [DOMAIN ls -> UNION {[1..n -> PayloadBytes] : n \in ToSet(ls)}] :
     \A k \in DOMAIN ls : Len(ps[k]) = ls[k]}

(* The scan of a file holding payloads ps and tail zero bytes finds the    *)
(* payload offsets writeBlock returned and the end of the last frame.      *)
ScanMatchesFrames(ps, tail) ==
  ScanFile(FileBytes(ps, tail)) = [pos |-> PayloadOffsets(ps), nSize |-> FramesEnd(ps)]
=============================================================================
