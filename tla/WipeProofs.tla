----------------------------- MODULE WipeProofs -----------------------------
(***************************************************************************)
(* Proofs about DiskWipe.tla for every number of data blocks, any number   *)
(* of faults and any host.  The invariant of Vault.tla is of no use here:  *)
(* a purge breaks it.  WipeInv needs only that the file stays an image.    *)
(***************************************************************************)
EXTENDS DiskWipe, TLAPS

CreatingAt == {"set_len", "superblock", "sync_new"}

FileTypeOK == cache \in Image /\ disk \in Image /\ bitmap \in SUBSET Bit

\* What a power loss leaves is an image, with a superblock only if one of the
\* two copies had one; a block that both copies agree on stays.
LEMMA SurvivingImage ==
    ASSUME cache \in Image, disk \in Image, NEW img \in Survivors
    PROVE  /\ img \in Image
           /\ cache.file # Valid /\ disk.file # Valid => img.file # Valid
           /\ \A b \in Bit : img.block[b] \in
                  {"torn", cache.block[b], disk.block[b]}
<1>1. /\ img.file \in Between(disk.file, cache.file)
      /\ img.bitmap \in {(cache.bitmap \cap disk.bitmap) \cup some :
                            some \in SUBSET (cache.bitmap \cup disk.bitmap)}
      /\ img.block \in {Mixture(torn, lost) : torn \in SUBSET Unsynced,
                                         lost \in SUBSET Unsynced}
      /\ img = [file |-> img.file, bitmap |-> img.bitmap, block |-> img.block]
  BY DEF Survivors
<1>2. PICK torn \in SUBSET Unsynced, lost \in SUBSET Unsynced :
          img.block = Mixture(torn, lost)
  BY <1>1
<1>3. cache.file \in Absent .. Valid /\ disk.file \in Absent .. Valid
  BY DEF Image
<1>4. /\ img.file \in Absent .. Valid
      /\ cache.file # Valid /\ disk.file # Valid => img.file # Valid
  BY <1>1, <1>3 DEF Between, Absent, Valid
<1>5. img.bitmap \in SUBSET Bit
  BY <1>1 DEF Image
<1>6. img.block \in [Bit -> Content]
  BY <1>2 DEF Image, Content, Mixture
<1>7. \A b \in Bit : img.block[b] \in {"torn", cache.block[b], disk.block[b]}
  BY <1>2 DEF Mixture
<1>8. img \in Image
  BY <1>1, <1>4, <1>5, <1>6 DEF Image
<1>9. QED
  BY <1>4, <1>7, <1>8

\* Of two copies of the zero-byte stub nothing else can survive.
LEMMA SurvivingStub ==
    ASSUME cache = Blank(Empty), disk = Blank(Empty), NEW img \in Survivors
    PROVE  img = Blank(Empty)
<1>1. /\ cache.file = Empty /\ disk.file = Empty
      /\ cache.bitmap = {} /\ disk.bitmap = {}
      /\ cache.block = [b \in Bit |-> "torn"]
      /\ disk.block = [b \in Bit |-> "torn"]
  BY DEF Blank
<1>2. /\ img.file \in Between(disk.file, cache.file)
      /\ img.bitmap \in {(cache.bitmap \cap disk.bitmap) \cup some :
                            some \in SUBSET (cache.bitmap \cup disk.bitmap)}
      /\ img.block \in {Mixture(torn, lost) : torn \in SUBSET Unsynced,
                                         lost \in SUBSET Unsynced}
      /\ img = [file |-> img.file, bitmap |-> img.bitmap, block |-> img.block]
  BY DEF Survivors
<1>3. img.file = Empty
  BY <1>1, <1>2 DEF Between, Empty
<1>4. img.bitmap = {}
  BY <1>1, <1>2
<1>5. PICK torn \in SUBSET Unsynced, lost \in SUBSET Unsynced :
          img.block = Mixture(torn, lost)
  BY <1>2
<1>6. img.block = [b \in Bit |-> "torn"]
  BY <1>1, <1>5 DEF Mixture
<1>7. QED
  BY <1>2, <1>3, <1>4, <1>6 DEF Blank

\* Writing a block, in or out of range, or a bitmap, of an image.
LEMMA WrittenImage ==
    ASSUME cache \in Image, NEW c \in Content, NEW n, NEW m \in SUBSET Bit,
           NEW f \in Absent .. Valid
    PROVE  /\ [cache EXCEPT !.block[n] = c, !.file = f] \in Image
           /\ [cache EXCEPT !.block[n] = c] \in Image
           /\ [cache EXCEPT !.bitmap = m, !.file = f] \in Image
           /\ [cache EXCEPT !.bitmap = m] \in Image
           /\ [cache EXCEPT !.file = f] \in Image
<1>1. /\ cache.block \in [Bit -> Content]
      /\ cache = [file |-> cache.file, bitmap |-> cache.bitmap,
                  block |-> cache.block]
      /\ cache.bitmap \in SUBSET Bit /\ cache.file \in Absent .. Valid
  BY DEF Image
<1>2. [cache.block EXCEPT ![n] = c] \in [Bit -> Content]
  BY <1>1
<1>3. \A B \in [Bit -> Content] : /\ [cache EXCEPT !.block = B] \in Image
                                  /\ [cache EXCEPT !.block = B, !.file = f]
                                         \in Image
  BY DEF Image
<1>4. /\ [cache EXCEPT !.block[n] = c, !.file = f] =
             [cache EXCEPT !.block = [cache.block EXCEPT ![n] = c], !.file = f]
      /\ [cache EXCEPT !.block[n] = c] =
             [cache EXCEPT !.block = [cache.block EXCEPT ![n] = c]]
  OBVIOUS
<1>5. /\ [cache EXCEPT !.block[n] = c, !.file = f] \in Image
      /\ [cache EXCEPT !.block[n] = c] \in Image
  BY <1>2, <1>3, <1>4
<1>6. /\ [cache EXCEPT !.bitmap = m, !.file = f] \in Image
      /\ [cache EXCEPT !.bitmap = m] \in Image
      /\ [cache EXCEPT !.file = f] \in Image
  BY DEF Image
<1>7. QED
  BY <1>5, <1>6

\* The sizes a file can have, and what a write makes of them.
LEMMA Sizes ==
    ASSUME cache \in Image
    PROVE  /\ Empty \in Absent .. Valid /\ Sized \in Absent .. Valid
           /\ Valid \in Absent .. Valid
           /\ cache.file \in Absent .. Valid
           /\ Grown(cache.file) \in Absent .. Valid
           /\ cache.file # Valid => Grown(cache.file) # Valid
BY DEF Image, Grown, Absent, Empty, Sized, Valid

\* What writing a block of the volume does to the file.
LEMMA BlockStep ==
    ASSUME cache \in Image, NEW c \in Content,
           cache' = [cache EXCEPT !.block[blk] = c, !.file = Grown(@)]
    PROVE  /\ cache' \in Image
           /\ cache.file # Valid => cache'.file # Valid
<1>1. cache' = [cache EXCEPT !.block[blk] = c, !.file = Grown(cache.file)]
  OBVIOUS
<1>2. cache' \in Image
  <2>1. Grown(cache.file) \in Absent .. Valid /\ {} \in SUBSET Bit
    BY Sizes
  <2>2. [cache EXCEPT !.block[blk] = c, !.file = Grown(cache.file)] \in Image
    BY <2>1, WrittenImage
  <2>3. QED
    BY <1>1, <2>2
<1>3. cache'.file = Grown(cache.file)
  BY <1>1 DEF Image
<1>4. QED
  BY <1>2, <1>3, Sizes

\* What writing the bitmap, or a part of it, does.
LEMMA BitmapStep ==
    ASSUME cache \in Image, bitmap \in SUBSET Bit,
           WriteBitmap \/ WriteBitmapPrefix
    PROVE  /\ cache' \in Image
           /\ cache.file # Valid => cache'.file # Valid
<1>1. \E m \in SUBSET Bit, f \in {cache.file, Grown(cache.file)} :
          cache' = [cache EXCEPT !.bitmap = m, !.file = f]
  <2>1. CASE WriteBitmap
    BY <2>1 DEF WriteBitmap
  <2>2. CASE WriteBitmapPrefix
    <3>1. PICK k \in 0 .. DataBlocks :
              cache' = [cache EXCEPT !.bitmap = {b \in bitmap : b < k}
                                         \cup {b \in cache.bitmap : b >= k},
                                     !.file = IF k = 0 THEN @ ELSE Grown(@)]
      BY <2>2 DEF WriteBitmapPrefix
    <3> DEFINE m == {b \in bitmap : b < k} \cup {b \in cache.bitmap : b >= k}
               f == IF k = 0 THEN cache.file ELSE Grown(cache.file)
    <3>2. cache' = [cache EXCEPT !.bitmap = m, !.file = f]
      BY <3>1
    <3>3. cache.bitmap \in SUBSET Bit
      BY DEF Image
    <3>4. m \in SUBSET Bit /\ f \in {cache.file, Grown(cache.file)}
      BY <3>3
    <3> HIDE DEF m, f
    <3>5. QED
      BY <3>2, <3>4
  <2>3. QED
    BY <2>1, <2>2
<1>2. PICK m \in SUBSET Bit, f \in {cache.file, Grown(cache.file)} :
          cache' = [cache EXCEPT !.bitmap = m, !.file = f]
  BY <1>1
<1>3. f \in Absent .. Valid /\ (cache.file # Valid => f # Valid)
  BY <1>2, Sizes
<1>4. cache' \in Image /\ cache'.file = f
  BY <1>2, <1>3 DEF Image
<1>5. QED
  BY <1>3, <1>4

\* What write_block writes is content.
LEMMA PayloadContent == Payload \in Content
BY DEF Payload, Content

\* What a step of the vault does to the file while nobody creates it.
FileStep ==
    /\ cache' \in Image /\ disk' \in Image /\ bitmap' \in SUBSET Bit
    /\ pc \notin CreatingAt
           => pc' \notin CreatingAt /\ (cache.file # Valid => cache'.file # Valid)
    /\ \/ disk' = disk
       \/ disk' = cache /\ cache' = cache
       \/ disk' \in Survivors /\ cache' = cache

\* No step of the vault gives a file a superblock while nobody creates one.
LEMMA VolumeFile ==
    ASSUME FileTypeOK, VolumeStep
    PROVE  FileStep
<1> USE DEF FileTypeOK, FileStep, CreatingAt, Goto, Return, volVars, callVars
<1>1. cache \in Image /\ disk \in Image /\ bitmap \in SUBSET Bit
  OBVIOUS
<1>2. CASE InitSetLen
  <2>1. cache' = [cache EXCEPT !.file = Sized]
    BY <1>2 DEF InitSetLen, SetLen
  <2>2. cache' \in Image
    BY <2>1, Sizes DEF Image
  <2>3. QED
    BY <1>2, <2>2 DEF InitSetLen
<1>3. CASE InitSuperblock
  <2>1. cache' = [cache EXCEPT !.file = Valid]
    BY <1>3 DEF InitSuperblock, WriteSuperblock
  <2>2. cache' \in Image
    BY <2>1, Sizes DEF Image
  <2>3. QED
    BY <1>3, <2>2 DEF InitSuperblock
<1>4. CASE InitSync
  <2>1. cache.bitmap \in SUBSET Bit
    BY DEF Image
  <2>2. QED
    BY <1>4, <2>1 DEF InitSync, SyncAll, Load
<1>5. CASE InitFails
  <2>1. disk' = disk \/ disk' \in Survivors
    BY <1>5 DEF InitFails
  <2>2. disk' \in Image
    BY <1>1, <2>1, SurvivingImage
  <2>3. QED
    BY <1>5, <2>1, <2>2 DEF InitFails
<1>6. CASE InitAgain
  BY <1>6 DEF InitAgain, SyncAll
<1>7. CASE \E b \in Bit : AllocateBlock(b)
  BY <1>7 DEF AllocateBlock, MarkAllocated
<1>8. CASE \E b \in Bit : FreeBlock(b)
  BY <1>8 DEF FreeBlock, MarkFree
<1>9. CASE \E b \in Bit, c \in {"write", "erase"} : WriteBlock(b, c)
  BY <1>9 DEF WriteBlock
<1>10. CASE AllocateFull
  BY <1>10 DEF AllocateFull
<1>11. CASE InitCanarySlots
  BY <1>11 DEF InitCanarySlots
<1>12. CASE ValidateCanarySlots
  BY <1>12 DEF ValidateCanarySlots
<1>13. CASE ReserveSkips
  BY <1>13 DEF ReserveSkips
<1>14. CASE ReserveBlock
  <2>1. blk \in Bit
    BY <1>14, VaultAssumption, DataBlocksAssumption
       DEF ReserveBlock, Reserved, Bit
  <2>2. QED
    BY <1>14, <2>1 DEF ReserveBlock, MarkAllocated
<1>15. CASE ReserveDone
  BY <1>15 DEF ReserveDone
<1>16. CASE Nonce
  <2>1. "torn" \in Content
    BY DEF Content
  <2>2. cache' \in Image /\ (cache.file # Valid => cache'.file # Valid)
    BY <1>1, <1>16, <2>1, BlockStep DEF Nonce, WriteNonce
  <2>3. QED
    BY <1>16, <2>2 DEF Nonce
<1>17. CASE WriteDone
  <2>1. cache' \in Image /\ (cache.file # Valid => cache'.file # Valid)
    BY <1>1, <1>17, PayloadContent, BlockStep DEF WriteDone, WriteCiphertext
  <2>2. QED
    BY <1>17, <2>1 DEF WriteDone
<1>18. CASE EraseDone
  <2>1. cache' \in Image /\ (cache.file # Valid => cache'.file # Valid)
    BY <1>1, <1>18, PayloadContent, BlockStep DEF EraseDone, WriteCiphertext
  <2>2. bitmap' \in SUBSET Bit /\ pc' \notin CreatingAt /\ disk' = disk
    BY <1>18 DEF EraseDone, MarkFree
  <2>3. QED
    BY <2>1, <2>2
<1>19. CASE CanaryDone
  <2>1. cache' \in Image /\ (cache.file # Valid => cache'.file # Valid)
    BY <1>1, <1>19, PayloadContent, BlockStep DEF CanaryDone, WriteCiphertext
  <2>2. bitmap' = bitmap /\ pc' \notin CreatingAt /\ disk' = disk
    BY <1>19 DEF CanaryDone
  <2>3. QED
    BY <2>1, <2>2
<1>20. CASE BlockFails
  <2>1. cache' = cache \/ WriteNonce(blk) \/ WriteCiphertext(blk, Payload)
    BY <1>20 DEF BlockFails
  <2>2. "torn" \in Content
    BY DEF Content
  <2>3. cache' \in Image /\ (cache.file # Valid => cache'.file # Valid)
    BY <1>1, <2>1, <2>2, PayloadContent, BlockStep
       DEF WriteNonce, WriteCiphertext
  <2>4. QED
    BY <1>20, <2>3 DEF BlockFails
<1>21. CASE Bitmap
  <2>1. cache' \in Image /\ (cache.file # Valid => cache'.file # Valid)
    BY <1>1, <1>21, BitmapStep DEF Bitmap
  <2>2. QED
    BY <1>21, <2>1 DEF Bitmap
<1>22. CASE Sync
  BY <1>22 DEF Sync, SyncAll, Resume
<1>23. CASE BitmapFails
  <2>1. CASE pc = "bitmap" /\ WriteBitmapPrefix /\ UNCHANGED disk
    <3>1. cache' \in Image /\ (cache.file # Valid => cache'.file # Valid)
      BY <1>1, <2>1, BitmapStep
    <3>2. QED
      BY <1>23, <2>1, <3>1 DEF BitmapFails, Resume
  <2>2. CASE pc = "sync" /\ disk' \in Survivors /\ UNCHANGED cache
    <3>1. disk' \in Image
      BY <1>1, <2>2, SurvivingImage
    <3>2. QED
      BY <1>23, <2>2, <3>1 DEF BitmapFails, Resume
  <2>3. QED
    BY <1>23, <2>1, <2>2 DEF BitmapFails
<1>24. QED
  BY <1>2, <1>3, <1>4, <1>5, <1>6, <1>7, <1>8, <1>9, <1>10, <1>11, <1>12,
     <1>13, <1>14, <1>15, <1>16, <1>17, <1>18, <1>19, <1>20, <1>21, <1>22,
     <1>23 DEF VolumeStep

\* A new or truncated file is a file.
LEMMA BlankImage ==
    ASSUME NEW f \in Absent .. Valid
    PROVE  Blank(f) \in Image
BY DEF Image, Blank, Content

\* A chunk of a pass.
LEMMA ChunkImage ==
    ASSUME cache \in Image, Overwrite
    PROVE  cache' \in Image
<1>1. CASE cache' = [cache EXCEPT !.file = Sized]
  BY <1>1, Sizes DEF Image
<1>2. ASSUME NEW m \in SUBSET Bit, cache' = [cache EXCEPT !.bitmap = m]
      PROVE  cache' \in Image
  BY <1>2 DEF Image
<1>3. CASE cache' = [cache EXCEPT !.block[pos - 2] = "torn"]
  <2>1. "torn" \in Content /\ {} \in SUBSET Bit
    BY DEF Content
  <2>2. [cache EXCEPT !.block[pos - 2] = "torn"] \in Image
    BY <2>1, Sizes, WrittenImage
  <2>3. QED
    BY <1>3, <2>2
<1>4. QED
  BY <1>1, <1>2, <1>3 DEF Overwrite

\* A step that creates the vault, opens it, crashes or ends the process keeps
\* the file an image.
LEMMA FileTypes ==
    ASSUME FileTypeOK, WipeNext
    PROVE  FileTypeOK'
<1> USE DEF FileTypeOK
<1>1. cache.bitmap \in SUBSET Bit /\ disk.file \in Absent .. Valid
  BY DEF Image
<1>2. CASE Create
  <2>1. cache' = Blank(Empty) /\ disk' = disk /\ bitmap' = bitmap
    BY <1>2 DEF Create, InitCreate, CreateFile
  <2>2. QED
    BY <1>1, <2>1, Sizes, BlankImage
<1>3. CASE Open
  BY <1>1, <1>3 DEF Open, InitOpen, InitRefused, Load, vars, volVars
<1>4. CASE BesidePurge
  BY <1>4, VolumeFile DEF BesidePurge, FileStep
<1>5. CASE Die
  <2>1. \/ UNCHANGED <<cache, disk>>
        \/ \E img \in Survivors : cache' = img /\ disk' = img
    BY <1>5 DEF Die, Crash
  <2>2. cache' \in Image /\ disk' \in Image
    BY <2>1, SurvivingImage
  <2>3. bitmap' = {}
    BY <1>5 DEF Die, Crash, ProcessEnds
  <2>4. QED
    BY <2>2, <2>3
<1>6. CASE PurgeRefused \/ PurgeNothing \/ PurgeBegin
  BY <1>6 DEF PurgeRefused, PurgeNothing, PurgeBegin, allVars, vars, volVars
<1>7. CASE WipeChunk
  BY <1>7, ChunkImage DEF WipeChunk
<1>8. CASE SyncRandom \/ SyncZero \/ SyncEmpty
  BY <1>8 DEF SyncRandom, SyncZero, SyncEmpty, SyncAll
<1>9. CASE Truncate
  BY <1>9, Sizes, BlankImage DEF Truncate
<1>10. CASE PurgeFails
  <2>1. cache' = cache \/ Overwrite
    BY <1>10 DEF PurgeFails
  <2>2. disk' = disk \/ disk' \in Survivors
    BY <1>10 DEF PurgeFails
  <2>3. cache' \in Image
    BY <2>1, ChunkImage
  <2>4. disk' \in Image
    BY <2>2, SurvivingImage
  <2>5. QED
    BY <1>10, <2>3, <2>4 DEF PurgeFails
<1>11. CASE PanicExit
  BY <1>11 DEF PanicExit, ProcessEnds
<1>12. QED
  BY <1>2, <1>3, <1>4, <1>5, <1>6, <1>7, <1>8, <1>9, <1>10, <1>11
     DEF WipeNext

\* What a step of another thread, or a crash, leaves of a purged file: a block
\* that nobody filled reads as nothing, in the cache and on the medium.
LEMMA PurgedFile ==
    ASSUME FileTypeOK, FileTypeOK', WipeInv, purged,
           NEW R \in SUBSET Bit, rewritten \subseteq R,
           cache'.file # Valid,
           \A b \in Bit \ R : cache'.block[b] \in {"torn", cache.block[b]},
           \/ disk' = disk \/ disk' = cache \/ disk' \in Survivors
    PROVE  /\ cache'.file # Valid /\ disk'.file # Valid
           /\ \A b \in Bit \ R :
                  cache'.block[b] = "torn" /\ disk'.block[b] = "torn"
<1>1. /\ cache.file # Valid /\ disk.file # Valid
      /\ \A b \in Bit \ R :
             cache.block[b] = "torn" /\ disk.block[b] = "torn"
  BY DEF WipeInv
<1>2. CASE disk' = disk \/ disk' = cache
  BY <1>1, <1>2
<1>3. CASE disk' \in Survivors
  BY <1>1, <1>3, SurvivingImage DEF FileTypeOK
<1>4. QED
  BY <1>2, <1>3

\* The parts of WipeInv, one by one: what the purge and the other threads may
\* be doing, the pass in progress, the purged file, the truncated file.
StageInv ==
    /\ wipe \notin {"off", "quit"} \/ purged => pc \notin CreatingAt
    /\ wipe = "random" => ~purged
    /\ wipe \in {"zero", "truncate", "sync_empty", "exit"} => purged

PassInv ==
    /\ wipe \in {"random", "zero"} /\ pos > 0 => cache.file # Valid
    /\ wipe = "random" =>
           \A b \in Bit \ rewritten : b + 2 < pos => cache.block[b] = "torn"

PurgedInv ==
    purged => /\ cache.file # Valid /\ disk.file # Valid
              /\ \A b \in Bit \ rewritten :
                     cache.block[b] = "torn" /\ disk.block[b] = "torn"

StubInv ==
    /\ wipe = "sync_empty" /\ ~wrote => cache = Blank(Empty)
    /\ wipe = "exit" /\ ~wrote => cache = Blank(Empty) /\ disk = Blank(Empty)

\* The invariant, by what its parts are about ...
LEMMA WipeParts ==
    WipeInv <=> WipeTypeOK /\ StageInv /\ PassInv /\ PurgedInv /\ StubInv
BY DEF WipeInv, StageInv, PassInv, PurgedInv, StubInv, CreatingAt

\* ... also after a step.
LEMMA WipePartsNext ==
    ASSUME WipeTypeOK', StageInv', PassInv', PurgedInv', StubInv'
    PROVE  WipeInv'
BY DEF WipeInv, StageInv, PassInv, PurgedInv, StubInv, CreatingAt

\* A step that touches neither the file nor the purge.
LEMMA QuietStep ==
    ASSUME WipeInv, UNCHANGED <<cache, disk, pc, wipe, pos, purged, rewritten,
                                wrote>>
    PROVE  WipeInv'
BY DEF WipeInv, WipeTypeOK, Blank

\* A step of the vault.
LEMMA BesideStep ==
    ASSUME FileTypeOK, FileTypeOK', WipeInv, BesidePurge
    PROVE  WipeInv'
<1>1. WipeTypeOK /\ StageInv /\ PassInv /\ PurgedInv /\ StubInv
  BY WipeParts
<1>2. FileStep /\ wipe' = wipe /\ pos' = pos /\ purged' = purged
  BY VolumeFile DEF BesidePurge
<1>3. WipeTypeOK'
  BY <1>1, <1>2 DEF WipeTypeOK, BesidePurge, Filled
<1>4. CASE wipe \in {"off", "quit"} /\ ~purged
  BY <1>2, <1>3, <1>4, WipePartsNext
     DEF StageInv, PassInv, PurgedInv, StubInv
<1>5. CASE wipe \notin {"off", "quit"} \/ purged
  <2>1. rewritten' = rewritten \cup Filled
    BY <1>5 DEF BesidePurge
  <2>2. pc \notin CreatingAt
    BY <1>1, <1>5 DEF StageInv
  <2>3. pc' \notin CreatingAt /\ (cache.file # Valid => cache'.file # Valid)
    BY <1>2, <2>2 DEF FileStep
  <2>4. \A b \in Bit \ rewritten' : cache'.block[b] \in {"torn", cache.block[b]}
    BY <2>1 DEF Filled
  <2>5. StageInv'
    BY <1>1, <1>2, <2>3 DEF StageInv
  <2>6. PassInv'
    BY <1>1, <1>2, <2>1, <2>3, <2>4 DEF PassInv
  <2>7. PurgedInv'
    <3>1. disk' = disk \/ disk' = cache \/ disk' \in Survivors
      BY <1>2 DEF FileStep
    <3>2. rewritten' \in SUBSET Bit /\ rewritten \subseteq rewritten'
      BY <1>3, <2>1 DEF WipeTypeOK
    <3>3. CASE purged
      <4>1. cache'.file # Valid
        BY <1>1, <2>3, <3>3 DEF PurgedInv
      <4>2. QED
        BY <2>4, <3>1, <3>2, <3>3, <4>1, PurgedFile DEF PurgedInv
    <3>4. CASE ~purged
      BY <1>2, <3>4 DEF PurgedInv
    <3>5. QED
      BY <3>3, <3>4
  <2>8. StubInv'
    <3>1. CASE ~wrote' /\ wipe \in {"sync_empty", "exit"}
      <4>1. ~wrote /\ cache' = cache
        BY <3>1 DEF BesidePurge
      <4>2. cache = Blank(Empty)
        BY <1>1, <3>1, <4>1 DEF StubInv
      <4>3. ASSUME wipe = "exit"
            PROVE  disk' = Blank(Empty)
        <5>1. disk = Blank(Empty)
          BY <1>1, <4>1, <4>3 DEF StubInv
        <5>2. QED
          BY <1>2, <4>2, <5>1, SurvivingStub DEF FileStep
      <4>4. QED
        BY <1>2, <4>1, <4>2, <4>3 DEF StubInv, Blank
    <3>2. CASE wrote' \/ wipe \notin {"sync_empty", "exit"}
      BY <1>2, <3>2 DEF StubInv
    <3>3. QED
      BY <3>1, <3>2 DEF BesidePurge
  <2>9. QED
    BY <1>3, <2>5, <2>6, <2>7, <2>8, WipePartsNext
<1>6. QED
  BY <1>4, <1>5

\* The end of the process or of the purge: what is purged stays purged.
LEMMA EndStep ==
    ASSUME FileTypeOK, FileTypeOK', WipeInv, EndOfPurge,
           purged' = purged, rewritten' \in SUBSET Bit,
           purged => /\ rewritten' = rewritten /\ cache'.file # Valid
                     /\ \A b \in Bit \ rewritten :
                            cache'.block[b] \in {"torn", cache.block[b]}
                     /\ disk' = disk \/ disk' = cache \/ disk' \in Survivors
                     /\ pc' \notin CreatingAt
    PROVE  WipeInv'
<1>1. WipeTypeOK /\ WipeTypeOK'
  <2>1. WipeTypeOK
    BY WipeParts
  <2>2. 0 \in 0 .. EndOfFile
    BY DataBlocksAssumption DEF EndOfFile
  <2>3. QED
    BY <2>1, <2>2 DEF WipeTypeOK, WipeLabel, EndOfPurge
<1>2. StageInv' /\ PassInv' /\ StubInv'
  BY DEF EndOfPurge, StageInv, PassInv, StubInv
<1>3. PurgedInv'
  <2>1. CASE purged
    <3>1. rewritten \in SUBSET Bit
      BY <1>1 DEF WipeTypeOK
    <3>2. QED
      BY <2>1, <3>1, PurgedFile DEF PurgedInv
  <2>2. CASE ~purged
    BY <2>2 DEF PurgedInv
  <2>3. QED
    BY <2>1, <2>2
<1>4. QED
  BY <1>1, <1>2, <1>3, WipePartsNext

\* A chunk of a pass.
LEMMA ChunkStep ==
    ASSUME FileTypeOK, FileTypeOK', WipeInv, WipeChunk
    PROVE  WipeInv'
<1>1. WipeTypeOK /\ StageInv /\ PassInv /\ PurgedInv /\ StubInv
  BY WipeParts
<1>2. /\ wipe \in {"random", "zero"} /\ wipe' = wipe /\ pos' = pos + 1
      /\ purged' = purged /\ wrote' = wrote /\ pc' = pc /\ disk' = disk
      /\ Overwrite
  BY DEF WipeChunk, callVars
<1>3. DataBlocks \in Nat /\ EndOfFile = DataBlocks + 2
  BY DataBlocksAssumption DEF EndOfFile
<1>4. /\ pos \in Nat /\ pos + 1 \in 0 .. EndOfFile
      /\ rewritten' \in SUBSET Bit
  BY <1>1, <1>2, <1>3 DEF WipeTypeOK, Overwrite
<1>5. WipeTypeOK'
  BY <1>1, <1>2, <1>4 DEF WipeTypeOK
<1>6. StageInv' /\ StubInv'
  BY <1>1, <1>2 DEF StageInv, StubInv
<1>7. cache'.file # Valid
  BY <1>1, <1>2, <1>4 DEF PassInv, Overwrite, FileTypeOK, Image, Sized, Valid
<1>8. \A b \in Bit : \/ cache'.block[b] = cache.block[b] /\ b + 2 # pos
                     \/ cache'.block[b] = "torn"
  <2>1. CASE pos \in {0, 1}
    <3>1. cache'.block = cache.block
      BY <1>2, <1>3, <2>1 DEF Overwrite, FileTypeOK, Image
    <3>2. \A b \in Bit : b + 2 # pos
      BY <2>1 DEF Bit
    <3>3. QED
      BY <3>1, <3>2
  <2>2. CASE pos \notin {0, 1}
    <3>1. cache' = [cache EXCEPT !.block[pos - 2] = "torn"]
      BY <1>2, <2>2 DEF Overwrite
    <3>2. cache'.block = [cache.block EXCEPT ![pos - 2] = "torn"]
      BY <3>1 DEF FileTypeOK, Image
    <3>3. \A b \in Bit : b \in Nat /\ (b + 2 = pos => b = pos - 2)
      BY <1>4 DEF Bit
    <3>4. cache.block \in [Bit -> Content]
      BY DEF FileTypeOK, Image
    <3>5. QED
      BY <3>2, <3>3, <3>4
  <2>3. QED
    BY <2>1, <2>2
<1>9. CASE wipe = "random"
  <2>1. \A b \in Bit \ rewritten' : b + 2 < pos' => cache'.block[b] = "torn"
    <3> TAKE b \in Bit \ rewritten'
    <3> HAVE b + 2 < pos'
    <3>1. b \in Nat
      BY DEF Bit
    <3>2. CASE b + 2 = pos
      BY <1>8, <3>2
    <3>3. CASE b + 2 # pos
      <4>1. b + 2 < pos
        BY <1>2, <1>4, <3>1, <3>3
      <4>2. b \notin rewritten
        BY <1>2, <1>4, <3>1, <3>3 DEF Overwrite
      <4>3. cache.block[b] = "torn"
        BY <1>1, <1>9, <4>1, <4>2 DEF PassInv
      <4>4. QED
        BY <1>8, <4>3
    <3>4. QED
      BY <3>2, <3>3
  <2>2. PassInv'
    BY <1>7, <2>1 DEF PassInv
  <2>3. PurgedInv'
    BY <1>1, <1>2, <1>9 DEF StageInv, PurgedInv
  <2>4. QED
    BY <1>5, <1>6, <2>2, <2>3, WipePartsNext
<1>10. CASE wipe = "zero"
  <2>1. purged /\ rewritten' = rewritten
    BY <1>1, <1>2, <1>10 DEF StageInv, Overwrite
  <2>2. PurgedInv'
    BY <1>1, <1>2, <1>7, <1>8, <2>1 DEF PurgedInv
  <2>3. PassInv'
    BY <1>2, <1>7, <1>10 DEF PassInv
  <2>4. QED
    BY <1>5, <1>6, <2>2, <2>3, WipePartsNext
<1>11. QED
  BY <1>2, <1>9, <1>10

\* The three syncs and the truncation.
LEMMA SyncStep ==
    ASSUME FileTypeOK, FileTypeOK', WipeInv,
           SyncRandom \/ SyncZero \/ Truncate \/ SyncEmpty
    PROVE  WipeInv'
<1>1. WipeTypeOK /\ StageInv /\ PassInv /\ PurgedInv /\ StubInv
  BY WipeParts
<1>2. CASE SyncRandom
  <2>1. /\ wipe = "random" /\ pos = EndOfFile /\ disk' = cache
        /\ cache' = cache /\ wipe' = "zero" /\ pos' = 0 /\ purged' = TRUE
        /\ rewritten' = rewritten /\ wrote' = wrote /\ pc' = pc
    BY <1>2 DEF SyncRandom, SyncAll, callVars
  <2>2. \A b \in Bit : b + 2 < EndOfFile /\ EndOfFile > 0
    BY DataBlocksAssumption DEF Bit, EndOfFile
  <2>3. 0 \in 0 .. EndOfFile /\ EndOfFile > 0
    BY DataBlocksAssumption DEF EndOfFile
  <2>4. WipeTypeOK'
    BY <1>1, <2>1, <2>3 DEF WipeTypeOK, WipeLabel
  <2>5. PurgedInv'
    BY <1>1, <2>1, <2>2, <2>3 DEF PassInv, PurgedInv
  <2>6. StageInv' /\ PassInv' /\ StubInv'
    BY <1>1, <2>1 DEF StageInv, PassInv, StubInv
  <2>7. QED
    BY <2>4, <2>5, <2>6, WipePartsNext
<1>3. CASE SyncZero
  <2>1. /\ wipe = "zero" /\ disk' = cache /\ cache' = cache
        /\ wipe' = "truncate" /\ pos' = 0 /\ purged' = purged
        /\ rewritten' = rewritten /\ wrote' = wrote /\ pc' = pc
    BY <1>3 DEF SyncZero, SyncAll, callVars
  <2>2. 0 \in 0 .. EndOfFile
    BY DataBlocksAssumption DEF EndOfFile
  <2>3. WipeTypeOK'
    BY <1>1, <2>1, <2>2 DEF WipeTypeOK, WipeLabel
  <2>4. StageInv' /\ PassInv' /\ PurgedInv' /\ StubInv'
    BY <1>1, <2>1 DEF StageInv, PassInv, PurgedInv, StubInv
  <2>5. QED
    BY <2>3, <2>4, WipePartsNext
<1>4. CASE Truncate
  <2>1. /\ wipe = "truncate" /\ disk' = disk /\ cache' = Blank(Empty)
        /\ wipe' = "sync_empty" /\ pos' = pos /\ purged' = purged
        /\ rewritten' = rewritten /\ wrote' = wrote /\ pc' = pc
    BY <1>4 DEF Truncate, callVars
  <2>2. /\ cache'.file # Valid
        /\ \A b \in Bit : cache'.block[b] = "torn"
    BY <2>1 DEF Blank, Empty, Valid
  <2>3. WipeTypeOK'
    BY <1>1, <2>1 DEF WipeTypeOK, WipeLabel
  <2>4. PurgedInv'
    BY <1>1, <2>1, <2>2 DEF PurgedInv
  <2>5. StubInv'
    BY <2>1 DEF StubInv, Blank
  <2>6. StageInv' /\ PassInv'
    BY <1>1, <2>1 DEF StageInv, PassInv
  <2>7. QED
    BY <2>3, <2>4, <2>5, <2>6, WipePartsNext
<1>5. CASE SyncEmpty
  <2>1. /\ wipe = "sync_empty" /\ disk' = cache /\ cache' = cache
        /\ wipe' = "exit" /\ pos' = pos /\ purged' = purged
        /\ rewritten' = rewritten /\ wrote' = wrote /\ pc' = pc
    BY <1>5 DEF SyncEmpty, SyncAll, callVars
  <2>2. WipeTypeOK'
    BY <1>1, <2>1 DEF WipeTypeOK, WipeLabel
  <2>3. StageInv' /\ PassInv' /\ PurgedInv'
    BY <1>1, <2>1 DEF StageInv, PassInv, PurgedInv
  <2>4. StubInv'
    BY <1>1, <2>1 DEF StubInv, Blank
  <2>5. QED
    BY <2>2, <2>3, <2>4, WipePartsNext
<1>6. QED
  BY <1>2, <1>3, <1>4, <1>5

\* Each step keeps the invariant of the purge.
LEMMA WipeStep ==
    ASSUME FileTypeOK, WipeInv, WipeNext
    PROVE  WipeInv'
<1>1. FileTypeOK'
  BY FileTypes
<1>2. WipeTypeOK /\ StageInv /\ PassInv /\ PurgedInv /\ StubInv
  BY WipeParts
<1>3. CASE Create
  <2>1. /\ wipe' = "off" /\ pos' = pos /\ purged' = FALSE
        /\ rewritten' = {} /\ wrote' = wrote
    BY <1>3 DEF Create
  <2>2. WipeTypeOK'
    BY <1>2, <2>1 DEF WipeTypeOK, WipeLabel
  <2>3. StageInv' /\ PassInv' /\ PurgedInv' /\ StubInv'
    BY <2>1 DEF StageInv, PassInv, PurgedInv, StubInv
  <2>4. QED
    BY <2>2, <2>3, WipePartsNext
<1>4. CASE Open
  <2>1. UNCHANGED <<cache, disk, pc, wipe, pos, purged, rewritten, wrote>>
    BY <1>4 DEF Open, InitOpen, InitRefused, wipeVars, vars, volVars, callVars
  <2>2. QED
    BY <2>1, QuietStep
<1>5. CASE BesidePurge
  BY <1>1, <1>5, BesideStep
<1>6. CASE Die
  <2>1. /\ EndOfPurge /\ purged' = purged /\ rewritten' = rewritten
        /\ pc' = "idle"
    BY <1>6 DEF Die, Crash, ProcessEnds, Return, Goto
  <2>2. \/ cache' = cache /\ disk' = disk
        \/ cache' = disk' /\ disk' \in Survivors
    BY <1>6 DEF Die, Crash
  <2>3. ASSUME purged
        PROVE  /\ cache'.file # Valid
               /\ \A b \in Bit \ rewritten : cache'.block[b] = "torn"
    BY <1>2, <2>2, <2>3, SurvivingImage DEF FileTypeOK, PurgedInv
  <2>4. rewritten' \in SUBSET Bit /\ pc' \notin CreatingAt
    BY <1>2, <2>1 DEF WipeTypeOK, CreatingAt
  <2>5. QED
    BY <1>1, <2>1, <2>2, <2>3, <2>4, EndStep
<1>7. CASE PurgeRefused
  <2>1. UNCHANGED <<cache, disk, pc, wipe, pos, purged, rewritten, wrote>>
    BY <1>7 DEF PurgeRefused, allVars, wipeVars, vars, volVars, callVars
  <2>2. QED
    BY <2>1, QuietStep
<1>8. CASE PurgeNothing
  <2>1. /\ wipe = "off" /\ wipe' = "quit"
        /\ UNCHANGED <<cache, disk, pc, pos, purged, rewritten, wrote>>
    BY <1>8 DEF PurgeNothing, vars, volVars, callVars
  <2>2. WipeTypeOK'
    BY <1>2, <2>1 DEF WipeTypeOK, WipeLabel
  <2>3. StageInv' /\ PassInv' /\ PurgedInv' /\ StubInv'
    BY <1>2, <2>1 DEF StageInv, PassInv, PurgedInv, StubInv
  <2>4. QED
    BY <2>2, <2>3, WipePartsNext
<1>9. CASE PurgeBegin
  <2>1. /\ wipe' = "random" /\ pos' = 0 /\ purged' = FALSE
        /\ rewritten' = {} /\ wrote' = wrote
        /\ pc' = pc /\ pc \notin CreatingAt
    BY <1>9 DEF PurgeBegin, callVars, CreatingAt
  <2>2. 0 \in 0 .. EndOfFile
    BY DataBlocksAssumption DEF EndOfFile
  <2>3. WipeTypeOK'
    BY <1>2, <2>1, <2>2 DEF WipeTypeOK, WipeLabel
  <2>4. \A b \in Bit : ~(b + 2 < 0)
    BY DEF Bit
  <2>5. StageInv' /\ PassInv' /\ PurgedInv' /\ StubInv'
    BY <2>1, <2>4 DEF StageInv, PassInv, PurgedInv, StubInv
  <2>6. QED
    BY <2>3, <2>5, WipePartsNext
<1>10. CASE WipeChunk
  BY <1>1, <1>10, ChunkStep
<1>11. CASE SyncRandom \/ SyncZero \/ Truncate \/ SyncEmpty
  BY <1>1, <1>11, SyncStep
<1>12. CASE PurgeFails
  <2>1. EndOfPurge /\ purged' = purged /\ pc' = pc
    BY <1>12 DEF PurgeFails, callVars
  <2>2. CASE purged
    <3>1. wipe \notin {"off", "random", "quit"} /\ pc \notin CreatingAt
      BY <1>2, <1>12, <2>2 DEF PurgeFails, StageInv
    <3>2. rewritten' = rewritten
      BY <1>12, <3>1 DEF PurgeFails, Overwrite
    <3>3. /\ cache'.file # Valid
          /\ \A b \in Bit \ rewritten : cache'.block[b] = "torn"
      <4>1. /\ cache.file # Valid
            /\ \A b \in Bit \ rewritten : cache.block[b] = "torn"
        BY <1>2, <2>2 DEF PurgedInv
      <4>2. CASE cache' = cache
        BY <4>1, <4>2
      <4>3. CASE Overwrite
        <5>1. /\ cache'.file \in {Sized, cache.file}
              /\ \/ cache'.block = cache.block
                 \/ cache'.block = [cache.block EXCEPT ![pos - 2] = "torn"]
          BY <4>3 DEF Overwrite, FileTypeOK, Image
        <5>2. cache.block \in [Bit -> Content] /\ Sized # Valid
          BY DEF FileTypeOK, Image, Sized, Valid
        <5>3. QED
          BY <4>1, <5>1, <5>2
      <4>4. QED
        BY <1>12, <4>2, <4>3 DEF PurgeFails
    <3>4. disk' = disk \/ disk' \in Survivors
      BY <1>12 DEF PurgeFails
    <3>5. rewritten' \in SUBSET Bit
      BY <1>2, <3>2 DEF WipeTypeOK
    <3>6. QED
      BY <1>1, <2>1, <3>1, <3>2, <3>3, <3>4, <3>5, EndStep
  <2>3. CASE ~purged
    <3>1. rewritten' \in SUBSET Bit
      BY <1>2, <1>12 DEF PurgeFails, Overwrite, WipeTypeOK
    <3>2. QED
      BY <1>1, <2>1, <2>3, <3>1, EndStep
  <2>4. QED
    BY <2>2, <2>3
<1>13. CASE PanicExit
  <2>1. /\ EndOfPurge /\ purged' = purged /\ rewritten' = rewritten
        /\ pc' = "idle" /\ cache' = cache /\ disk' = disk
    BY <1>13 DEF PanicExit, ProcessEnds, Return, Goto
  <2>2. rewritten' \in SUBSET Bit /\ pc' \notin CreatingAt
    BY <1>2, <2>1 DEF WipeTypeOK, CreatingAt
  <2>3. purged => cache'.file # Valid
    BY <1>2, <2>1 DEF PurgedInv
  <2>4. QED
    BY <1>1, <2>1, <2>2, <2>3, EndStep
<1>14. QED
  BY <1>3, <1>4, <1>5, <1>6, <1>7, <1>8, <1>9, <1>10, <1>11, <1>12, <1>13
     DEF WipeNext

\* WipeInv holds throughout: for any number of blocks and of faults, whatever
\* vault calls run beside the purge and wherever it stops.
THEOREM WipeInvariant == WipeSpec => [](FileTypeOK /\ WipeInv)
<1>1. ASSUME WipeInit
      PROVE  FileTypeOK /\ WipeInv
  <2>1. cache = Blank(Absent) /\ disk = Blank(Absent) /\ bitmap = {}
    BY <1>1 DEF WipeInit, Init, InitVolume
  <2>2. Absent \in Absent .. Valid
    BY DEF Absent, Valid
  <2>3. FileTypeOK
    BY <2>1, <2>2, BlankImage DEF FileTypeOK
  <2>4. 0 \in 0 .. EndOfFile
    BY DataBlocksAssumption DEF EndOfFile
  <2>5. WipeInv
    BY <1>1, <2>4 DEF WipeInit, WipeInv, WipeTypeOK, WipeLabel
  <2>6. QED
    BY <2>3, <2>5
<1>2. ASSUME FileTypeOK, WipeInv, [WipeNext]_allVars
      PROVE  FileTypeOK' /\ WipeInv'
  <2>1. CASE WipeNext
    BY <1>2, <2>1, FileTypes, WipeStep
  <2>2. CASE UNCHANGED allVars
    <3>1. UNCHANGED <<cache, disk, pc, wipe, pos, purged, rewritten, wrote>>
          /\ bitmap' = bitmap
      BY <2>2 DEF allVars, wipeVars, vars, volVars, callVars
    <3>2. QED
      BY <1>2, <3>1, QuietStep DEF FileTypeOK
  <2>3. QED
    BY <1>2, <2>1, <2>2
<1>3. QED
  BY <1>1, <1>2, PTL DEF WipeSpec

\* What a purge has overwritten and synced never comes back (disk_wipe.rs:66-81).
THEOREM PurgedForGoodHolds == WipeSpec => []PurgedForGood
<1>1. WipeInv => PurgedForGood
  BY DEF WipeInv, PurgedForGood
<1>2. QED
  BY <1>1, WipeInvariant, PTL

\* A purge that nobody disturbs after the truncation ends with a zero-byte
\* file on the medium (disk_wipe.rs:98-99).
THEOREM PurgeLeavesStubHolds == WipeSpec => []PurgeLeavesStub
<1>1. WipeInv => PurgeLeavesStub
  BY DEF WipeInv, PurgeLeavesStub
<1>2. QED
  BY <1>1, WipeInvariant, PTL
============================================================================
