---------------------------- MODULE VaultProofs ----------------------------
(***************************************************************************)
(* VaultInv is inductive, for a vault of any size and any number of I/O    *)
(* errors and crashes; the properties of Vault follow from it.             *)
(***************************************************************************)
EXTENDS Vault, FiniteSetTheorems, TLAPS

\* Counting the zero bits before and after one of them changes.
LEMMA ZeroBits ==
    ASSUME NEW map \in SUBSET Bit
    PROVE  /\ Cardinality(Bit \ map) \in Nat
           /\ \A b \in Bit \ map :
                  /\ Cardinality(Bit \ (map \cup {b})) =
                         Cardinality(Bit \ map) - 1
                  /\ Cardinality(Bit \ map) > 0
           /\ \A b \in map :
                  Cardinality(Bit \ (map \ {b})) = Cardinality(Bit \ map) + 1
<1>1. IsFiniteSet(Bit)
  BY DataBlocksAssumption, FS_Interval DEF Bit
<1>2. IsFiniteSet(Bit \ map)
  BY <1>1, FS_Difference
<1>3. Cardinality(Bit \ map) \in Nat
  BY <1>2, FS_CardinalityType
<1>4. ASSUME NEW b \in Bit \ map
      PROVE  /\ Cardinality(Bit \ (map \cup {b})) = Cardinality(Bit \ map) - 1
             /\ Cardinality(Bit \ map) > 0
  <2>1. Bit \ (map \cup {b}) = (Bit \ map) \ {b}
    OBVIOUS
  <2>2. Cardinality((Bit \ map) \ {b}) = Cardinality(Bit \ map) - 1
    BY <1>2, FS_RemoveElement
  <2>3. Cardinality(Bit \ map) # 0
    BY <1>2, FS_EmptySet
  <2>4. QED
    BY <1>3, <2>1, <2>2, <2>3
<1>5. ASSUME NEW b \in map
      PROVE  Cardinality(Bit \ (map \ {b})) = Cardinality(Bit \ map) + 1
  <2>1. Bit \ (map \ {b}) = (Bit \ map) \cup {b}
    OBVIOUS
  <2>2. Cardinality((Bit \ map) \cup {b}) = Cardinality(Bit \ map) + 1
    BY <1>2, FS_AddElement
  <2>3. QED
    BY <2>1, <2>2
<1>6. QED
  BY Zenon, <1>3, <1>4, <1>5

\* The two changes of a bit keep free_blocks the number of zero bits.
LEMMA CountAllocated ==
    ASSUME bitmap \in SUBSET Bit, freeBlocks = Cardinality(Bit \ bitmap),
           NEW b \in Bit \ bitmap, MarkAllocated(b)
    PROVE  freeBlocks' \in Nat /\ freeBlocks' = Cardinality(Bit \ bitmap')
<1>1. /\ Cardinality(Bit \ (bitmap \cup {b})) = Cardinality(Bit \ bitmap) - 1
      /\ Cardinality(Bit \ bitmap) > 0 /\ Cardinality(Bit \ bitmap) \in Nat
  BY ZeroBits
<1>2. QED
  BY <1>1 DEF MarkAllocated

\* free_block keeps the count.
LEMMA CountFreed ==
    ASSUME bitmap \in SUBSET Bit, freeBlocks = Cardinality(Bit \ bitmap),
           NEW b \in bitmap, MarkFree(b)
    PROVE  freeBlocks' \in Nat /\ freeBlocks' = Cardinality(Bit \ bitmap')
<1>1. /\ Cardinality(Bit \ (bitmap \ {b})) = Cardinality(Bit \ bitmap) + 1
      /\ Cardinality(Bit \ bitmap) \in Nat
  BY ZeroBits
<1>2. QED
  BY <1>1 DEF MarkFree

\* A mixture of two images lies between them.
LEMMA SurvivorsAreBetween ==
    ASSUME VolumeTypeOK, disk.file <= cache.file, NEW img \in Survivors
    PROVE  /\ img \in Image
           /\ disk.file <= img.file /\ img.file <= cache.file
           /\ cache.bitmap \cap disk.bitmap \subseteq img.bitmap
           /\ \A b \in Bit : cache.block[b] = disk.block[b]
                  => img.block[b] = disk.block[b]
<1>1. /\ img.file \in disk.file .. cache.file \cup cache.file .. disk.file
      /\ img.bitmap \in {(cache.bitmap \cap disk.bitmap) \cup some :
                            some \in SUBSET (cache.bitmap \cup disk.bitmap)}
      /\ img.block \in {Mixture(torn, lost) : torn \in SUBSET Unsynced,
                                         lost \in SUBSET Unsynced}
      /\ img = [file |-> img.file, bitmap |-> img.bitmap, block |-> img.block]
  BY DEF Survivors, Between
<1>2. PICK torn \in SUBSET Unsynced, lost \in SUBSET Unsynced :
          img.block = Mixture(torn, lost)
  BY <1>1
<1>3. /\ img.file \in Absent .. Valid
      /\ disk.file <= img.file /\ img.file <= cache.file
  BY <1>1 DEF VolumeTypeOK, Image, Absent, Valid
<1>4. /\ img.bitmap \in SUBSET Bit
      /\ cache.bitmap \cap disk.bitmap \subseteq img.bitmap
  BY <1>1 DEF VolumeTypeOK, Image
<1>5. img.block \in [Bit -> Content]
  BY <1>2 DEF VolumeTypeOK, Image, Content, Mixture
<1>6. \A b \in Bit : cache.block[b] = disk.block[b]
                         => img.block[b] = disk.block[b]
  BY <1>2 DEF Unsynced, Mixture
<1>7. img \in Image
  BY <1>1, <1>3, <1>4, <1>5 DEF Image
<1>8. QED
  BY <1>3, <1>4, <1>6, <1>7

\* A sync_all that fails leaves such a mixture on the medium ...
LEMMA FailedSync ==
    ASSUME VolumeTypeOK, disk.file <= cache.file,
           disk' = disk \/ disk' \in Survivors
    PROVE  /\ disk' \in Image
           /\ disk.file <= disk'.file /\ disk'.file <= cache.file
           /\ cache.bitmap \cap disk.bitmap \subseteq disk'.bitmap
           /\ \A b \in Bit : cache.block[b] = disk.block[b]
                  => disk'.block[b] = disk.block[b]
<1>1. CASE disk' = disk
  BY <1>1 DEF VolumeTypeOK, Image, Absent, Valid
<1>2. CASE disk' \in Survivors
  BY <1>2, SurvivorsAreBetween
<1>3. QED
  BY <1>1, <1>2

\* ... and so does a crash, or it leaves the file alone.
LEMMA CrashedFile ==
    ASSUME VolumeTypeOK, disk.file <= cache.file, Crash
    PROVE  /\ disk' \in Image /\ cache' \in Image
           /\ disk.file <= disk'.file /\ disk'.file <= cache'.file
           /\ cache.bitmap \cap disk.bitmap
                  \subseteq disk'.bitmap \cap cache'.bitmap
           /\ \A b \in Bit : cache.block[b] = disk.block[b]
                  => /\ disk'.block[b] = disk.block[b]
                     /\ cache'.block[b] = disk.block[b]
<1>1. CASE UNCHANGED <<cache, disk>>
  BY <1>1 DEF VolumeTypeOK, Image, Absent, Valid
<1>2. ASSUME NEW img \in Survivors, cache' = img, disk' = img
      PROVE  /\ disk' \in Image /\ cache' \in Image
             /\ disk.file <= disk'.file /\ disk'.file <= cache'.file
             /\ cache.bitmap \cap disk.bitmap
                    \subseteq disk'.bitmap \cap cache'.bitmap
             /\ \A b \in Bit : cache.block[b] = disk.block[b]
                    => /\ disk'.block[b] = disk.block[b]
                       /\ cache'.block[b] = disk.block[b]
  BY <1>2, SurvivorsAreBetween DEF Image, Absent, Valid
<1>3. QED
  BY <1>1, <1>2 DEF Crash

\* Writing one part of an image.
LEMMA FileUpdates ==
    ASSUME cache \in Image, NEW f \in Absent .. Valid
    PROVE  [cache EXCEPT !.file = f] \in Image /\ Blank(f) \in Image
BY DEF Image, Blank, Content

\* What a write makes of the file is a file.
LEMMA ImageUpdates ==
    ASSUME cache \in Image
    PROVE  /\ \A m \in SUBSET Bit, f \in Absent .. Valid :
                  [cache EXCEPT !.bitmap = m, !.file = f] \in Image
           /\ \A b \in Bit, c \in Content, f \in Absent .. Valid :
                  [cache EXCEPT !.block[b] = c, !.file = f] \in Image
           /\ Grown(cache.file) \in Absent .. Valid
<1>1. \A m \in SUBSET Bit, f \in Absent .. Valid :
          [cache EXCEPT !.bitmap = m, !.file = f] \in Image
  BY Zenon DEF Image
<1>2. \A b \in Bit, c \in Content, f \in Absent .. Valid :
          [cache EXCEPT !.block[b] = c, !.file = f] \in Image
  BY Zenon DEF Image
<1>3. Grown(cache.file) \in Absent .. Valid
  BY DEF Image, Grown, Absent, Empty, Sized, Valid
<1>4. QED
  BY Zenon, <1>1, <1>2, <1>3

\* Writing a block of an open volume changes that block alone: the file has
\* its full length already.
LEMMA BlockWritten ==
    ASSUME VaultInv, InCall, pc # "reserve", NEW c \in Content,
           cache' = [cache EXCEPT !.block[blk] = c, !.file = Grown(@)]
    PROVE  /\ cache' \in Image /\ cache'.file = cache.file
           /\ cache'.bitmap = cache.bitmap
           /\ \A b \in Bit \ {blk} : cache'.block[b] = cache.block[b]
<1>1. blk \in Bit /\ cache \in Image /\ Grown(cache.file) = cache.file
  BY DEF VaultInv, TypeOK, VolumeTypeOK, CallInv, Grown, Empty, Valid
<1>2. cache' = [cache EXCEPT !.block[blk] = c, !.file = cache.file]
  BY <1>1
<1>3. cache'.file = cache.file /\ cache'.bitmap = cache.bitmap
  BY <1>1, <1>2 DEF Image
<1>4. cache' = [file |-> cache.file, bitmap |-> cache.bitmap,
                 block |-> [cache.block EXCEPT ![blk] = c]]
  BY Zenon, <1>1, <1>2 DEF Image
<1>5. [cache.block EXCEPT ![blk] = c] \in [Bit -> Content]
  BY <1>1 DEF Image
<1>6. cache' \in Image
  BY <1>1, <1>4, <1>5 DEF Image
<1>7. \A b \in Bit \ {blk} : cache'.block[b] = cache.block[b]
  BY <1>1, <1>4 DEF Image
<1>8. QED
  BY <1>3, <1>6, <1>7

\* What write_block writes is content.
LEMMA PayloadContent == Payload \in Content
BY DEF Payload, Content

\* What a write_block that fails can have changed.
LEMMA FailedBlock ==
    ASSUME VaultInv, BlockFails
    PROVE  /\ cache' \in Image /\ cache'.file = cache.file
           /\ cache'.bitmap = cache.bitmap
           /\ \/ cache' = cache /\ erased' = erased
              \/ /\ \A b \in Bit \ {blk} : cache'.block[b] = cache.block[b]
                 /\ erased' = erased \ {blk}
<1>1. cache \in Image
  BY DEF VaultInv, TypeOK, VolumeTypeOK
<1>2. CASE UNCHANGED <<cache, erased>>
  BY <1>1, <1>2
<1>3. CASE pc = "nonce" /\ WriteNonce(blk) /\ Touched
  <2>1. "torn" \in Content /\ InCall /\ pc # "reserve"
    BY <1>3 DEF Content, InCall
  <2>2. cache' = [cache EXCEPT !.block[blk] = "torn", !.file = Grown(@)]
    BY <1>3 DEF WriteNonce
  <2>3. QED
    BY Zenon, <1>3, <2>1, <2>2, BlockWritten DEF Touched
<1>4. CASE pc = "cipher" /\ WriteCiphertext(blk, Payload) /\ UNCHANGED erased
  <2>1. Payload \in Content /\ InCall /\ pc # "reserve"
    BY <1>4 DEF Payload, Content, InCall
  <2>2. cache' = [cache EXCEPT !.block[blk] = Payload, !.file = Grown(@)]
    BY <1>4 DEF WriteCiphertext
  <2>3. blk \notin erased
    BY <1>4 DEF VaultInv, ErasedInv
  <2>4. erased' = erased \ {blk}
    BY <1>4, <2>3
  <2>5. QED
    BY Zenon, <2>1, <2>2, <2>4, BlockWritten
<1>5. QED
  BY <1>2, <1>3, <1>4 DEF BlockFails

\* What a write_bitmap that fails can have changed.
LEMMA FailedBitmap ==
    ASSUME VaultInv, BitmapFails
    PROVE  /\ cache' \in Image /\ disk' \in Image
           /\ cache'.file = cache.file /\ cache'.block = cache.block
           /\ cache.bitmap \cap bitmap \subseteq cache'.bitmap
           /\ disk.file <= disk'.file /\ disk'.file <= cache.file
           /\ cache.bitmap \cap disk.bitmap \subseteq disk'.bitmap
           /\ \A b \in Bit : cache.block[b] = disk.block[b]
                  => disk'.block[b] = disk.block[b]
<1>1. /\ VolumeTypeOK /\ disk.file <= cache.file
      /\ cache \in Image /\ bitmap \in SUBSET Bit
  BY DEF VaultInv, TypeOK, VolumeTypeOK, CallInv
<1>2. disk' = disk \/ disk' \in Survivors
  BY DEF BitmapFails
<1>3. CASE cache' = cache
  BY <1>1, <1>2, <1>3, FailedSync
<1>4. CASE pc = "bitmap" /\ WriteBitmapPrefix
  <2>1. Grown(cache.file) = cache.file
    BY <1>4 DEF VaultInv, CallInv, InCall, Grown, Empty, Valid
  <2>2. PICK k \in 0 .. DataBlocks :
            cache' = [cache EXCEPT !.bitmap = {b \in bitmap : b < k}
                                       \cup {b \in cache.bitmap : b >= k},
                                   !.file = IF k = 0 THEN @ ELSE Grown(@)]
    BY Zenon, <1>4 DEF WriteBitmapPrefix
  <2> DEFINE m == {b \in bitmap : b < k} \cup {b \in cache.bitmap : b >= k}
  <2>3. cache' = [cache EXCEPT !.bitmap = m, !.file = cache.file]
    BY <2>1, <2>2
  <2>4. m \in SUBSET Bit /\ cache.bitmap \cap bitmap \subseteq m
    <3>1. cache.bitmap \in SUBSET Bit
      BY <1>1 DEF Image
    <3>2. \A b \in Bit : b < k \/ b >= k
      BY DEF Bit
    <3>3. QED
      BY <1>1, <3>1, <3>2
  <2>5. cache' \in Image /\ cache'.file = cache.file
        /\ cache'.block = cache.block /\ cache'.bitmap = m
    <3> HIDE DEF m
    <3>1. QED
      BY Zenon, <1>1, <2>3, <2>4 DEF Image
  <2>6. QED
    BY <1>1, <1>2, <2>4, <2>5, FailedSync
<1>5. QED
  BY <1>3, <1>4 DEF BitmapFails

\* The calls that begin, or end, without touching the file or the bitmap.
Quiet ==
    \/ InitRefused \/ AllocateFull \/ InitCanarySlots \/ ValidateCanarySlots
    \/ \E b \in Bit, c \in {"write", "erase"} : WriteBlock(b, c)
    \/ ReserveSkips \/ ReserveDone

\* These leave what the invariants are about alone.
LEMMA QuietCalls ==
    ASSUME TypeOK, CallInv, Quiet
    PROVE  /\ UNCHANGED <<cache, disk, bitmap, freeBlocks, vfs, held, erased,
                          seeded, faults>>
           /\ answer' \in {answer, {}} /\ intact' \in BOOLEAN
           /\ pc' \in {"idle", "reserve", "nonce"} /\ call' \in CallName
           /\ blk' \in Nat
           /\ pc' = "nonce" => blk' \in Bit
           /\ pc' = "nonce" /\ call' = "canary" => blk' \in Canary
           /\ pc' = "reserve" => /\ call' = "canary"
                                 /\ blk' \in Stamp .. LastCanary + 1
           /\ pc' # "idle" => vfs
<1> USE VaultAssumption, DataBlocksAssumption DEF TypeOK, CallInv, InCall,
       Enter, Goto, volVars, callVars, hostVars, canaryVars, vars, CallName,
       Label, Bit, Canary, Reserved
<1>1. CASE InitRefused \/ AllocateFull
  BY <1>1 DEF InitRefused, AllocateFull
<1>2. CASE InitCanarySlots
  BY <1>2 DEF InitCanarySlots
<1>3. CASE ValidateCanarySlots
  BY <1>3 DEF ValidateCanarySlots
<1>4. CASE \E b \in Bit, c \in {"write", "erase"} : WriteBlock(b, c)
  BY <1>4 DEF WriteBlock
<1>5. CASE ReserveSkips \/ ReserveDone
  BY <1>5 DEF ReserveSkips, ReserveDone
<1>6. QED
  BY <1>1, <1>2, <1>3, <1>4, <1>5 DEF Quiet

\* Each step keeps the bookkeeping of the call in progress.
LEMMA CallStep ==
    ASSUME VaultInv, Next
    PROVE  CallInv'
<1> USE VaultAssumption, DataBlocksAssumption DEF VaultInv, CallInv, TypeOK,
       VolumeTypeOK, Image, Goto, Return, volVars, callVars, hostVars,
       canaryVars, vars,
       InCall, Creating, Fault, Absent, Empty, Sized, Valid, Bit, Canary,
       Reserved
<1>1. CASE InitCreate
  <2>1. held = {} /\ erased = {}
    BY <1>1 DEF InitCreate, CreateFile, HeldInv, ErasedInv
  <2>2. QED
    BY <1>1, <2>1 DEF InitCreate, CreateFile, Blank
<1>2. CASE InitSetLen
  BY <1>2 DEF InitSetLen, SetLen
<1>3. CASE InitSuperblock
  BY <1>3 DEF InitSuperblock, WriteSuperblock
<1>4. CASE InitSync
  BY <1>4 DEF InitSync, SyncAll, Load
<1>5. CASE InitFails
  <2>1. disk' = disk \/ disk' \in Survivors
    BY <1>5 DEF InitFails
  <2>2. disk'.file <= cache.file
    BY <2>1, FailedSync
  <2>3. QED
    BY <1>5, <2>2 DEF InitFails
<1>6. CASE InitOpen
  BY <1>6 DEF InitOpen, Load
<1>7. CASE InitAgain
  BY <1>7 DEF InitAgain, SyncAll
<1>8. CASE \E b \in Bit : AllocateBlock(b)
  BY <1>8 DEF AllocateBlock, Enter, FirstFree, MarkAllocated
<1>9. CASE \E b \in Bit : FreeBlock(b)
  BY <1>9 DEF FreeBlock, Enter, MarkFree
<1>10. CASE ReserveBlock
  BY <1>10 DEF ReserveBlock, MarkAllocated
<1>11. CASE Nonce
  BY <1>11 DEF Nonce, Touched, WriteNonce, Grown
<1>12. CASE WriteDone
  BY <1>12 DEF WriteDone, WriteCiphertext, Grown, Payload
<1>13. CASE EraseDone
  BY <1>13 DEF EraseDone, WriteCiphertext, Grown, Payload, MarkFree
<1>14. CASE CanaryDone
  BY <1>14 DEF CanaryDone, WriteCiphertext, Grown, Payload
<1>15. CASE BlockFails
  BY <1>15, FailedBlock DEF BlockFails
<1>16. CASE Bitmap
  BY <1>16 DEF Bitmap, WriteBitmap, Grown
<1>17. CASE Sync
  BY <1>17 DEF Sync, SyncAll, Resume
<1>18. CASE BitmapFails
  <2>1. disk'.file <= cache.file /\ cache'.file = cache.file
    BY <1>18, FailedBitmap
  <2>2. QED
    BY <1>18, <2>1 DEF BitmapFails, Resume
<1>19. CASE Crash
  <2>1. disk'.file <= cache'.file
    BY <1>19, CrashedFile
  <2>2. QED
    BY <1>19, <2>1 DEF Crash, ProcessEnds
<1>20. CASE Quiet
  BY <1>20, QuietCalls
<1>21. QED
  BY ONLY Next, Zenon, <1>1, <1>2, <1>3, <1>4, <1>5, <1>6, <1>7, <1>8,
     <1>9, <1>10, <1>11, <1>12, <1>13, <1>14, <1>15, <1>16, <1>17, <1>18,
     <1>19, <1>20
     DEF Next, VolumeStep, Quiet

\* Each step keeps the count of the free blocks right.
LEMMA CountStep ==
    ASSUME VaultInv, Next
    PROVE  freeBlocks' \in Nat /\ FreeCount'
<1> USE VaultAssumption, DataBlocksAssumption DEF VaultInv, CallInv, TypeOK,
       VolumeTypeOK, Image, Goto, Return, volVars, callVars, hostVars,
       canaryVars, vars,
       InCall, Creating, Fault, Absent, Empty, Sized, Valid, FreeCount,
       Reserved
<1>1. CASE InitCreate
  BY <1>1 DEF InitCreate, CreateFile, Blank
<1>2. CASE InitSetLen
  BY <1>2 DEF InitSetLen, SetLen
<1>3. CASE InitSuperblock
  BY <1>3 DEF InitSuperblock, WriteSuperblock
<1>4. CASE InitSync
  BY <1>4, ZeroBits DEF InitSync, SyncAll, Load
<1>5. CASE InitFails
  BY <1>5 DEF InitFails
<1>6. CASE InitOpen
  BY <1>6, ZeroBits DEF InitOpen, Load
<1>7. CASE InitAgain
  BY <1>7 DEF InitAgain, SyncAll
<1>8. CASE \E b \in Bit : AllocateBlock(b)
  <2>1. PICK b \in Bit : AllocateBlock(b)
    BY <1>8
  <2>2. b \in Bit \ bitmap /\ MarkAllocated(b) /\ vfs
    BY <2>1 DEF AllocateBlock, Enter, FirstFree
  <2>3. freeBlocks' \in Nat /\ freeBlocks' = Cardinality(Bit \ bitmap')
    BY Zenon, <2>2, CountAllocated
  <2>4. QED
    BY <2>3
<1>9. CASE \E b \in Bit : FreeBlock(b)
  <2>1. PICK b \in Bit : FreeBlock(b)
    BY <1>9
  <2>2. b \in bitmap /\ MarkFree(b) /\ vfs
    BY <2>1 DEF FreeBlock, Enter
  <2>3. freeBlocks' \in Nat /\ freeBlocks' = Cardinality(Bit \ bitmap')
    BY Zenon, <2>2, CountFreed
  <2>4. QED
    BY <2>3
<1>10. CASE ReserveBlock
  <2>1. blk \in Bit \ bitmap /\ MarkAllocated(blk) /\ vfs
    BY <1>10 DEF ReserveBlock, Bit
  <2>2. freeBlocks' \in Nat /\ freeBlocks' = Cardinality(Bit \ bitmap')
    BY Zenon, <2>1, CountAllocated
  <2>3. QED
    BY <2>2
<1>11. CASE Nonce
  BY <1>11 DEF Nonce, Touched, WriteNonce, Grown
<1>12. CASE WriteDone
  BY <1>12 DEF WriteDone, WriteCiphertext, Grown, Payload
<1>13. CASE EraseDone
  <2>1. CASE blk \in bitmap
    <3>1. MarkFree(blk) /\ vfs
      BY <1>13, <2>1 DEF EraseDone
    <3>2. freeBlocks' \in Nat /\ freeBlocks' = Cardinality(Bit \ bitmap')
      BY <2>1, <3>1, CountFreed
    <3>3. QED
      BY <3>2
  <2>2. CASE blk \notin bitmap
    BY <1>13, <2>2 DEF EraseDone
  <2>3. QED
    BY <2>1, <2>2
<1>14. CASE CanaryDone
  BY <1>14 DEF CanaryDone, WriteCiphertext, Grown, Payload
<1>15. CASE BlockFails
  BY <1>15, FailedBlock DEF BlockFails
<1>16. CASE Bitmap
  BY <1>16 DEF Bitmap, WriteBitmap, Grown
<1>17. CASE Sync
  BY <1>17 DEF Sync, SyncAll, Resume
<1>18. CASE BitmapFails
  BY Zenon, <1>18 DEF BitmapFails, WriteBitmapPrefix, Grown, Resume
<1>19. CASE Crash
  BY <1>19 DEF Crash, ProcessEnds
<1>20. CASE Quiet
  <2>1. UNCHANGED <<bitmap, freeBlocks, vfs>>
    BY ONLY VaultInv, <1>20, QuietCalls, Zenon DEF VaultInv
  <2>2. QED
    BY <2>1
<1>21. QED
  BY ONLY Next, Zenon, <1>1, <1>2, <1>3, <1>4, <1>5, <1>6, <1>7, <1>8,
     <1>9, <1>10, <1>11, <1>12, <1>13, <1>14, <1>15, <1>16, <1>17, <1>18,
     <1>19, <1>20
     DEF Next, VolumeStep, Quiet

\* Each step keeps the types.
LEMMA TypeStep ==
    ASSUME VaultInv, Next
    PROVE  TypeOK'
<1>1. freeBlocks' \in Nat
  BY CountStep
<1>2. cache \in Image /\ disk \in Image /\ disk.file \in Absent .. Valid
  BY DEF VaultInv, TypeOK, VolumeTypeOK, Image
<1>3. TypeOK /\ CallInv
  BY DEF VaultInv
<1>4. cache' \in Image /\ disk' \in Image
  <2> USE <1>2, <1>3 DEF volVars, vars, Absent, Empty, Sized, Valid
  <2>1. CASE InitCreate
    <3>1. /\ cache' = Blank(Empty) /\ Empty \in Absent .. Valid
          /\ disk' = disk
      BY <2>1 DEF InitCreate, CreateFile
    <3>2. QED
      BY <3>1, FileUpdates
  <2>2. CASE InitSetLen
    <3>1. /\ cache' = [cache EXCEPT !.file = Sized] /\ disk' = disk
          /\ Sized \in Absent .. Valid
      BY <2>2 DEF InitSetLen, SetLen
    <3>2. QED
      BY <3>1, FileUpdates
  <2>3. CASE InitSuperblock
    <3>1. /\ cache' = [cache EXCEPT !.file = Valid] /\ disk' = disk
          /\ Valid \in Absent .. Valid
      BY <2>3 DEF InitSuperblock, WriteSuperblock
    <3>2. QED
      BY <3>1, FileUpdates
  <2>4. CASE InitSync
    BY <2>4 DEF InitSync, SyncAll
  <2>5. CASE InitFails
    BY <2>5, FailedSync DEF InitFails, TypeOK, CallInv
  <2>6. CASE InitOpen
    BY <2>6 DEF InitOpen
  <2>7. CASE InitAgain
    BY <2>7 DEF InitAgain, SyncAll
  <2>8. CASE \E b \in Bit : AllocateBlock(b)
    BY <2>8 DEF AllocateBlock
  <2>9. CASE \E b \in Bit : FreeBlock(b)
    BY <2>9 DEF FreeBlock
  <2>10. CASE ReserveBlock
    BY <2>10 DEF ReserveBlock
  <2>11. CASE Nonce
    <3>1. "torn" \in Content /\ InCall /\ pc # "reserve" /\ disk' = disk
      BY <2>11 DEF Nonce, Content, InCall
    <3>2. QED
      BY Zenon, <2>11, <3>1, BlockWritten DEF Nonce, WriteNonce
  <2>12. CASE WriteDone
    <3>1. InCall /\ pc # "reserve" /\ disk' = disk
      BY <2>12 DEF WriteDone, InCall
    <3>2. QED
      BY Zenon, <2>12, <3>1, PayloadContent, BlockWritten
         DEF WriteDone, WriteCiphertext
  <2>13. CASE EraseDone
    <3>1. InCall /\ pc # "reserve" /\ disk' = disk
      BY <2>13 DEF EraseDone, InCall
    <3>2. QED
      BY Zenon, <2>13, <3>1, PayloadContent, BlockWritten
         DEF EraseDone, WriteCiphertext
  <2>14. CASE CanaryDone
    <3>1. InCall /\ pc # "reserve" /\ disk' = disk
      BY <2>14 DEF CanaryDone, InCall
    <3>2. QED
      BY Zenon, <2>14, <3>1, PayloadContent, BlockWritten
         DEF CanaryDone, WriteCiphertext
  <2>15. CASE BlockFails
    BY <2>15, FailedBlock DEF BlockFails
  <2>16. CASE Bitmap
    <3>1. /\ cache' = [cache EXCEPT !.bitmap = bitmap,
                                   !.file = Grown(cache.file)]
          /\ disk' = disk
      BY <2>16 DEF Bitmap, WriteBitmap
    <3>2. bitmap \in SUBSET Bit /\ Grown(cache.file) \in Absent .. Valid
      BY Zenon, ImageUpdates DEF TypeOK, VolumeTypeOK
    <3>3. QED
      BY Zenon, <3>1, <3>2, ImageUpdates
  <2>17. CASE Sync
    BY <2>17 DEF Sync, SyncAll
  <2>18. CASE BitmapFails
    BY <2>18, FailedBitmap
  <2>19. CASE Crash
    BY <2>19, CrashedFile DEF TypeOK, CallInv
  <2>20. CASE Quiet
    BY <2>20, QuietCalls
  <2>21. QED
    BY ONLY Next, Zenon, <2>1, <2>2, <2>3, <2>4, <2>5, <2>6, <2>7, <2>8,
       <2>9, <2>10, <2>11, <2>12, <2>13, <2>14, <2>15, <2>16, <2>17, <2>18,
       <2>19, <2>20
       DEF Next, VolumeStep, Quiet
<1>5. /\ bitmap' \in SUBSET Bit /\ vfs' \in BOOLEAN /\ seeded' \in BOOLEAN
      /\ faults' \in Nat /\ pc' \in Label /\ call' \in CallName
      /\ blk' \in Nat /\ held' \in SUBSET Bit /\ erased' \in SUBSET Bit
      /\ answer' \in SUBSET Bit /\ intact' \in BOOLEAN
  <2> USE VaultAssumption, DataBlocksAssumption, <1>3 DEF CallInv, InCall,
     Goto, Return, volVars, callVars, hostVars, canaryVars, vars, Label,
     CallName,
     TypeOK, VolumeTypeOK, Fault, Bit, Canary, Reserved
  <2>1. CASE InitCreate
    BY Zenon, <2>1 DEF InitCreate
  <2>2. CASE InitSetLen
    BY <2>2 DEF InitSetLen
  <2>3. CASE InitSuperblock
    BY <2>3 DEF InitSuperblock
  <2>4. CASE InitSync
    BY <2>4 DEF InitSync, Load, Image
  <2>5. CASE InitFails
    BY <2>5 DEF InitFails
  <2>6. CASE InitOpen
    BY <2>6 DEF InitOpen, Load, Image
  <2>7. CASE InitAgain
    BY <2>7 DEF InitAgain
  <2>8. CASE \E b \in Bit : AllocateBlock(b)
    BY <2>8 DEF AllocateBlock, MarkAllocated
  <2>9. CASE \E b \in Bit : FreeBlock(b)
    BY <2>9 DEF FreeBlock, MarkFree
  <2>10. CASE ReserveBlock
    BY <2>10 DEF ReserveBlock, MarkAllocated
  <2>11. CASE Nonce
    BY <2>11 DEF Nonce, Touched
  <2>12. CASE WriteDone
    BY <2>12 DEF WriteDone
  <2>13. CASE EraseDone
    <3>1. CASE blk \in bitmap
      BY Zenon, <2>13, <3>1 DEF EraseDone, MarkFree
    <3>2. CASE blk \notin bitmap
      <4>1. /\ Return /\ bitmap' = bitmap /\ held' = held /\ vfs' = vfs
            /\ answer' = answer
            /\ erased' = erased /\ seeded' = seeded /\ faults' = faults
            /\ intact' = intact
        BY <2>13, <3>2 DEF EraseDone
      <4>2. QED
        BY <4>1
    <3>3. QED
      BY <3>1, <3>2
  <2>14. CASE CanaryDone
    <3>1. CASE blk = LastCanary
      BY <2>14, <3>1 DEF CanaryDone
    <3>2. CASE blk # LastCanary
      BY <2>14, <3>2 DEF CanaryDone
    <3>3. QED
      BY <3>1, <3>2
  <2>15. CASE BlockFails
    <3>1. erased' \in SUBSET Bit
      BY Zenon, <2>15, FailedBlock
    <3>2. QED
      BY <2>15, <3>1 DEF BlockFails
  <2>16. CASE Bitmap
    BY <2>16 DEF Bitmap
  <2>17. CASE Sync
    <3>1. held' \in SUBSET Bit /\ answer' \in SUBSET Bit
      <4>1. blk \in Bit
        BY <2>17 DEF Sync
      <4>2. \/ held' = held \cup {blk} /\ answer' = {blk}
            \/ held' = held /\ answer' = answer
        BY <2>17 DEF Sync
      <4>3. QED
        BY Zenon, <4>1, <4>2
    <3>2. erased' \in SUBSET Bit
      BY <2>17 DEF Sync
    <3>4. pc' \in Label /\ call' \in CallName /\ blk' \in Nat
      BY <2>17 DEF Sync, Resume
    <3>5. QED
      BY <2>17, <3>1, <3>2, <3>4 DEF Sync
  <2>18. CASE BitmapFails
    <3>1. pc' \in Label /\ call' \in CallName /\ blk' \in Nat
      BY <2>18 DEF BitmapFails, Resume
    <3>2. QED
      BY <2>18, <3>1 DEF BitmapFails
  <2>19. CASE Crash
    <3>1. /\ pc' \in Label /\ call' \in CallName /\ blk' \in Nat
          /\ faults' \in Nat
      BY <2>19 DEF Crash, ProcessEnds
    <3>2. /\ bitmap' \in SUBSET Bit /\ vfs' \in BOOLEAN
          /\ seeded' \in BOOLEAN /\ intact' \in BOOLEAN
      BY Zenon, <2>19 DEF Crash, ProcessEnds
    <3>3. /\ answer' = {}
          /\ held' = held /\ erased' = erased
      BY <2>19 DEF Crash, ProcessEnds
    <3>4. QED
      BY <3>1, <3>2, <3>3
  <2>20. CASE Quiet
    BY Zenon, <2>20, QuietCalls
  <2>21. QED
    BY ONLY Next, Zenon, <2>1, <2>2, <2>3, <2>4, <2>5, <2>6, <2>7, <2>8,
       <2>9, <2>10, <2>11, <2>12, <2>13, <2>14, <2>15, <2>16, <2>17, <2>18,
       <2>19, <2>20
       DEF Next, VolumeStep, Quiet
<1>6. QED
  BY <1>1, <1>4, <1>5 DEF TypeOK, VolumeTypeOK

\* Each step keeps held blocks allocated in all three bitmaps.
LEMMA HeldStep ==
    ASSUME VaultInv, Next
    PROVE  HeldInv'
<1> USE VaultAssumption, DataBlocksAssumption DEF VaultInv, CallInv, TypeOK,
       VolumeTypeOK, Image, Goto, Return, volVars, callVars, hostVars,
       canaryVars, vars,
       InCall, Creating, Fault, Absent, Empty, Sized, Valid, HeldInv
<1>1. CASE InitCreate
  <2>1. held = {} /\ held' = held /\ pc' = "set_len"
    BY <1>1 DEF InitCreate, CreateFile
  <2>2. QED
    BY <2>1
<1>2. CASE InitSetLen
  BY <1>2 DEF InitSetLen, SetLen
<1>3. CASE InitSuperblock
  BY <1>3 DEF InitSuperblock, WriteSuperblock
<1>4. CASE InitSync
  BY <1>4 DEF InitSync, SyncAll, Load
<1>5. CASE InitFails
  <2>1. disk' = disk \/ disk' \in Survivors
    BY <1>5 DEF InitFails
  <2>2. held = {}
    BY <1>5 DEF InitFails
  <2>3. QED
    BY <1>5, <2>2 DEF InitFails
<1>6. CASE InitOpen
  BY <1>6 DEF InitOpen, Load
<1>7. CASE InitAgain
  BY <1>7 DEF InitAgain, SyncAll
<1>8. CASE \E b \in Bit : AllocateBlock(b)
  BY <1>8 DEF AllocateBlock, Enter, FirstFree, MarkAllocated
<1>9. CASE \E b \in Bit : FreeBlock(b)
  BY <1>9 DEF FreeBlock, Enter, MarkFree
<1>10. CASE ReserveBlock
  BY <1>10 DEF ReserveBlock, MarkAllocated
<1>11. CASE Nonce
  BY <1>11 DEF Nonce, Touched, WriteNonce, Grown
<1>12. CASE WriteDone
  BY <1>12 DEF WriteDone, WriteCiphertext, Grown, Payload
<1>13. CASE EraseDone
  BY <1>13 DEF EraseDone, WriteCiphertext, Grown, Payload, MarkFree
<1>14. CASE CanaryDone
  BY <1>14 DEF CanaryDone, WriteCiphertext, Grown, Payload
<1>15. CASE BlockFails
  BY <1>15, FailedBlock DEF BlockFails
<1>16. CASE Bitmap
  BY <1>16 DEF Bitmap, WriteBitmap, Grown
<1>17. CASE Sync
  BY <1>17 DEF Sync, SyncAll, Resume
<1>18. CASE BitmapFails
  <2>1. /\ disk' \in Image
        /\ disk.file <= disk'.file /\ disk'.file <= cache.file
        /\ cache.bitmap \cap disk.bitmap \subseteq disk'.bitmap
    BY <1>18, FailedBitmap
  <2>2. \A b \in held : b \in cache'.bitmap
    <3>1. cache.bitmap \cap bitmap \subseteq cache'.bitmap
      BY <1>18, FailedBitmap
    <3>2. vfs
      BY <1>18 DEF BitmapFails
    <3>3. QED
      BY <3>1, <3>2
  <2>3. /\ held' = held /\ bitmap' = bitmap /\ vfs' = vfs
        /\ pc' \in {"idle", "reserve"}
    BY <1>18 DEF BitmapFails, Resume
  <2>4. \A b \in held : disk'.file = Valid /\ b \in disk'.bitmap
    BY <2>1
  <2>5. QED
    BY <2>2, <2>3, <2>4
<1>19. CASE Crash
  <2>1. /\ disk' \in Image /\ cache' \in Image
        /\ disk.file <= disk'.file
        /\ cache.bitmap \cap disk.bitmap
               \subseteq disk'.bitmap \cap cache'.bitmap
    BY <1>19, CrashedFile
  <2>2. held' = held /\ vfs' = FALSE /\ pc' = "idle"
    BY <1>19 DEF Crash, ProcessEnds
  <2>3. \A b \in held : /\ disk'.file = Valid
                        /\ b \in disk'.bitmap \cap cache'.bitmap
    BY <2>1
  <2>4. QED
    BY <2>2, <2>3
<1>20. CASE Quiet
  <2>1. /\ UNCHANGED <<cache, disk, bitmap, vfs, held>>
        /\ pc' \in {"idle", "reserve", "nonce"}
    BY <1>20, QuietCalls
  <2>2. QED
    BY <2>1
<1>21. QED
  BY ONLY Next, Zenon, <1>1, <1>2, <1>3, <1>4, <1>5, <1>6, <1>7, <1>8,
     <1>9, <1>10, <1>11, <1>12, <1>13, <1>14, <1>15, <1>16, <1>17, <1>18,
     <1>19, <1>20
     DEF Next, VolumeStep, Quiet

\* Each step keeps the noise of erased blocks.
LEMMA ErasedStep ==
    ASSUME VaultInv, Next
    PROVE  ErasedInv'
<1> USE VaultAssumption, DataBlocksAssumption DEF VaultInv, CallInv, TypeOK,
       VolumeTypeOK, Image, Goto, Return, volVars, callVars, hostVars,
       canaryVars, vars,
       InCall, Creating, Fault, Absent, Empty, Sized, Valid, ErasedInv
<1>1. CASE InitCreate
  <2>1. erased = {} /\ erased' = erased /\ pc' = "set_len"
    BY <1>1 DEF InitCreate, CreateFile
  <2>2. QED
    BY <2>1
<1>2. CASE InitSetLen
  BY <1>2 DEF InitSetLen, SetLen
<1>3. CASE InitSuperblock
  BY <1>3 DEF InitSuperblock, WriteSuperblock
<1>4. CASE InitSync
  BY <1>4 DEF InitSync, SyncAll, Load
<1>5. CASE InitFails
  <2>1. erased = {}
    BY <1>5 DEF InitFails
  <2>2. QED
    BY <1>5, <2>1 DEF InitFails
<1>6. CASE InitOpen
  BY <1>6 DEF InitOpen, Load
<1>7. CASE InitAgain
  BY <1>7 DEF InitAgain, SyncAll
<1>8. CASE \E b \in Bit : AllocateBlock(b)
  BY <1>8 DEF AllocateBlock, Enter, FirstFree, MarkAllocated
<1>9. CASE \E b \in Bit : FreeBlock(b)
  BY <1>9 DEF FreeBlock, Enter, MarkFree
<1>10. CASE ReserveBlock
  BY <1>10 DEF ReserveBlock, MarkAllocated
<1>11. CASE Nonce
  BY <1>11 DEF Nonce, Touched, WriteNonce, Grown
<1>12. CASE WriteDone
  BY <1>12 DEF WriteDone, WriteCiphertext, Grown, Payload
<1>13. CASE EraseDone
  BY <1>13 DEF EraseDone, WriteCiphertext, Grown, Payload, MarkFree
<1>14. CASE CanaryDone
  BY <1>14 DEF CanaryDone, WriteCiphertext, Grown, Payload
<1>15. CASE BlockFails
  BY <1>15, FailedBlock DEF BlockFails
<1>16. CASE Bitmap
  BY <1>16 DEF Bitmap, WriteBitmap, Grown
<1>17. CASE Sync
  BY <1>17 DEF Sync, SyncAll, Resume
<1>18. CASE BitmapFails
  <2>1. /\ disk' \in Image
        /\ disk.file <= disk'.file
        /\ \A b \in Bit : cache.block[b] = disk.block[b]
               => disk'.block[b] = disk.block[b]
        /\ cache'.block = cache.block
    BY <1>18, FailedBitmap
  <2>2. erased' = erased /\ pc' \in {"idle", "reserve"}
    BY <1>18 DEF BitmapFails, Resume
  <2>3. \A b \in erased : /\ disk'.file = Valid
                          /\ disk'.block[b] = "noise"
                          /\ cache'.block[b] = "noise"
    BY <2>1
  <2>4. QED
    BY <2>2, <2>3
<1>19. CASE Crash
  <2>1. /\ disk' \in Image /\ disk.file <= disk'.file
        /\ \A b \in Bit : cache.block[b] = disk.block[b]
               => /\ disk'.block[b] = disk.block[b]
                  /\ cache'.block[b] = disk.block[b]
    BY <1>19, CrashedFile
  <2>2. erased' = erased /\ pc' = "idle"
    BY <1>19 DEF Crash, ProcessEnds
  <2>3. \A b \in erased : /\ disk'.file = Valid
                          /\ disk'.block[b] = "noise"
                          /\ cache'.block[b] = "noise"
    BY <2>1
  <2>4. QED
    BY <2>2, <2>3
<1>20. CASE Quiet
  BY <1>20, QuietCalls
<1>21. QED
  BY ONLY Next, Zenon, <1>1, <1>2, <1>3, <1>4, <1>5, <1>6, <1>7, <1>8,
     <1>9, <1>10, <1>11, <1>12, <1>13, <1>14, <1>15, <1>16, <1>17, <1>18,
     <1>19, <1>20
     DEF Next, VolumeStep, Quiet

\* One step keeps the invariant.
LEMMA VaultStep ==
    ASSUME VaultInv, [Next]_vars
    PROVE  VaultInv'
<1>1. CASE Next
  <2>1. TypeOK' /\ CallInv' /\ HeldInv' /\ ErasedInv' /\ FreeCount'
    BY <1>1, TypeStep, CallStep, HeldStep, ErasedStep, CountStep
  <2>2. QED
    BY <2>1 DEF VaultInv
<1>2. CASE UNCHANGED vars
  <2> USE DEF vars, volVars, callVars, hostVars, canaryVars
  <2>1. TypeOK'
    BY <1>2 DEF VaultInv, TypeOK, VolumeTypeOK
  <2>2. CallInv'
    BY <1>2 DEF VaultInv, CallInv, InCall, Creating
  <2>3. HeldInv' /\ FreeCount'
    BY Zenon, <1>2 DEF VaultInv, HeldInv, FreeCount
  <2>4. ErasedInv'
    BY <1>2 DEF VaultInv, ErasedInv
  <2>5. QED
    BY <2>1, <2>2, <2>3, <2>4 DEF VaultInv
<1>3. QED
  BY <1>1, <1>2

\* The invariant holds before the first call.
LEMMA VaultStart ==
    ASSUME Init
    PROVE  VaultInv
<1> USE VaultAssumption, DataBlocksAssumption DEF Init, InitVolume, Blank,
     Absent, Empty, Sized, Valid
<1>1. TypeOK
  <2>1. cache \in Image /\ disk \in Image
    BY DEF Image, Content
  <2>2. QED
    BY Zenon, <2>1 DEF TypeOK, VolumeTypeOK, Label, CallName
<1>2. CallInv /\ HeldInv /\ ErasedInv /\ FreeCount
  BY DEF CallInv, InCall, Creating, HeldInv, ErasedInv, FreeCount
<1>3. QED
  BY <1>1, <1>2 DEF VaultInv

\* VaultInv is an invariant of the vault, of any size and with any number of
\* I/O errors and crashes.
THEOREM VaultInvariant == Spec => []VaultInv
<1>1. Init => VaultInv
  BY VaultStart
<1>2. VaultInv /\ [Next]_vars => VaultInv'
  BY VaultStep
<1>3. QED
  BY <1>1, <1>2, PTL DEF Spec

\* No crash loses a block that allocate_vault_block has handed out.
THEOREM HeldIsDurableHolds == Spec => []HeldIsDurable
<1>1. VaultInv => HeldIsDurable
  BY DEF VaultInv, HeldInv, HeldIsDurable
<1>2. QED
  BY <1>1, VaultInvariant, PTL

\* free_blocks is the number of zero bits whenever a volume is open.
THEOREM FreeCountHolds == Spec => []FreeCount
<1>1. VaultInv => FreeCount
  BY DEF VaultInv
<1>2. QED
  BY <1>1, VaultInvariant, PTL

\* What secure_erase_block has overwritten never comes back from the medium.
THEOREM ErasedForGoodHolds == Spec => []ErasedForGood
<1>1. VaultInv => ErasedForGood
  BY DEF VaultInv, ErasedInv, ErasedForGood
<1>2. QED
  BY <1>1, VaultInvariant, PTL

\* A step of the vault answers with a block that nobody holds, takes one back,
\* refuses, or leaves the holders and the answer alone.
LEMMA StoreStep ==
    ASSUME VaultInv, [Next]_vars
    PROVE  [Store!Next]_<<held, answer>>
<1> USE DEF Store!Next, Store!Allocate, Store!Refuse, Store!GiveUp, hostVars,
            vars
<1>1. CASE \E b \in Bit : FreeBlock(b)
  <2>1. PICK b \in Bit : held' = held \ {b} /\ answer' = answer
    BY <1>1 DEF FreeBlock
  <2>2. CASE b \in held
    BY <2>1, <2>2
  <2>3. CASE b \notin held
    BY <2>1, <2>3
  <2>4. QED
    BY <2>2, <2>3
<1>2. CASE EraseDone
  <2>1. blk \in Bit
    BY <1>2 DEF EraseDone, VaultInv, CallInv, InCall
  <2>2. (held' = held \/ held' = held \ {blk}) /\ answer' = answer
    BY <1>2 DEF EraseDone
  <2>3. CASE blk \in held
    BY <2>1, <2>2, <2>3
  <2>4. CASE blk \notin held
    BY <2>2, <2>4
  <2>5. QED
    BY <2>3, <2>4
<1>3. CASE Sync
  <2>1. CASE call = "alloc"
    <3>1. held' = held \cup {blk} /\ answer' = {blk}
      BY <1>3, <2>1 DEF Sync
    <3>2. blk \in Bit \ held
      BY <1>3, <2>1 DEF Sync, VaultInv, CallInv, InCall, HeldInv
    <3>3. QED
      BY <3>1, <3>2
  <2>2. CASE call # "alloc"
    BY <1>3, <2>2 DEF Sync
  <2>3. QED
    BY <2>1, <2>2
<1>4. \/ held' = held /\ (answer' = answer \/ answer' = {})
      \/ (\E b \in Bit : FreeBlock(b)) \/ EraseDone \/ Sync
  BY Zenon DEF Next, VolumeStep, ProcessEnds, InitCreate, InitSetLen,
     InitSuperblock, InitSync, InitFails,
     InitOpen, InitRefused, InitAgain, AllocateBlock, AllocateFull,
     WriteBlock, InitCanarySlots, ValidateCanarySlots, ReserveSkips,
     ReserveBlock, ReserveDone,
     Nonce, WriteDone, CanaryDone, BlockFails, Bitmap, BitmapFails, Crash
<1>5. QED
  BY <1>1, <1>2, <1>3, <1>4

\* The vault implements the allocator of BlockStore.
THEOREM VaultImplementsStore == Spec => OneHolderPerBlock
<1>1. Init => Store!Init
  BY DEF Init, Store!Init
<1>2. VaultInv /\ [Next]_vars => [Store!Next]_<<held, answer>>
  BY StoreStep
<1>3. QED
  BY <1>1, <1>2, VaultInvariant, PTL DEF Spec, OneHolderPerBlock, Store!Spec
============================================================================
