--------------------------- MODULE VirtualVolume ---------------------------
(***************************************************************************)
(* virtual_volume.rs: the vault file and the VirtualVolume that is open on *)
(* it.  The file exists twice: as the operating system shows it (cache)    *)
(* and as the medium holds it (disk); sync_all makes them equal, and a     *)
(* power loss leaves a mixture of the two.                                 *)
(*                                                                         *)
(* Block numbers are bit numbers: bit_idx = block_idx - DATA_START_BLOCK.  *)
(* The content of a block is what read_block finds in it; "torn" stands    *)
(* for whatever does not authenticate, the zeros of a new file included.   *)
(***************************************************************************)
EXTENDS Naturals, FiniteSets

CONSTANT DataBlocks          \* data blocks of the vault

ASSUME DataBlocksAssumption == DataBlocks \in Nat

VARIABLES
    cache,                   \* the file as read and written
    disk,                    \* the file on the medium
    bitmap,                  \* block_bitmap of the open volume: allocated bits
    freeBlocks               \* free_blocks of the open volume

volVars == <<cache, disk, bitmap, freeBlocks>>

Bit == 0 .. DataBlocks - 1

Content == {"torn", "data", "noise", "canary"}

\* How far a vault file has come: no file, a zero-byte stub, its full size
\* without a superblock, a superblock.
Absent == 0
Empty == 1
Sized == 2
Valid == 3

Image ==
    [file : Absent .. Valid, bitmap : SUBSET Bit, block : [Bit -> Content]]

Blank(f) == [file |-> f, bitmap |-> {}, block |-> [b \in Bit |-> "torn"]]

VolumeTypeOK ==
    /\ cache \in Image
    /\ disk \in Image
    /\ bitmap \in SUBSET Bit
    /\ freeBlocks \in Nat

InitVolume ==
    /\ cache = Blank(Absent) /\ disk = Blank(Absent)
    /\ bitmap = {} /\ freeBlocks = 0

----------------------------------------------------------------------------
(* The medium (external).                                                  *)

Unsynced == {b \in Bit : cache.block[b] # disk.block[b]}

Between(m, n) == m .. n \cup n .. m

Mixture(torn, lost) ==
    [b \in Bit |-> IF b \in torn THEN "torn"
                   ELSE IF b \in lost THEN disk.block[b] ELSE cache.block[b]]

\* What a power loss may leave: of each unsynced write all, nothing, or, of a
\* data block, a part.
Survivors ==
    [file : Between(disk.file, cache.file),
     bitmap : {(cache.bitmap \cap disk.bitmap) \cup some :
                  some \in SUBSET (cache.bitmap \cup disk.bitmap)},
     block : {Mixture(torn, lost) : torn \in SUBSET Unsynced,
                                    lost \in SUBSET Unsynced}]

SyncAll == disk' = cache

----------------------------------------------------------------------------
(* Opening.                                                                *)

\* open_or_create finds no file or a zero-byte one, which it removes, and
\* create_new makes an empty file; the medium keeps the old one until a sync,
\* which is taken to cover the directory entry ...
CreateFile ==
    /\ cache.file \in {Absent, Empty}
    /\ cache' = Blank(Empty)
    /\ UNCHANGED disk

\* ... gives it its full size, all zero ...
SetLen == cache' = [cache EXCEPT !.file = Sized]

\* ... and writes the superblock and the empty bitmap.
WriteSuperblock == cache' = [cache EXCEPT !.file = Valid]

LoadTrustsSuperblock(img) ==
    /\ bitmap' = img.bitmap
    /\ freeBlocks' = DataBlocks

\* open_existing reads the bitmap and counts its zero bits.
Load(img) ==
    /\ bitmap' = img.bitmap
    /\ freeBlocks' = Cardinality(Bit \ img.bitmap)

----------------------------------------------------------------------------
(* The bitmap.                                                             *)

\* A write into a truncated file makes it longer, and gives it no superblock.
Grown(f) == IF f = Empty THEN Sized ELSE f

\* The bit that allocate_block's scan stops at.
FirstFree(b) == b \in Bit \ bitmap /\ \A c \in Bit \ bitmap : b <= c

MarkAllocated(b) ==
    /\ bitmap' = bitmap \cup {b}
    /\ freeBlocks' = freeBlocks - 1

\* free_block, once it has found the bit set.
MarkFree(b) ==
    /\ bitmap' = bitmap \ {b}
    /\ freeBlocks' = freeBlocks + 1

WriteBitmap ==
    cache' = [cache EXCEPT !.bitmap = bitmap, !.file = Grown(@)]

\* A write that fails part of the way.
WriteBitmapPrefix ==
    \E k \in 0 .. DataBlocks :
        cache' = [cache EXCEPT !.bitmap = {b \in bitmap : b < k}
                                              \cup {b \in @ : b >= k},
                               !.file = IF k = 0 THEN @ ELSE Grown(@)]

----------------------------------------------------------------------------
(* write_block: the nonce, then the ciphertext under it.                   *)

WriteNonce(b) ==
    cache' = [cache EXCEPT !.block[b] = "torn", !.file = Grown(@)]

WriteCiphertext(b, c) ==
    cache' = [cache EXCEPT !.block[b] = c, !.file = Grown(@)]
============================================================================
