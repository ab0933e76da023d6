------------------------------- MODULE Vault -------------------------------
(***************************************************************************)
(* lib.rs: the vault calls of the host, over VirtualVolume.  Every call on *)
(* the open volume holds the VFS mutex from begin to end, so one is inside *)
(* the volume at a time; an I/O error may end it, and a crash may cut it   *)
(* off, at each write.  init_virtual_volume takes no lock: the host is     *)
(* assumed to open its vault from one thread.                              *)
(***************************************************************************)
EXTENDS VirtualVolume

CONSTANTS
    Stamp,                   \* block of the ID stamp (994)
    LastCanary,              \* canaries are Stamp + 1 .. LastCanary (995-999)
    MaxFaults,               \* bound: I/O errors and crashes in a behaviour
    Careful                  \* the host allocates only after init_canary_slots
                             \* and gives up only blocks it holds

ASSUME VaultAssumption ==
    /\ Stamp \in Nat /\ LastCanary \in Nat
    /\ Stamp < LastCanary /\ LastCanary < DataBlocks
    /\ MaxFaults \in Nat
    /\ Careful \in BOOLEAN

VARIABLES
    vfs,                     \* VFS is set
    pc,                      \* where the call is, or "idle"
    call, blk,               \* the call, and the block it is about
    answer,                  \* what allocate_vault_block answered last: {b},
                             \* or {} for u64::MAX
    held,                    \* blocks handed out and not given up
    erased,                  \* blocks secure_erase_block answered 0 for
    seeded,                  \* init_canary_slots answered 0
    intact,                  \* CANARY_INTACT
    faults                   \* I/O errors and crashes so far

callVars == <<pc, call, blk>>
canaryVars == <<seeded, intact>>
hostVars == <<answer, held, erased, canaryVars>>
vars == <<volVars, vfs, callVars, hostVars, faults>>

Canary == Stamp + 1 .. LastCanary
Reserved == Stamp .. LastCanary

Label == {"idle", "set_len", "superblock", "sync_new", "reserve", "nonce",
          "cipher", "bitmap", "sync"}
CallName == {"none", "alloc", "free", "write", "erase", "canary"}

TypeOK ==
    /\ VolumeTypeOK
    /\ vfs \in BOOLEAN /\ seeded \in BOOLEAN /\ faults \in Nat
    /\ pc \in Label /\ call \in CallName /\ blk \in Nat
    /\ answer \in SUBSET Bit /\ held \in SUBSET Bit /\ erased \in SUBSET Bit
    /\ intact \in BOOLEAN

Init ==
    /\ InitVolume
    /\ vfs = FALSE /\ pc = "idle" /\ call = "none" /\ blk = 0
    /\ answer = {} /\ held = {} /\ erased = {} /\ faults = 0
    /\ seeded = FALSE /\ intact = FALSE

Goto(l, c, b) == pc' = l /\ call' = c /\ blk' = b
Return == Goto("idle", "none", 0)
Enter == vfs /\ pc = "idle"
Fault == faults < MaxFaults /\ faults' = faults + 1

----------------------------------------------------------------------------
(* init_virtual_volume.                                                    *)

InitCreate ==
    /\ ~vfs /\ pc = "idle"
    /\ CreateFile /\ seeded' = FALSE
    /\ Goto("set_len", "none", 0)
    /\ UNCHANGED <<bitmap, freeBlocks, vfs, answer, held, erased, intact,
                   faults>>

InitSetLen ==
    /\ pc = "set_len" /\ SetLen
    /\ Goto("superblock", "none", 0)
    /\ UNCHANGED <<disk, bitmap, freeBlocks, vfs, hostVars, faults>>

InitSuperblock ==
    /\ pc = "superblock" /\ WriteSuperblock
    /\ Goto("sync_new", "none", 0)
    /\ UNCHANGED <<disk, bitmap, freeBlocks, vfs, hostVars, faults>>

InitSync ==
    /\ pc = "sync_new" /\ SyncAll
    /\ Load(cache) /\ vfs' = TRUE
    /\ Return
    /\ UNCHANGED <<cache, hostVars, faults>>

\* An I/O error while creating: the file stays as far as it has come.
InitFails ==
    /\ Fault
    /\ pc \in {"set_len", "superblock", "sync_new"}
    /\ disk' \in IF pc = "sync_new" THEN Survivors ELSE {disk}
    /\ Return
    /\ UNCHANGED <<cache, bitmap, freeBlocks, vfs, hostVars>>

InitOpen ==
    /\ ~vfs /\ pc = "idle" /\ cache.file = Valid
    /\ Load(cache) /\ vfs' = TRUE
    /\ UNCHANGED <<cache, disk, callVars, hostVars, faults>>

\* No superblock, or another master key: 3.
InitRefused ==
    /\ ~vfs /\ pc = "idle" /\ cache.file \in {Sized, Valid}
    /\ UNCHANGED vars

\* VFS is set already: the new volume is dropped, and Drop syncs the file.  The
\* host is assumed not to open again a file that a failed purge left empty,
\* which would be created anew beside the open one.
InitAgain ==
    /\ vfs /\ cache.file = Valid /\ SyncAll
    /\ UNCHANGED <<cache, bitmap, freeBlocks, vfs, callVars, hostVars, faults>>

----------------------------------------------------------------------------
(* The calls.                                                              *)

AllocateBlock(b) ==
    /\ Enter /\ (Careful => seeded)
    /\ freeBlocks # 0 /\ FirstFree(b)
    /\ MarkAllocated(b) /\ answer' = {}
    /\ Goto("bitmap", "alloc", b)
    /\ UNCHANGED <<cache, disk, vfs, held, erased, canaryVars, faults>>

\* Storage full: u64::MAX.
AllocateFull ==
    /\ Enter /\ (Careful => seeded)
    /\ freeBlocks = 0 /\ answer' = {}
    /\ UNCHANGED <<volVars, vfs, callVars, held, erased, canaryVars, faults>>

\* The holder has given the block up whatever free_vault_block answers.
FreeBlock(b) ==
    /\ Enter /\ b \in bitmap /\ (Careful => b \in held)
    /\ MarkFree(b) /\ held' = held \ {b}
    /\ Goto("bitmap", "free", b)
    /\ UNCHANGED <<cache, disk, vfs, answer, erased, canaryVars, faults>>

\* write_vault_blocks and the ID stamp, a block at a time; secure_erase_block.
WriteBlock(b, c) ==
    /\ Enter /\ c \in {"write", "erase"} /\ (Careful => b \in held)
    /\ Goto("nonce", c, b)
    /\ UNCHANGED <<volVars, vfs, hostVars, faults>>

InitCanarySlots ==
    /\ Enter
    /\ Goto("reserve", "canary", Stamp)
    /\ UNCHANGED <<volVars, vfs, hostVars, faults>>

\* validate_canary_slots: 0 if every canary reads as seeded, 2 if not; nothing
\* clears CANARY_INTACT again.
CanaryReads(b) == cache.block[b] = "canary"

ValidateCanarySlots ==
    /\ Enter
    /\ intact' = (intact \/ \A b \in Canary : CanaryReads(b))
    /\ UNCHANGED <<volVars, vfs, callVars, answer, held, erased, seeded,
                   faults>>

----------------------------------------------------------------------------
(* Inside a call.                                                          *)

\* reserve_block: a set bit needs nothing.
ReserveSkips ==
    /\ pc = "reserve" /\ blk \in Reserved \cap bitmap
    /\ Goto("reserve", call, blk + 1)
    /\ UNCHANGED <<volVars, vfs, hostVars, faults>>

ReserveBlock ==
    /\ pc = "reserve" /\ blk \in Reserved \ bitmap
    /\ MarkAllocated(blk)
    /\ Goto("bitmap", call, blk)
    /\ UNCHANGED <<cache, disk, vfs, hostVars, faults>>

ReserveDone ==
    /\ pc = "reserve" /\ blk \notin Reserved
    /\ Goto("nonce", call, Stamp + 1)
    /\ UNCHANGED <<volVars, vfs, hostVars, faults>>

\* What is known of the block's content no longer holds.
Touched == erased' = erased \ {blk}

Nonce ==
    /\ pc = "nonce"
    /\ WriteNonce(blk) /\ Touched
    /\ Goto("cipher", call, blk)
    /\ UNCHANGED <<disk, bitmap, freeBlocks, vfs, answer, held, seeded,
                   intact, faults>>

Payload == CASE call = "write" -> "data"
             [] call = "erase" -> "noise"
             [] call = "canary" -> "canary"
             [] OTHER -> "torn"

WriteDone ==
    /\ pc = "cipher" /\ call = "write"
    /\ WriteCiphertext(blk, Payload)
    /\ Return
    /\ UNCHANGED <<disk, bitmap, freeBlocks, vfs, hostVars, faults>>

EraseFreesOnly ==
    /\ pc = "cipher" /\ call = "erase"
    /\ IF blk \in bitmap
         THEN /\ MarkFree(blk) /\ held' = held \ {blk}
              /\ Goto("bitmap", call, blk)
         ELSE Return /\ UNCHANGED <<bitmap, freeBlocks, held>>
    /\ UNCHANGED <<cache, disk, vfs, answer, erased, canaryVars, faults>>

\* secure_erase_block goes on to free the block, if it was allocated.
EraseDone ==
    /\ pc = "cipher" /\ call = "erase"
    /\ WriteCiphertext(blk, Payload)
    /\ IF blk \in bitmap
         THEN /\ MarkFree(blk) /\ held' = held \ {blk}
              /\ Goto("bitmap", call, blk)
         ELSE Return /\ UNCHANGED <<bitmap, freeBlocks, held>>
    /\ UNCHANGED <<disk, vfs, answer, erased, canaryVars, faults>>

CanaryDone ==
    /\ pc = "cipher" /\ call = "canary"
    /\ WriteCiphertext(blk, Payload)
    /\ IF blk = LastCanary
         THEN Return /\ seeded' = TRUE
         ELSE Goto("nonce", call, blk + 1) /\ UNCHANGED seeded
    /\ UNCHANGED <<disk, bitmap, freeBlocks, vfs, answer, held, erased,
                   intact, faults>>

Bitmap ==
    /\ pc = "bitmap" /\ WriteBitmap
    /\ Goto("sync", call, blk)
    /\ UNCHANGED <<disk, bitmap, freeBlocks, vfs, hostVars, faults>>

\* After write_bitmap: init_canary_slots reserves the next block, whatever
\* reserve_block answered; the other calls return.
Resume ==
    IF call = "canary" THEN Goto("reserve", call, blk + 1) ELSE Return

SyncSkipped ==
    /\ pc = "sync" /\ Resume
    /\ IF call = "alloc" THEN answer' = {blk} /\ held' = held \cup {blk}
                         ELSE UNCHANGED <<answer, held>>
    /\ erased' = IF call = "erase" THEN erased \cup {blk} ELSE erased
    /\ UNCHANGED <<volVars, vfs, seeded, intact, faults>>

Sync ==
    /\ pc = "sync" /\ SyncAll /\ Resume
    /\ IF call = "alloc" THEN answer' = {blk} /\ held' = held \cup {blk}
                         ELSE UNCHANGED <<answer, held>>
    /\ erased' = IF call = "erase" THEN erased \cup {blk} ELSE erased
    /\ UNCHANGED <<cache, bitmap, freeBlocks, vfs, seeded, intact, faults>>

\* An I/O error in write_block.
BlockFails ==
    /\ Fault
    /\ \/ pc = "nonce" /\ UNCHANGED <<cache, erased>>
       \/ pc = "nonce" /\ WriteNonce(blk) /\ Touched
       \/ pc = "cipher" /\ UNCHANGED <<cache, erased>>
       \/ pc = "cipher" /\ WriteCiphertext(blk, Payload) /\ UNCHANGED erased
    /\ Return
    /\ UNCHANGED <<disk, bitmap, freeBlocks, vfs, answer, held, seeded, intact>>

\* An I/O error in write_bitmap: the bitmap in memory keeps the change.
BitmapFails ==
    /\ Fault
    /\ \/ pc = "bitmap" /\ WriteBitmapPrefix /\ UNCHANGED disk
       \/ pc = "sync" /\ disk' \in Survivors /\ UNCHANGED cache
    /\ Resume
    /\ UNCHANGED <<bitmap, freeBlocks, vfs, hostVars>>

----------------------------------------------------------------------------
(* The process ends: the file stays as the operating system has it, or,    *)
(* when the power goes, as the medium has it.                              *)

ProcessEnds ==
    /\ vfs' = FALSE /\ bitmap' = {} /\ freeBlocks' = 0
    /\ Return /\ answer' = {} /\ intact' = FALSE
    /\ UNCHANGED <<held, erased, seeded>>

Crash ==
    /\ Fault
    /\ \/ UNCHANGED <<cache, disk>>
       \/ \E img \in Survivors : cache' = img /\ disk' = img
    /\ ProcessEnds

\* Whatever the open volume, or the one being created, is asked to do.
VolumeStep ==
    \/ InitSetLen \/ InitSuperblock \/ InitSync \/ InitFails \/ InitAgain
    \/ \E b \in Bit : AllocateBlock(b) \/ FreeBlock(b)
    \/ \E b \in Bit, c \in {"write", "erase"} : WriteBlock(b, c)
    \/ AllocateFull \/ InitCanarySlots \/ ValidateCanarySlots
    \/ ReserveSkips \/ ReserveBlock \/ ReserveDone
    \/ Nonce \/ WriteDone \/ EraseDone \/ CanaryDone \/ BlockFails
    \/ Bitmap \/ Sync \/ BitmapFails

Next == InitCreate \/ InitOpen \/ InitRefused \/ VolumeStep \/ Crash

Spec == Init /\ [][Next]_vars

----------------------------------------------------------------------------
(* Properties.                                                             *)

\* A block that allocate_vault_block has handed out, and that nobody has given
\* up, is allocated on the medium, in a vault that opens: no crash loses it
\* (virtual_volume.rs:443-446 writes and syncs the bitmap before it answers).
HeldIsDurable ==
    \A b \in held : disk.file = Valid /\ b \in disk.bitmap

\* Why it holds, with what the other properties need: the call in progress
\* and the three copies of the bitmap (memory, cache, disk) of a held block.
InCall == pc \in {"reserve", "nonce", "cipher", "bitmap", "sync"}

Creating ==
    \/ pc = "set_len" /\ cache.file = Empty
    \/ pc = "superblock" /\ cache.file = Sized
    \/ pc = "sync_new" /\ cache.file = Valid

CallInv ==
    /\ disk.file <= cache.file
    /\ vfs => cache.file = Valid
    /\ InCall => vfs
    /\ pc # "idle" /\ ~InCall
           => Creating /\ ~vfs /\ held = {} /\ erased = {}
    /\ InCall /\ pc # "reserve" => blk \in Bit
    /\ pc = "reserve" => call = "canary" /\ blk \in Stamp .. LastCanary + 1
    /\ pc \in {"bitmap", "sync"} /\ call = "canary" => blk \in Reserved
    /\ pc \in {"nonce", "cipher"} /\ call = "canary" => blk \in Canary

HeldInv ==
    /\ \A b \in held : /\ disk.file = Valid
                       /\ b \in disk.bitmap \cap cache.bitmap
                       /\ vfs => b \in bitmap
    /\ pc \in {"bitmap", "sync"} /\ call = "alloc" => blk \in bitmap \ held
    /\ pc = "sync" => cache.bitmap = bitmap

ErasedInv ==
    /\ \A b \in erased : /\ disk.file = Valid
                         /\ disk.block[b] = "noise" /\ cache.block[b] = "noise"
    /\ pc \in {"bitmap", "sync"} /\ call = "erase" => cache.block[blk] = "noise"
    /\ pc = "cipher" => blk \notin erased

\* Whatever fails or crashes, allocate_vault_block never answers with a block
\* that somebody holds (virtual_volume.rs:422-454).
Store == INSTANCE BlockStore WITH Block <- Bit, held <- held, answer <- answer

OneHolderPerBlock == Store!Spec

\* free_blocks is the number of zero bits, through I/O errors and reopening;
\* so allocate_block's "bitmap inconsistency" error is unreachable
\* (virtual_volume.rs:450-453).
FreeCount == vfs => freeBlocks = Cardinality(Bit \ bitmap)

VaultInv == TypeOK /\ CallInv /\ HeldInv /\ ErasedInv /\ FreeCount

\* Once secure_erase_block has answered 0, the medium holds noise in the block
\* until it is written again: no crash brings the old content back
\* (lib.rs:121-128; the sync is the one of the bitmap).
ErasedForGood == \A b \in erased : disk.block[b] = "noise"

\* Once init_canary_slots has answered 0, blocks 994-999 are not handed out
\* (lib.rs:149, "so allocator never hands them out").
ReservedNeverHandedOut == seeded => held \cap Reserved = {}
============================================================================
