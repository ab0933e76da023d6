------------------------------ MODULE DiskWipe ------------------------------
(***************************************************************************)
(* disk_wipe.rs and purge_vault: two passes over the vault file, a         *)
(* truncation, a sync after each, and the end of the process.  purge_vault *)
(* opens the file by its path and takes no VFS mutex, so the volume of the *)
(* process may be open, and another thread may be inside a vault call, all *)
(* the while.  Content is what a block has been given since: ciphertext    *)
(* whose nonce a chunk has overwritten counts as content too.              *)
(***************************************************************************)
EXTENDS Vault

VARIABLES
    wipe,                    \* where purge_vault is, or "off"
    pos,                     \* the pass's next chunk: the superblock, the
                             \* bitmap, then the data blocks
    purged,                  \* the random pass is on the medium, and no vault
                             \* was created since
    rewritten,               \* blocks given content since the random pass
                             \* went over them
    wrote                    \* a vault call wrote since the truncation

wipeVars == <<wipe, pos, purged, rewritten, wrote>>
allVars == <<vars, wipeVars>>

WipeLabel ==
    {"off", "random", "zero", "truncate", "sync_empty", "exit", "quit"}

EndOfFile == DataBlocks + 2

WipeTypeOK ==
    /\ wipe \in WipeLabel /\ pos \in 0 .. EndOfFile
    /\ purged \in BOOLEAN /\ wrote \in BOOLEAN
    /\ rewritten \in SUBSET Bit

WipeInit ==
    /\ Init
    /\ wipe = "off" /\ pos = 0
    /\ purged = FALSE /\ rewritten = {} /\ wrote = FALSE

----------------------------------------------------------------------------
(* The vault, beside a purge or without one.  The host opens no vault while *)
(* it purges one.                                                          *)

Create ==
    /\ wipe = "off" /\ InitCreate
    /\ purged' = FALSE /\ rewritten' = {}
    /\ UNCHANGED <<wipe, pos, wrote>>

Open ==
    /\ wipe = "off" /\ (InitOpen \/ InitRefused)
    /\ UNCHANGED wipeVars

\* Blocks that the step gives content.
Filled == {b \in Bit : cache'.block[b] \notin {"torn", cache.block[b]}}

BesidePurge ==
    /\ VolumeStep
    /\ rewritten' = IF wipe = "off" /\ ~purged THEN {}
                                               ELSE rewritten \cup Filled
    /\ wrote' = (wrote \/ (wipe \in {"sync_empty", "exit"} /\ cache' # cache))
    /\ UNCHANGED <<wipe, pos, purged>>

EndOfPurge == wipe' = "off" /\ pos' = 0 /\ wrote' = FALSE

\* The process that dies takes the purge with it.
Die == Crash /\ EndOfPurge /\ UNCHANGED <<purged, rewritten>>

----------------------------------------------------------------------------
(* purge_vault.                                                            *)

\* No file: 3.
PurgeRefused ==
    /\ wipe = "off" /\ pc = "idle" /\ cache.file = Absent
    /\ UNCHANGED allVars

\* A file of size zero: nothing to do.
PurgeNothing ==
    /\ wipe = "off" /\ pc = "idle" /\ cache.file = Empty
    /\ wipe' = "quit"
    /\ UNCHANGED <<vars, pos, purged, rewritten, wrote>>

\* Whoever purges a vault gives up all that is in it.
PurgeBegin ==
    /\ wipe = "off" /\ pc \notin {"set_len", "superblock", "sync_new"}
    /\ cache.file \in {Sized, Valid}
    /\ wipe' = "random" /\ pos' = 0
    /\ purged' = FALSE /\ rewritten' = {}
    /\ held' = {} /\ erased' = {} /\ seeded' = FALSE
    /\ UNCHANGED <<volVars, vfs, callVars, answer, intact, faults, wrote>>

OverwriteBlocksOnly ==
    \/ pos \in {0, 1} /\ UNCHANGED <<cache, rewritten>>
    \/ /\ pos \in 2 .. EndOfFile - 1
       /\ cache' = [cache EXCEPT !.block[pos - 2] = "torn"]
       /\ rewritten' = IF wipe = "random" THEN rewritten \ {pos - 2}
                                          ELSE rewritten

\* What a pass leaves of a chunk: the file has a superblock no more, the bitmap
\* is random or zero, the block does not authenticate.
Overwrite ==
    \/ /\ pos = 0 /\ cache' = [cache EXCEPT !.file = Sized]
       /\ UNCHANGED rewritten
    \/ /\ pos = 1
       /\ \E m \in IF wipe = "random" THEN SUBSET Bit ELSE {{}} :
              cache' = [cache EXCEPT !.bitmap = m]
       /\ UNCHANGED rewritten
    \/ /\ pos \in 2 .. EndOfFile - 1
       /\ cache' = [cache EXCEPT !.block[pos - 2] = "torn"]
       /\ rewritten' = IF wipe = "random" THEN rewritten \ {pos - 2}
                                          ELSE rewritten

WipeChunk ==
    /\ wipe \in {"random", "zero"} /\ Overwrite
    /\ pos' = pos + 1
    /\ UNCHANGED <<disk, bitmap, freeBlocks, vfs, callVars, hostVars, faults,
                   wipe, purged, wrote>>

SyncRandomSkipped ==
    /\ wipe = "random" /\ pos = EndOfFile
    /\ wipe' = "zero" /\ pos' = 0 /\ purged' = TRUE
    /\ UNCHANGED <<vars, rewritten, wrote>>

SyncRandom ==
    /\ wipe = "random" /\ pos = EndOfFile /\ SyncAll
    /\ wipe' = "zero" /\ pos' = 0 /\ purged' = TRUE
    /\ UNCHANGED <<cache, bitmap, freeBlocks, vfs, callVars, hostVars, faults,
                   rewritten, wrote>>

SyncZero ==
    /\ wipe = "zero" /\ pos = EndOfFile /\ SyncAll
    /\ wipe' = "truncate" /\ pos' = 0
    /\ UNCHANGED <<cache, bitmap, freeBlocks, vfs, callVars, hostVars, faults,
                   purged, rewritten, wrote>>

Truncate ==
    /\ wipe = "truncate" /\ cache' = Blank(Empty)
    /\ wipe' = "sync_empty"
    /\ UNCHANGED <<disk, bitmap, freeBlocks, vfs, callVars, hostVars, faults,
                   pos, purged, rewritten, wrote>>

SyncEmptySkipped ==
    /\ wipe = "sync_empty"
    /\ wipe' = "exit"
    /\ UNCHANGED <<vars, pos, purged, rewritten, wrote>>

SyncEmpty ==
    /\ wipe = "sync_empty" /\ SyncAll
    /\ wipe' = "exit"
    /\ UNCHANGED <<cache, bitmap, freeBlocks, vfs, callVars, hostVars, faults,
                   pos, purged, rewritten, wrote>>

\* An I/O error ends the purge where it is: 3.
PurgeFails ==
    /\ Fault /\ EndOfPurge
    /\ \/ /\ wipe \in {"random", "zero", "truncate"}
          /\ UNCHANGED <<cache, disk, rewritten>>
       \/ wipe \in {"random", "zero"} /\ Overwrite /\ UNCHANGED disk
       \/ /\ wipe \in {"random", "zero"} /\ pos = EndOfFile
          /\ disk' \in Survivors /\ UNCHANGED <<cache, rewritten>>
       \/ /\ wipe = "sync_empty"
          /\ disk' \in Survivors /\ UNCHANGED <<cache, rewritten>>
    /\ UNCHANGED <<bitmap, freeBlocks, vfs, callVars, hostVars, purged>>

\* execute_panic_exit.
PanicExit ==
    /\ wipe \in {"exit", "quit"} /\ ProcessEnds /\ EndOfPurge
    /\ UNCHANGED <<cache, disk, faults, purged, rewritten>>

WipeNext ==
    \/ Create \/ Open \/ BesidePurge \/ Die
    \/ PurgeRefused \/ PurgeNothing \/ PurgeBegin \/ WipeChunk \/ SyncRandom
    \/ SyncZero \/ Truncate \/ SyncEmpty \/ PurgeFails \/ PanicExit

WipeSpec == WipeInit /\ [][WipeNext]_allVars

----------------------------------------------------------------------------
(* Properties.                                                             *)

\* What a run tells apart: not what the host knows of the blocks, which no
\* guard reads unless the host is Careful and no property below mentions.
WipeView == <<volVars, vfs, callVars, faults, wipeVars>>

\* Once the random pass is synced, nothing the vault held before the purge is
\* on the medium or comes back, and the file does not open, whatever crashes,
\* fails or is written at the same time, until a new vault is created
\* (disk_wipe.rs:66-81).
PurgedForGood ==
    purged => /\ disk.file # Valid
              /\ \A b \in Bit \ rewritten : disk.block[b] = "torn"

\* A purge that comes to its end leaves a zero-byte file, which the next
\* init_virtual_volume replaces by a new vault (disk_wipe.rs:98-99,
\* virtual_volume.rs:185-189), unless a vault call of another thread wrote
\* between the truncation and the end of the process.
PurgeLeavesStub ==
    wipe = "exit" /\ ~wrote => cache = Blank(Empty) /\ disk = Blank(Empty)

\* Why they hold.
WipeInv ==
    /\ WipeTypeOK
    /\ wipe \notin {"off", "quit"} \/ purged
           => pc \notin {"set_len", "superblock", "sync_new"}
    /\ wipe \in {"random", "zero"} /\ pos > 0 => cache.file # Valid
    /\ wipe = "random" =>
           \A b \in Bit \ rewritten : b + 2 < pos => cache.block[b] = "torn"
    /\ wipe = "random" => ~purged
    /\ wipe \in {"zero", "truncate", "sync_empty", "exit"} => purged
    /\ purged => /\ cache.file # Valid /\ disk.file # Valid
                 /\ \A b \in Bit \ rewritten :
                        cache.block[b] = "torn" /\ disk.block[b] = "torn"
    /\ wipe = "sync_empty" /\ ~wrote => cache = Blank(Empty)
    /\ wipe = "exit" /\ ~wrote => cache = Blank(Empty) /\ disk = Blank(Empty)
============================================================================
