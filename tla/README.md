# LinkChat SecureCore: a TLA+ model

This directory specifies `src/secure_core`, the Rust core that a chat
application links against and calls through `extern "C"` functions. The
specifications are checked with TLC on small instances, and the results that
matter most are proved with TLAPS for every value of the constants.

## The system

| Part | Source | What it holds | Modelled by |
|---|---|---|---|
| Root state | `root_state.rs` | `RootState_curr`, `RootState_pend`, `EpochID`, each behind a mutex | `RootState` |
| Evolution | `evolution.rs` | ML-KEM exchange that makes a new pending root | `Evolution` |
| Message cipher | `message_cipher.rs` | sequence counter, message keys, decryption with auto-commit | `MessageCipher` |
| Anti-DoS | `anti_dos.rs` | `recover_after_loss`: roll forward to a header's epoch | `AntiDos` |
| FFI bridge | `lib.rs` | the host's calls, from any thread | `Ffi`, `Session`, `Vault` |
| Pairing | `init_module.rs` | first root, Bob's key, ID stamp | `InitModule`; what it leaves is `Init` of `Session` |
| Virtual volume | `virtual_volume.rs` | the vault file: superblock, bitmap, encrypted blocks | `VirtualVolume` |
| Vault calls, canaries | `lib.rs:40-160` | one open volume behind a mutex | `Vault` |
| Disk wipe | `disk_wipe.rs`, `lib.rs:162-171` | two overwrite passes, truncation, end of the process | `DiskWipe` |
| Constant flow | `constant_flow.rs` | sender thread with a one-slot queue | `ConstantFlow` |
| Clock align | `clock_align.rs` | ring buffer and median of counter differences | `ClockAlign` |
| Tail padding | `tail_padding.rs` | pad and strip | `TailPadding` |
| Locks | all of the above | the order in which the calls take the process's mutexes | `Locks` |
| Memory protection | `memory_protection.rs` | zeroing buffers, panic exit | the exit in `DiskWipe` |

Two groups of parts interact through their state. In the *session* group, two
devices each hold a root key and an epoch; evolutions, rolls and auto-commits move a device to the
next epoch, and messages sealed under one root open only under the same root.
The *vault* group is one file with an allocator, written through the operating
system's cache; the purge works on the same file. The groups share no state
(the ID stamp is a block like any other to the vault). The remaining parts
stand alone, but for the locks: the sender of the constant flow runs the host's
callback under a lock, and the callback may call back into the library.

## The session: modules, state and actions

`RootState <- Ffi <- Evolution, MessageCipher, AntiDos <- Session <- MCSession`
(each extends the ones to its left).

Every variable is a function of the device (`Peer`) or of the host thread
(`Thread`). A mutex-protected global is a variable of the same name; an
`Option` is a set with at most one element. A root key is the list of its
derivation steps from `RootState_init`: an epoch roll is the step `0`, a KEM
secret a positive number, and a decapsulation with the wrong secret key a
negative number. HKDF, AES-GCM and ML-KEM are thus ideal: distinct derivations
give distinct keys, and a message opens exactly under the key it was sealed
with. A message key is its root, its epoch and its number and nothing else
(`derive_message_key`): who sent the message is not part of it.

The library has no threads of its own here; the host's threads do its work. A
step is what one thread does from taking its locks to releasing them, and
`pc[t]` says between which two critical sections of which call thread `t` is.
`frame[t]` holds the values the call has copied out of the globals. The one
mutex held across several critical sections, the public key's in
`start_evolution` and `set_peer_public_key`, is a variable (`pkLock`).

| Call | Steps |
|---|---|
| `generate_bob_keypair` | `GenerateBobKeypair` |
| `set_peer_public_key` | `SetPeerPublicKey`, `SetPeerPkHash` |
| `start_evolution` | `StartEvolution` (copy the root), `StartRefused` or `StartEncapsulate`, `StartSetPend`, `StartSetCipher` |
| `get_kem_cipher` | `GetKemCipher` (the host puts the ciphertext on the wire) |
| `apply_peer_kem` | `ReceiveKem`, `ApplyRefused` or `ApplyPeerKem`, `ApplyReadCurr`, `ApplySetPend` |
| `commit_evolution` | `CommitEvolution` |
| `msg_counter_next`, `get_epoch_id`, `derive_message_key` and `encrypt_message` | `SendNextSeq`, `SendReadEpoch`, `SendEncrypt` |
| `decrypt_with_auto_commit` | `DecryptReadCurr`, `DecryptOpened`, `DecryptSlowPath`, `DecryptOpenedByPend` or `DecryptFails`, `DecryptCommit` |
| `recover_after_loss` | `RecoverDeclined` or `RecoverAfterLoss`, then one `RollUntilTarget` per epoch |

The relay is hostile to order: `wire` and `kemWire` are sets from which a
message may be taken any number of times, in any order, or never.

The library leaves the calling discipline to the host, so it is a parameter.
`Owner` says which device a thread runs on and `Calls` which calls it makes.
`SettledStart` makes the host wait for an evolution to settle before it starts
the next, and `DedupKem` makes it apply a KEM ciphertext only once.

## The vault: modules, state and actions

`VirtualVolume <- Vault <- DiskWipe`, and `BlockStore`, the abstract allocator.

The file exists twice, as programs see it (`cache`) and as the medium holds it
(`disk`). `sync_all` makes the two equal. A power loss leaves, of every
unsynced write, all, nothing or (in a data block) a part; a killed process
leaves the cache. `bitmap` and `freeBlocks` are the fields of the open
`VirtualVolume`. The content of a block is what `read_block` would find in it:
host data, noise, a canary, or something that does not authenticate.

Every vault call holds the `VFS` mutex to its end, so one call is inside at a
time. It is split at every write to the file, because an error may end it and
a crash cut it off at each of them: `Nonce` and then the ciphertext
(`WriteDone`, `EraseDone`, `CanaryDone`), `Bitmap` and then `Sync`.
`BlockFails`, `BitmapFails` and `InitFails` are the error paths; after a failed
`write_bitmap` the bitmap in memory keeps the change, as in the code.
`init_canary_slots` drops the answer of `reserve_block`, and so goes on after
such an error. `InitAgain` is an `init_virtual_volume` while one is open: the
new volume is dropped and its `Drop` syncs the file, whatever the other thread
is doing.

`held` are the blocks the host was given and has not given up, `erased` those
`secure_erase_block` has answered 0 for. `answer` is what
`allocate_vault_block` answered last, `{}` standing for `u64::MAX`; it is
cleared when an allocation starts and by a crash. `BlockStore` has `held` and
`answer` only: it answers with a block nobody holds, refuses, or takes a block
back. `answer` is there because `held` alone cannot tell a second hand-out of
a held block from a step that does nothing. `Store` in `Vault` instantiates it.

`validate_canary_slots` reads the canaries and sets `CANARY_INTACT`
(`intact`), which nothing clears.

`init_virtual_volume` itself takes no lock; the host is assumed to open its
vault from one thread, and not to open again a file that a failed purge left
empty while the old volume is still open. A new file is on the medium, its
directory entry included, from its first `sync_all` on; until then a power loss
may leave the old state.

`DiskWipe` is the vault with a purge beside it. `purge_vault` opens the file by
its path and takes no `VFS` mutex, so each chunk of a pass, each sync and the
truncation interleaves with the steps of a vault call in another thread
(`BesidePurge`), with I/O errors (`PurgeFails`) and with crashes (`Die`). A
chunk is the superblock, the bitmap or one data block. A write of the open
volume into the truncated file makes it longer without giving it a superblock
(`Grown`). `rewritten` are the blocks that were given content after the random
pass went over them, and `wrote` says that a vault call changed the file after
the truncation; the properties make exceptions for these, because nothing in
the code keeps such writes out. `PanicExit` is `execute_panic_exit`. The host is
assumed to open no vault while it purges one.

`Careful` restricts the host to seeding the canaries before it allocates and
to writing and giving up only what it holds. With `Careful = FALSE` it may
call anything at any time.

## The other parts

**`ConstantFlow`.** `running`, `callback` and `slot` are `RUNNING`, the callback
and the one-slot queue. Host threads start and stop the engine, a step per
atomic access or critical section; a sender checks the flag, sleeps, checks
again, takes the slot, and calls the callback with the callback's lock held
(`Fire` to `CallbackReturns`). If `OsRng` fails while the queue is locked the
sender unwinds, the queue is poisoned, and `catch_unwind` clears the flag and
the callback; `stop_constant_flow` then unwraps a poisoned lock in an
`extern "C"` function, which aborts the process (`StopAborts`). A packet is the
number of its message or `Noise`. `Patient` makes the host call start and stop
one at a time, and start again only when the last sender has ended. The library
gives the host no way to wait for that. A start between the last two lines of a
sender that unwinds (`constant_flow.rs:94` and `:95`, the flag and then the
callback) would lose the new callback; `Patient` excludes it. Nothing exported
calls `queue_real_message`: `QueueRealMessage` is its contract for a caller in
the crate.

**`ClockAlign`.** The ring buffer, its median and the estimate, with counters
and differences modulo `2 * HalfRange` that wrap where the code's would in a
build without overflow checks; a debug build panics there instead. The sort is
what `sort_unstable` promises: some ascending arrangement of the entries.
`observed` keeps the true differences, against which the estimate is judged.
No call of the crate feeds `record_counter_observation` yet.

**`TailPadding`.** Padding and stripping on sequences of digits to a base.
`Arrive` is a frame that nobody padded.

**`InitModule`.** Threads of one host pair and make ID stamps, again and again
and at the same time; a step is one critical section. `initialise_root_state`
stores the key (`InitialiseRootState`), then the root (`SetRootStateCurr`), then
the epoch (`SetEpochId`); `generate_id_stamp_from_curr` reads the root
(`GenerateIdStamp`), then the key (`ReadBobPk`), and writes block 994
(`PersistIdStamp`, `PersistFails`). No step has a guard beyond the code's: a
stamp may be made before any pairing, after a restart, and in any epoch. The
key and the root carry the number of the pairing they came with, and `given`
keeps what each pairing was given. A root is the bytes it was made of and a
stamp the root and the key: the hashes are ideal. `EpochChanges` stands for all
of the session's ways to a new root, in one step and once per pairing.

**`Locks`.** A call is the list of its lock acquisitions, each with the locks
it holds at that time; what is done under them is in the other modules. An
`Engine` thread holds the callback's lock while the callback makes a call of
its own. The callback does not start or stop the engine: both wait for the
lock its own thread holds.

`MCProcess` puts one instance of each of these five into one run, and beside
them a session in which three threads of one device start evolutions, replace
the peer's key and commit. They share no state, and a behaviour is a behaviour
of one of them. `MCPairing` has the entropy streams of the pairing.

## What TLC checks

All runs pass except those named `v_...`, in which TLC finds the property
violated; each of these stands for a disagreement between the code and one of
its comments.

| Run | Question | Distinct states |
|---|---|---|
| `pair` | One thread per device, lossy relay, evolutions started again, rolls, new key pairs: do the devices agree? | 725,000 |
| `settled` | Two decrypting threads, one evolution at a time: is a device at most one epoch behind, does it catch up? | 20,000 |
| `vault` | Any calls, three faults: are blocks handed out once and for good, is erased content gone? | 2,337,000 |
| `wipe` | A purge beside vault calls, one fault: does anything come back? | 3,259,000 |
| `process` | Three threads that start and commit evolutions and replace the key; constant flow with two hosts and three senders; clock; padding; two threads that pair; locks of two threads | 93,000 |
| `v_key_repeats` | Sending while another thread rolls | violated |
| `v_recover_diverges` | Recovering over an evolution | violated |
| `v_restart_never_converges` | Starting an evolution again after the peer applied the first | violated |
| `v_spurious_none` | Two threads decrypt the first messages of an epoch | violated |
| `v_vault_reserved` | A reservation fails, then the process restarts | violated |
| `v_two_senders` | Starting the noise engine again right after stopping it | violated |
| `v_stamp_root` | Making an ID stamp after the epoch has changed | violated |

### Properties

Session (`Session.tla`):

- `Agreement`: two devices in the same epoch hold the same root.
- `NeverAheadInv`: why `Agreement` holds (see the proofs).
- `InStep`: a device is at most one epoch behind, and then has pending what its
  peer has committed.
- `InStepInv`: why `InStep` holds (see the proofs).
- `KeysNeverRepeat`: no two messages, of one device or of two, share root,
  epoch and number. Checked by `v_key_repeats`, proved under a discipline.
- `CipherMatchesPend`, `CipherInv`: while no call holds the public key's mutex,
  the ciphertext handed out carries the secret of the pending root.
- `PkLockInv`: one thread at a time is inside the public key's mutex, and key
  and hash differ only while `set_peer_public_key` is between its two writes.
- `FreshRoot`: a new epoch has a new root.
- `NoneOnlyIfBothKeysFail`: decryption answers `None` only if neither root of
  the device opens the message.
- `AutoCommitLandsOnSender`: an auto-commit leaves the device on the sender's
  root and epoch.
- `RecoverLandsOnTarget`: a recovery ends in its target epoch.
- `Converges`: an epoch that Bob has committed is reached by the other device.

Vault (`Vault.tla`):

- `HeldIsDurable`: a block handed out is allocated on the medium.
- `FreeCount`: `free_blocks` is the number of zero bits.
- `ErasedForGood`: no crash brings erased content back.
- `OneHolderPerBlock`: the vault implements `BlockStore`, so no answer of the
  allocator is a block that somebody holds, across errors and restarts.
- `VaultInv`: why these hold (see the proofs).
- `ReservedNeverHandedOut`: blocks 994-999 are not handed out once seeded.

Purge (`DiskWipe.tla`):

- `PurgedForGood`: once the random pass is synced, no block comes back and the
  file does not open, whatever crashes, fails or is written beside it.
- `PurgeLeavesStub`: a purge that completes leaves a zero-byte file.
- `WipeInv`: why these hold.

Constant flow (`ConstantFlow.tla`):

- `SentInOrder`: no message is sent twice or after a younger one.
- `OneSender`: no two senders at a time; violated in `v_two_senders`.
- `RunningIsHeard`: with no call in progress, `RUNNING` means a sender and a
  callback.
- `SilentAfterStop`: no sender is inside a callback that was taken away.
- `FlowInv`: why these hold.
- `QueuedIsSent`: a message queued while the engine runs is sent, replaced by a
  younger one, or given up with the engine.
- `StopSettles`: `stop_constant_flow` returns and the sender ends.

The others:

- `SkewIsMedian`: the estimate is the median of the last true differences,
  stated with ranks instead of sorting.
- `StripInverts`: stripping finds the payload and refuses exactly what no
  padding yields.
- `StampKeyNotStale`: a stamp never binds a root to the key of an earlier
  pairing, however pairings and stamps of two threads overlap.
- `StampIsOfPairing`: a stamp is made of the initial root and the key of one
  pairing; violated in `v_stamp_root`.
- `NoCircularWait`: no set of threads in which each waits for another.

### What the violated runs show

- `v_key_repeats`: `msg_counter_next` and `derive_message_key` are two calls. A
  number drawn before an epoch ends is used in the next one, where the reset
  counter hands it out again. `message_cipher.rs:4` says "per-epoch, never
  repeats". It takes one device.
- `v_recover_diverges`: `recover_after_loss` derives every skipped epoch with
  the roll's salt, also those the peer entered by an evolution. The device then
  shows the peer's epoch with another root.
- `v_restart_never_converges`: `start_evolution` overwrites a pending root
  whose ciphertext the peer may have applied. When the peer commits, the
  device can no longer follow. `README.md:23` says both peers converge.
- `v_spurious_none`: `RootState_curr` and `EpochID` are read in two critical
  sections. After an auto-commit of another thread between them, a message that
  the new root opens is answered with `None`.
- `v_vault_reserved`: `lib.rs:150` drops the error of `reserve_block`, and the
  reservation is lost with the process.
- `v_two_senders`: a sender that sleeps through a stop and a start finds
  `RUNNING` set and goes on beside the new one, already with one host thread.
  (With two, the test and the set of the flag also let both start.)
  `constant_flow.rs:61` says "Prevent multiple concurrent threads".
- `v_stamp_root`: `generate_id_stamp_from_curr` hashes the root of the moment.
  After an epoch change this is no longer the root of the pairing, although
  `init_module.rs:12` says "SHA-256(prefix || RootState_init || bob_pk)". Two
  overlapping pairings can also leave the key of one and the root of the other.

Three more properties of the session hold only while one thread of a host
evolves and receives. With several, a restarted evolution may replace the
pending root between the decryption with it and the commit
(`AutoCommitLandsOnSender`); two recoveries each roll the gap they computed
(`RecoverLandsOnTarget`); and two `apply_peer_kem` calls around a commit make
the committed root pending again (`FreshRoot`).

Some results rest on the host in a way that the code does not say, or differ
from what a comment suggests:

- Alice's and Bob's messages of one epoch with the same number are sealed under
  the same key: the direction is in the associated data only
  (`message_cipher.rs:138`), while `message_cipher.rs:14` says "msg_seq is
  globally unique per epoch". `KeysNeverRepeatHolds` therefore has to ask that
  only one of the devices sends.
- `set_peer_public_key` replaces the key and its hash together, under the key's
  mutex. The comparison in `start_evolution` (`evolution.rs:106`) therefore
  never fails, and code 5 does not tell a replaced key from the first one,
  although `evolution.rs:76` says "set once at init, verified on every
  evolution".
- A canary that `init_canary_slots` has answered for is not synced by it. After
  a power loss it may read as broken.
- In `pair`, Bob's `start_evolution` is always refused: Bob has no peer key.
- `queue_real_message` pads with noise to 4096 bytes, or cuts at 4096. A frame
  of `add_tail_padding` in such a packet has its length trailer no longer at
  the end, so `strip_tail_padding` cannot be applied to the packet as received.
- The entropy gate judges whole streams and the interleave uses as much of each
  as the shorter one has. Part of a longer stream that was judged may thus not
  reach the root.
- A vault call that writes after the purge's truncation makes the file longer
  again. It has no superblock then, and `init_virtual_volume` refuses it
  instead of creating a new vault.
- Through the FFI, an empty payload cannot be padded, and a frame that strips
  to an empty payload is answered like one that is refused.

### Bounds

- `MaxEpoch`, `MaxSecret`, `MaxKeypair`, `MaxSeq`: how often a behaviour may
  change epoch, encapsulate, generate a keypair, and send per epoch. Two epochs
  and two secrets are what it takes for an evolution to be overtaken by another
  evolution or by a roll; `settled` has three of each, so that a device that
  fell behind could fall behind again. Two messages per epoch make a repeated
  number visible.
- `MaxGap`: stands for the 100,000 of `anti_dos.rs:28`; a target
  beyond it is refused without any change of state. `pair` has a gap of two, so
  that the loop is interrupted between two rolls. No run reaches the refusal;
  the theorems leave `MaxGap` open and cover it.
- `DataBlocks`: two blocks make one block's failure meet another block's call.
  `v_vault_reserved` has a third, so that a block lies outside the reserved ones.
- `MaxFaults`: three faults let an I/O error be followed by a crash and the
  recovery by another crash. `wipe` has one: a fault ends the purge or the
  process, and `purged`, `rewritten` and the file carry over to what follows.
  Its view leaves out what the host knows of the blocks, which no guard reads
  there.
- `Host`, `Sender`: two host threads that start and stop, and three threads in
  a process, so that the engine is started again after a stop and after a
  panic; `MaxMessages` is two, so that one message replaces or follows another.
- `HistorySize` three and five observations let the ring buffer go round, with
  odd and even counts. `HalfRange` is eight (four bits), with counters on both sides of the
  largest signed number and differences on both sides of zero. Counters are
  assumed less than a quarter of the range apart, or the sum in the median
  wraps.
- `Base` two, paddings of two or three bytes and all frames up to seven: noise
  that looks like a length, lengths too small, too large and longer than the
  frame all occur.
- `Entropy`: a good stream, a stuck one and a short one. `MaxPairings` two and
  two threads let a pairing overtake another one and a stamp.
- `Thread`: one host thread and one sender; with two host threads `Locks` alone
  has 319,000 states and passes too. The theorem covers any number.

Outside `ClockAlign` the widths of the integers are left out: epochs are `u32` and are bounded far
below their limit.

### Fairness

`FairSpec` is used by `settled` and `v_restart_never_converges`:

- A thread inside a call takes its next step (weak fairness): the calls block
  only on mutexes whose holders are inside calls themselves.
- A host that is idle again and again sends again and again, and a message of a
  newer epoch that could be delivered again and again is delivered (strong
  fairness). This is an assumption on the host and the relay: without further
  messages no auto-commit can happen, and the code has no other way to
  converge. Nothing makes the host start, apply or commit an evolution.

`FlowFairness`, in `process`: a host thread inside start or stop and a sender
take their next step (weak fairness). The steps wait only for a sleep, for a
lock, or for the host's callback, which is assumed to return. Nobody has to
call, and `OsRng` does not have to fail.

Deadlock checking stays on in every run except where a cfg says otherwise; none
does. A session whose bounds are used up still delivers messages.

## What is proved

The modules named `...Proofs` are checked by `tlapm` to the last leaf. The
constants are arbitrary: any number of epochs, threads, secrets, blocks, faults,
hosts, senders and messages.

| Theorem | States | Assuming |
|---|---|---|
| `TypeCorrect` | `Spec => []TypeOK` | |
| `NeverAheadInvariant`, `AgreementHolds` | `Spec => []Agreement` | `FollowersOnlyAutoCommit` |
| `PkLockInvariant` | `Spec => []PkLockInv` | |
| `CipherInvariant`, `CipherMatchesPendHolds` | `Spec => []CipherMatchesPend` | `NoApply` |
| `VaultInvariant` | `Spec => []VaultInv` | |
| `HeldIsDurableHolds`, `FreeCountHolds`, `ErasedForGoodHolds` | the three invariants | |
| `VaultImplementsStore` | `Spec => OneHolderPerBlock`, a refinement | |
| `NumbersNeverRepeat`, `RecoverLandsOnTargetHolds` | no device uses a number twice in an epoch; an action property of `Session` | `EpochsUndisturbed` |
| `KeysNeverRepeatHolds` | `Spec => []KeysNeverRepeat` | `EpochsUndisturbed`, `OneDeviceSends` |
| `FreshRootHolds`, `NoneOnlyIfBothKeysFailHolds` | action properties of `Session` | `OneThreadPerDevice` |
| `AutoCommitLandsOnSenderHolds` | an action property of `Session` | `FollowersOnlyAutoCommit` |
| `AgreementByRolls` | `Spec => []Agreement` | `NoEvolutions` |
| `InStepInvariant`, `InStepHolds`, `AgreementWhenSettled`, `AutoCommitWhenSettled` | `InStep`, `Agreement` and `AutoCommitLandsOnSender` | `EvolutionsSettle` |
| `WipeInvariant`, `PurgedForGoodHolds`, `PurgeLeavesStubHolds` | the invariants of `DiskWipe` | |
| `FlowInvariant`, `RunningIsHeardHolds`, `SentInOrderHolds` | the invariants of `ConstantFlow` | `Patient` |
| `SilentAfterStopHolds` | `FlowSpec => []SilentAfterStop` | |
| `StripInvertsHolds` | `PadSpec => []StripInverts` | |
| `NoCircularWaitHolds` | `LockSpec => []NoCircularWait` | |
| `PairingInvariant`, `StampKeyNotStaleHolds` | `PairingSpec => []StampKeyNotStale` | |
| `StampBindsPairing` | the stamps of two pairings are equal exactly if the pairings are, up to what the interleave drops | |
| `SkewIsMedianHolds` | `ClockSpec => []SkewIsMedian` | |

The constants carry the named assumptions of their modules
(`PairAssumption`, `CallersAssumption`, `EvolutionAssumption`,
`VaultAssumption` and so on), which TLC evaluates in every run.

**Agreement** (`SessionProofs`). `Agreement` is not inductive: a device may reach an epoch with a
root some message on the wire, or some thread's copy, contradicts.
`NeverAheadInv` adds that no device and no message is ahead of Bob, that
whatever shows Bob's epoch has Bob's root, and what each thread knows about its
copies while it is inside a call (`ThreadKnows`): one that is about to commit
holds a message of the next epoch that the pending root opens. A follower then
moves only to an epoch of which a message exists, and so to one of Bob's.
`FollowersOnlyAutoCommit` is the discipline this needs: one thread per device,
and devices other than Bob change epoch only by auto-commit.
`v_recover_diverges` shows that the second half is necessary.

Two other disciplines keep the devices in agreement. Without evolutions
(`NoEvolutions`: nobody starts or applies one) the root of an epoch is
`RootState_init` rolled that many times, because a roll changes both under its
locks (`RolledInv`, in `KeyProofs`); any number of threads of either device may
roll and recover. The third is that of settled evolutions.

**Settled evolutions** (`SettledProofs`). Here the follower has any number of
threads, which start evolutions, send and decrypt at the same time.
`EvolutionsSettle` is the discipline: an evolution is started only when the
last one is settled, its ciphertext is applied once, Bob makes one call at a
time and only Bob calls `commit_evolution`, nobody rolls or replaces a KEM key.
`InStep` says nothing of the threads and so is not inductive. `InStepInv` adds
which phase the evolution is in (`EvolutionPhase`): nothing pending; pending
with the follower alone; its ciphertext under way (`Unapplied`); pending with
both; committed by Bob (`Behind`). And it adds what the copies of a thread mean
in that phase (`SettledThread`): while one thread of the follower is inside
`start_evolution` no other one is there or about to commit, and whoever is
about to commit has a message of Bob's epoch, so that a second commit of the
same message finds nothing pending. `WireKnows` ties the messages to Bob's
epoch. `v_restart_never_converges` shows what happens when an evolution is
restarted before it is settled.

**The public key's mutex** (`PkLockProofs`). `PkLockInv`: a thread between taking and releasing
the mutex is its only holder, and key and hash differ only while
`set_peer_public_key` is between its two writes. `CipherInv` adds what
`start_evolution` has written while it holds the mutex. `NoApply` excludes
`apply_peer_kem`, which sets the pending root without a ciphertext of its own.

**The vault** (`VaultProofs`). A held block must be allocated in three places:
in memory, or the allocator would hand it out again; on the medium, or a crash would free it;
and in the cache, because a power loss may keep either. `HeldInv` says so, and
that a call at its `Sync` has the memory's bitmap in the cache. `ErasedInv` is
the same for noise. `CallInv` ties the progress of the call to the state of
the file. A bitmap write that fails half-way keeps every held bit, since old
and new bitmap both have it. `FreeCount` rests on the cardinality lemmas
`CountAllocated` and `CountFreed`.

**Keys** (`KeyProofs`). `NumberInv`: whatever is on the wire carries an earlier
epoch of its device, or a number the counter has passed; a thread that has
drawn a number and not used it yet has one that nothing on the wire has; and a
thread that rolls has as many rolls left as there are epochs to its target. The
last two need `EpochsUndisturbed`: while a thread sends or rolls, no other
thread of its device changes the epoch. It holds where each device has one
thread; where several send and none of them changes the epoch, they draw
different numbers (`NumbersApart`). `v_key_repeats` drops it: one thread rolls
while another sends. Numbers are per device and the key does not know the
device, so that keys differ only if moreover one device alone sends
(`OneDeviceSends`).

`CopyInv`, in the same module, is behind `FreshRootHolds` and
`NoneOnlyIfBothKeysFailHolds`: what a thread has copied of the root is still
the root, what is pending is not, and no KEM secret is the roll's salt. The
last is why a root that stays pending over a roll still differs from the root
rolled to. `v_spurious_none` shows what an outdated copy does when a device has
two threads.

**The purge** (`WipeProofs`). `WipeInv` follows the passes: what the random
pass is past is overwritten unless it was rewritten, and once the pass is
synced this holds in the cache and on the medium, so that whatever mixture of
the two survives has it too. No vault call gives a file a superblock, so the
file stays one that does not open. The proof first reduces each step of `Vault`
to what it does to the file (`VolumeFile`).

**The constant flow** (`FlowProofs`). `ControlInv`: who starts is alone and
finds no sender, and `RUNNING` is set only with a callback and a sender in
place. `OrderInv`: what waits is younger than what is about to be sent, which
is younger than all that was sent.

**The locks** (`FlowProofs`). The locks have ranks, and every step takes a lock
of a higher rank than those it holds. A set of threads that all wait for one
another would have a member that waits for the highest lock among them; its
holder waits for a higher one still.

**Padding** (`FlowProofs`). A length below the base squared is recovered
from its two digits, so the payload that yields a frame is unique.

**Pairing** (`PeerProofs`). `PairingInv`: the root of the moment, and every root
that a thread has read for a stamp, is of no later pairing than the key of the
moment; the same holds of the two parts of a stamp. It rests on the order of
the accesses, key before root in the pairing and root before key in the stamp,
and on nothing else, so that it covers any number of threads. The interleave
can be taken apart again (`InterleaveInjective`), so equal stamps mean equal
pairings up to what the interleave drops of the longer stream
(`StampBindsPairing`). The streams are sequences of numbers of any length.

**The clock** (`PeerProofs`). `RingInv`: below `write_idx` the buffer holds the
newest differences, from there on, once it is full, the oldest ones. The buffer
is therefore a rotation of the latest differences (`Rotation`), and an ascending
arrangement of the one is one of the other. Entry `k` of such an arrangement is
the `k`-th smallest (`AscendingRanks`: an injection into the entries before it,
and one from them), and an arrangement exists (`SortExists`: an entry goes to
the place that counts the entries not after it). `WrapFits` says that wrapping
changes nothing that fits; with counters less than a quarter of the range apart
neither the difference nor the sum of two wraps.

Only model-checked are the liveness properties `Converges`, `QueuedIsSent` and
`StopSettles`: liveness under fairness is outside this prover's reach. Every
safety property that a passing run checks is a theorem, under the discipline
named above. `FreshRoot` is a theorem for one thread per device; for the three
threads of `process`, none of which applies a ciphertext, it is only
model-checked.

## What is not modelled

- The inside of HKDF, SHA-256, AES-GCM, ChaCha20-Poly1305 and ML-KEM; zeroing
  of memory; null and length checks of pointers at the FFI boundary; the
  timestamps of the vault file; `register_touch`, which does nothing; reads of
  the vault, which change nothing; the raw block access nobody calls.
- `SecureBuffer` of `memory_protection.rs`: it zeroes memory on drop, which no
  other part sees.
- A second pairing in the middle of a session. `initialise_root_state` sets the
  root and the epoch in two critical sections and resets neither the pending
  root nor the counter; `Session` starts after the pairing, and the code makes
  no promise about the rest.
- Mutexes other than the constant flow's queue that a panic poisons. `Locks`
  leaves poisoning out altogether.
- The end of the epoch numbers: `u32` overflows after 2^32 epochs.
- The time stamp of the last clock sample, which nothing reads, and the
  constant `SEEK_WINDOW`, which nothing uses.
- A crash between `set_len` and the superblock leaves a file that every later
  `init_virtual_volume` refuses (`Sized` in the model). The code makes no
  promise about it, beyond what `HeldIsDurable` says: nobody held a block of it.
- `virtual_volume.rs:572` says the bitmap is synced every 10 writes; the code
  syncs each write, and the model follows the code. `HeldIsDurable` and
  `ErasedForGood` depend on it.
