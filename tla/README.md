# TLA+ models of clipy-si-core

`clipy-si-core` is the Rust core of the ClipySi clipboard manager. It holds the
algorithms that must be identical on every platform: the cryptographic format of
a vault, the rules by which devices that share a vault folder merge what they
find in it, and the detector that keeps secrets off the screen. It does no I/O
and keeps no state: each function is given what the platform's shell knows and
returns a value. What makes such a core right or wrong is what becomes of a
vault when several devices keep calling it, in an order nobody planned. That is
what these models are about.

Paths below are relative to `src/crates/clipy-si-core/src/` unless they say
otherwise.

## 1. The system

### Components

| Component | Source | State | Operations |
|---|---|---|---|
| Hybrid logical clock | `sync/mod.rs` 33-114 | the shell keeps one `Hlc` per device | `hlc_compare`, `hlc_next`, `hlc_receive` |
| Merge rules | `sync/mod.rs` 116-178 | the shell's `syncApplied` table and rows, summarised in `LocalState` | `merge_decide` |
| Tombstone GC, stale rejoin | `sync/mod.rs` 180-229 | `devices/{id}.json` (`last_seen`), the tombstone's stamp | `device_is_stale`, `gc_eligible`, `rejoin_action` |
| Record layout | `record/canonical.rs` | none | `encode_plaintext`, `decode_plaintext` |
| Envelopes, vault manifest | `record/mod.rs`, FFI `lib.rs` | files `records/{id}`, `tombs/{id}`, `vault.json` | `seal_record`, `open_record`, `encode_envelope`, `decode_envelope`, `make_vault_manifest`, `decode_vault_manifest`, `verify_passphrase`, `manifest_kdf`, `compute_sync_hash` |
| Crypto, key derivation | `crypto/mod.rs`, `kdf/mod.rs` | keys in the shell's memory | `local_seal`, `local_open`, `content_hash`, `hkdf_subkey`, `derive_vault_key` |
| Secret detection | `redaction/detector.rs`, `entropy.rs` | the list of raw matches of one call | `detect_secrets`, `is_secret`, `merge_non_overlapping`, `byte_to_char_offsets`, `high_entropy_matches` |
| Detection patterns | `redaction/patterns.rs`, `rules.rs` | none | the regular expressions and their gates |
| Masked display | `redaction/mask.rs` | none | `evaluate`, `mask` |
| FFI surface | `src/crates/clipy-si-core-ffi/src/lib.rs` | none | conversions, the checked `encode_envelope` |
| Hex, errors, versions | `hexutil.rs`, `error.rs`, `record/version.rs` | none | `hexutil::serialize`, `deserialize` |
| Swift bindings, build, vectors | `src/bindings`, scripts, `src/kat` | none | generated code, scripts, data |

### How they interact

Devices never talk to each other. They share a folder that some provider (iCloud
Drive and the like) copies about, file by file, in any order, with any delay and
sometimes in part. A device *publishes* by stamping a record with `hlc_next`,
sealing its body with the vault key, hashing its content with `compute_sync_hash`
and writing an envelope. It *pulls* by listing the folder, taking the files that
its `syncApplied` table does not have, merging each stamp into its clock with
`hlc_receive`, asking `merge_decide` about each file (tombstones first) and doing
as it says. From time to time it asks `gc_eligible` about tombstones and
`rejoin_action` about records that disappeared. The `SyncEngine` that makes
these calls is the shell's and is not in this repository.

### What is hard

- *Order.* A record, its tombstone and a re-copy of the same content can arrive
  in any order, and `merge_decide` never looks at a known record again.
- *Concurrency.* Two devices copy and delete the same content under different
  record ids, each deciding with what it has seen so far. On one device, the user
  copies and deletes while a pull has decided and not yet executed.
- *Clocks.* Physical clocks are set back and differ; `hlc_receive` clamps; a
  32-bit counter overflows.
- *Absence.* A file that is not there has been collected, lost, or not yet shown.
  The core tells these apart by two periods, 35 and 30 days, and `last_seen`.
- *Partial files and other builds.* A file may be cut short or of another version.
- *Boundaries.* Byte and character offsets, matches that touch, saturating and
  wrapping arithmetic, a cap that only the reader has.

`PROJECT.json` lists each of these under `hazards`, at the line where it bites.

### What makes each component correct

- **Clock:** a device's stamps strictly increase whatever its physical clock does;
  a stamp is after every stamp its device merged within the drift window; no peer
  can push a clock further than the window.
- **Merge:** no device shows the same content twice; deletion is final; a record
  that is withheld for its tombstone never flickers; devices that have applied the same files agree; deletions and
  undeleted content reach everybody; a wipe covers what was captured before it and
  nothing captured after it.
- **GC:** a deleted record is never published again; an undeleted one is never
  given up by a device that keeps up; tombstones do not pile up, whoever stays away; losses are repaired.
- **Layout and files:** canonical, read back as written, nothing made of part of a
  file; the passphrase decides; sync hashes agree with payloads; who knows the
  passphrase gets in, and records and deletions reach whoever can read them.
- **Detection:** the spans are disjoint and ordered, lose no match, agree with the
  verdict, count characters and not bytes; ordinary text is left alone and random
  runs are not, as long as a u32 can count them; a masked text shows at most its edge.

## 2. The modules

    Hlc ── HlcClock ── HlcClockProofs
     └── MergeRules ── SyncFolder ── SyncFolderProofs
                            │    └ (implements) TwoPhaseSet
                            └── SyncEngine ── SyncEngineProofs
    GcRules ── SyncGc ── SyncGcProofs
                 └ (implements) RecordLife
    PlainLayout ── PlainLayoutScan (with HexText) ── PlainLayoutProofs
     │└── LayoutProofs (used by PlainLayoutProofs and VaultFilesProofs)
     └── Envelope (with VaultCrypto) ── VaultFiles ── VaultFilesProofs
                                            └ (implements) TwoPhaseSet
    Redaction ── SecretScan ── SecretScanProofs

A module on the left holds pure operators, translated function by function. The
module to its right is a state machine whose actions call them. `MC*` modules and
`.cfg` files give the constants values. Definitions named `X_Y` that a comment
calls a mutant are the operator `X` with a plausible bug; nothing uses them but
the test that the properties notice.

### Hlc, HlcClock

The three clock functions, with the widths of the fields (`MinWall`, `MaxWall`
for `i64`, `MaxCounter` for `u32`) and the drift window as constants; saturating
sums saturate. A UUID is compared by its bytes, so a node is a number.
`HlcClock` has devices whose physical clocks jump back and forth
(`SetPhysicalClock`), that stamp (`Issue`) and merge each other's stamps in any
order, any number of times (`Receive`). A wall ends at `MaxWall`: a counter that
overflows there cannot roll it forward, and `hlc_next` repeats a wall with counter
0. `spent` remembers on which devices that happened; what is said of a device's
stamps is said as long as it has not, and `SpentByOwnClock` says that peers cannot
make it happen. The histories `issued`, `heard`, `peak` and `rolls` exist for the
properties.

### MergeRules, SyncFolder, TwoPhaseSet

`MergeDecide` has the branches of `merge_decide` in its order: known records
(`KnownAction`), unknown tombstones, content covered by a wipe or live already
(`Suppressed`), and the rest. `SyncFolder` runs it. What a device holds about a
record is one of four states: unknown, a live row, an applied entry without a
row, a deleted entry. `Copy`, `Delete`, `Arrive`, `Pull`, `Process`, `Crash` and
`Tick` are the user, the provider, the engine and time.

Five things are taken from what the core's comments say of the engine, since its
code is not here:

1. `merge_decide` and the execution of its answer are one step; the user does not
   delete or copy in between. `SyncEngine` drops this one.
2. Tombstones of a listing are processed before its live records.
3. Every processed file's stamp is merged into the clock with `hlc_receive`, and
   what a clock function returns is stored.
4. The listing is the difference between what is there and `syncApplied`; an
   interrupted session forgets its listing and nothing else.
5. Copying content that has a live row moves that row and publishes nothing.

A record is `Withheld` on a device that has been delivered its tombstone and does not
show it, unless a session under way listed the record before the tombstone came: that
session may still show it. `NoFlicker` says that it stays withheld. The order of
assumption 2 is one part of it; the others are `merge_decide`'s: a tombstone of an
unknown record is recorded, a known one is not decided again, and an interrupted
session leaves both files to the next.

`TwoPhaseSet` is the abstract promise: a replicated set of ids, each added once
and removed for good. `SyncFolder` implements it under the mapping in `Ids`.

### SyncEngine

The same pull in two steps. `Consider` takes the summary (`LocalState`), asks
`merge_decide` and keeps the answer in `pending`; `Execute` does what it says,
later, without asking again. In between the user copies (`UserCopies`) and deletes
(`UserDeletes`), the provider delivers, time passes, and an `Interrupt` forgets the
answer with the listing. `overtaken` names the records whose content was copied or
deleted between the two steps. What the engine must keep atomic is exactly this:
no copy or deletion of the *same content* between summary and execution. As long as
that holds, every step is a step of `SyncFolder` (`AtomicUnlessOvertaken`), so all
its safety properties carry over; where it does not, a content may be shown twice
or a wiped one come back, but deletion is still final (`EngineIsTwoPhaseSet`).

### GcRules, SyncGc, RecordLife

The three functions with their units: `last_seen` is in seconds and is multiplied
by 1000, which wraps in a release build; stamps are in milliseconds; differences
saturate. `SyncGc` follows one record from everybody having it, through its
deletion, to the collection of its tombstone and the return of devices that were
away. A session lists the folder (`Begin`), may see it as it was up to `Delay`
ago, takes up to `SessionMax`, and on `Finish` applies, collects or rejoins and
writes `last_seen`; it may be aborted. Assumed of the engine: a listing shows the
record, the tombstone or neither, consistently; the record's file goes when its
tombstone is written; the collecting device sees the state it writes; a file the
provider loses is seen to be gone at once.

`RecordLife` is the abstract promise: the record is on the shelf until somebody
deletes it; then a mark is, until no device that keeps up has the record; then
nothing, for ever. Only a device that has not kept up gives up a record that nobody
deleted. `SyncGc` implements it: `folder` is the shelf, and who still has a live
row is who has it.

### PlainLayout, HexText, PlainLayoutScan

The writer and the reader of a body, byte by byte, with the number of byte
values, the width of a prefix and the cap as constants. A read is the set of its
outcomes, of which there is at most one. UTF-8 validity is a set of bytes that no
string has. `HexText` is the text of the binary fields of `vault.json`: two lowercase
digits a byte from the writer; either case, and what `u8::from_str_radix` takes for
a number with a sign, at the reader. `PlainLayoutScan` hands every byte string up to
a length to the reader of the layout, and writes and reads it as text.

### VaultCrypto, Envelope, VaultFiles

Cryptography is symbolic: a key is the record of what it was derived from, a
hash of what was hashed, a sealed box of what was sealed under which key; a box
opens whole, under its own key. Every check of the code is there: versions, the
empty salt, zero iterations, the length of a key, the tombstone invariant, the
encoder's round trip. A file's bytes are a sequence of fields, so a file cut short
is a prefix of that sequence. `VaultFiles` has devices of several builds that
create a vault, read `vault.json`, unlock it with what their user types, publish,
delete and read, while the provider shows each file piece by piece. Assumed of the
shell: a read that failed is tried again, a verdict of "live" is kept until a
tombstone says otherwise, one of "deleted" for good, and a nonce is used once. Under
the mapping in `Ids` it implements `TwoPhaseSet`, the same promise as `SyncFolder`:
that is where the two meet. A `sync_hash` is not taken of the sealed bytes: the shell
makes a canonical payload of a record (`CanonicalPayload`), which leaves out its title,
its source and its other representations (`src/kat/record.json`), and
`compute_sync_hash` hashes that under a key of the vault. `DedupeAgrees` is about
payloads, so copies of one content from two apps agree. What `SyncFolder` takes for a record or a tombstone of an
id is what `VaultFiles` makes of bytes.

### Redaction, SecretScan

A text is its characters, the byte offset of each, and where matches may begin and
end. The five sources run in the order of `collect_raw`, and each may match any
spans, and capture any value within them: which ones is up to the regular
expressions. What is modelled is everything the code does with the matches: the
gate on empty ones and on values that do not look secret (`LooksLikeSecretValue`:
the length and the signal of the value without its quotes are computed, the tables
of placeholders and the shapes of paths are the spans a text calls `benign`),
key=value inside URLs, the token runs that nothing claims and their Shannon entropy, the stable sort and the walk of `merge_non_overlapping`, the single
walk of `byte_to_char_offsets` with its clamp, and the mask. The length of a run is
cast to u32 (`AsU32`) where it is compared with the shortest that may qualify, and
not where its logarithm is taken; characters are counted in u32, which wraps in a
release build (`Total`, `Occurrences`). Entropy is counted in
thousandths of a bit: `Log2[n]` is the logarithm of n rounded to that, which decides
as the floating-point sum does for all but values within rounding of a threshold.

## 3. The runs

Every passing run below finished with no error; deadlock is not checked where the
users owe nothing, time ends, or a scan is over, which is everywhere.

| Run | What it checks | Bounds |
|---|---|---|
| `hlc_clock` | `IssuedInOrder`, `IssuedAfterHeard`, `DriftBounded`, `SpentByOwnClock` | 2 devices, 2 stamps each, readings 0, 1, 3 with drift window 1 (so that clocks can be out of the window), counter of 2 values (so that it overflows and saturates), walls that end at 4 (so that a device can run out of stamps) |
| `sync_folder` | `OneLivePerContent`, `NoFlicker`, `RecopyOutranksWipe`, `SettledDevicesAgree`, `IsTwoPhaseSet`, and under fairness `DeletionReachesAll`, `CopyReachesAll` | 2 devices one drift window apart, 2 records of one content, 2 instants, 1 interrupted session |
| `sync_engine` | `AtomicUnlessOvertaken`, `DuplicateOnlyIfOvertaken`, `WipeCoversUnlessOvertaken`, `EngineIsTwoPhaseSet` | 2 devices, 3 interchangeable records of one content (so that a device knows two wipes and the newest must decide), 5 files, 1 interrupted session |
| `sync_gc` | `NoZombie`, `LeftBehindIsStale`, `GcIsRecordLife`, and under fairness `DeletionCompletes`, `TombstoneCollected`, `LossRepaired` | 2 devices, one of which keeps up; clocks 1 s apart; retention 5, stale window 2, and exactly the delay this leaves room for; 2 ms to the second; 10 s, 1 abort |
| `plain_layout` | `Canonical`, `EncodingsReadBack`, `HexReadsBack` | all strings of up to 10 bytes over 3 byte values, one-byte prefixes, cap 1: every field, both flags, a malformed flag, a malformed string and a count beyond the cap occur; digits of radix 2, so that bytes of one and of two digits occur |
| `vault_files` | `TypeOK`, `PassphraseDecides`, `OpenedAsPublished`, `NothingFromPartialFiles`, `DedupeAgrees`, `OpensWithinCap`, `FilesAreTwoPhaseSet`, and under fairness `KnowersGetIn`, `FilesReachDevices` | 2 devices, one of the first of 3 builds and one of any (either may create the vault, so that which has which does not matter), 1 record, 3 passphrases of which two are one in normal form, 4 descriptors, 2 texts of which one is beyond the cap and which have one canonical payload, and a second payload |
| `secret_scan` | `KeptDisjoint`, `NothingUnreported`, `GuessesHideNothing`, `CharSpansFaithful`, `MaskHides`, `PlainStaysReadable`, `RandomIsNoticed` | 9 texts of 2 to 12 characters of 1 to 3 bytes, with up to 3 matches of any sources that may be any spans between a few cuts; all mixes of 4 token characters in runs of 3, 4 and 8 (too short, as long as the alphabet's entropy, longer); shortest run 3, floor and cap 2 bits, values of 2; a u32 that ends at 8, so that the offsets of the longest text are clamped, and runs of 9 and 12, of whose length 0 and 3 are left |

Why these bounds are enough: the merge rules look at one record, its twins and
one clock; two devices and two twins give every combination of what each knows,
the third twin makes "newest" mean something, and the theorems of section 4 hold
for any number. Five files are a copy and a deletion of two twins and a re-copy. In `SyncGc` the devices act on each other only through one file
and their `last_seen`; one that keeps up and one that does not are the two cases
of every rule. The detector's overlap rules look at two matches at a time, and a
third shows what the merge skipped; entropy depends on how often each character
occurs only, so runs with the characters in one order stand for all.

### Fairness

`SyncFolder` assumes that the provider delivers in the end, that a device keeps
pulling, and that it processes what it listed: weak fairness of `Arrive`, `Pull`
and `Process` for each device. `sync/mod.rs` line 12 says that the pull is the
filename-set difference and takes late files, which only makes sense if it is
repeated. Interruptions are bounded, users owe nothing. `SyncGc` assumes weak
fairness of time, of `Begin` and `Finish` on the devices that keep up (`KeepsUp`),
and on every device that a session which has begun ends, by `Finish` or by `Abort`.
A device that does not keep up need never come back: `TombstoneCollected` and
`LossRepaired` hold although it does not, and `DeletionCompletes` says by itself, in
its premise, which devices it is about: those that complete sessions again and again. `VaultFiles` assumes that the provider shows everything in the end
(`Provides`), that a shell whose read failed reads again (`Reads`; every error of
`decode_envelope` and `manifest_kdf` is the answer to bytes that may not be all
there, and the core keeps nothing of it), and that a user who is asked for the
passphrase types it in the end, in some Unicode form and after any number of wrong
ones (`TypesRight`). Nobody has to create a vault, publish or delete. `SyncEngine`,
`HlcClock`, `PlainLayoutScan` and `SecretScan` are checked for safety only; liveness
of the pull is checked on `SyncFolder`.
No property relies on a device being quick; `KeepsUp` names the
devices that are, where a statement is about them.

### Runs that find a disagreement

Each of these violates a sentence of the repository, quoted in `PROJECT.json`.

| Run | What happens |
|---|---|
| `recopy_lost` | Device 1 copies, device 2 pulls; device 1 deletes and copies again. The re-copy reaches device 2 before the tombstone and is suppressed as a live duplicate; the tombstone then removes the row; the re-copy is never decided again. The comment says that a re-copy survives and that the pull is immune to the order of arrival. |
| `devices_diverge` | Both devices copy the same content, each suppresses the other's record, one deletes its own. It has nothing; the other still shows its own. Everything has been delivered and applied. |
| `clamped_recopy` | With clocks two drift windows apart, the clamp leaves the local clock behind a tombstone that was applied, and the re-copy is stamped before it. |
| `zombie` | With the code's periods in units of five days, the provider shows a deletion fifteen days late: the tombstone is collected before a fresh device saw it, and that device publishes the record again. |
| `unknown_kdf_handed_out` | `manifest_kdf` is documented to refuse an unknown KDF version; it returns the descriptor, and `derive_vault_key` refuses it later. |

One more observation needs no run of its own. `decode_plaintext` has a cap of 4096
representations that `encode_plaintext` and `seal_record` lack, so a larger record
is published and opened by nobody; `OpensWithinCap` states exactly that.

Nor does this: a random run that a match claims is left to that match, and the
match may then give way to another that does not touch the run. The text is still
a secret and is masked, but no span that `detect_secrets` returns touches the run.
The comment at `redaction/detector.rs` 140 only promises spans that nothing claims,
so `RandomIsNoticed` says what holds: the run is touched by a match that was
reported or gave way to one that was. One of the texts of `secret_scan` is such a
case.

## 4. What is proved

TLAPS checks every theorem below for all values of the constants that satisfy
the named `ASSUME`s of the modules: any number of devices, records, characters or
passphrases, any widths, windows and periods. TLC had agreed with each statement
on the small instances first. TLC evaluates every `ASSUME` in a passing run;
what a theorem needs beyond them is a hypothesis in its statement.

| Module | Theorems | Inductive invariant |
|---|---|---|
| `HlcClockProofs` | `ClockTypes`, `StampsIncrease`, `StampsFollowHeard`, `NoPoisoning`, `OnlyOwnClockSpends`, `StampsNeverTie` | `IInv`: besides the properties, the clock is at or after everything the device issued (`ClockCoversIssued`) and every stamp it heard within the window (`ClockCoversHeard`), as long as it is not spent, and `peak` is no less than its physical clock (`PeakIsPeak`); with `OwnStamps`, that a stamp names its device, no two stamps tie (`OneOrder`) |
| `SyncFolderProofs` | `FolderTypes`, `NoDuplicateContent`, `TombstonesFirst`, `FolderIsTwoPhaseSet`, `SettledAgreement`, `WipesCover`, `RecopyIsLater` | `OneLivePerContent` is inductive with `TypeOK`; the refinement needs `Borne` (what a device knows of was published), the agreement needs `Justified` (each of a device's four states has its reason among the files); `RecopyInv`: no stamp is ahead of every physical clock (`WallsAreReal`), published counters leave room (`StampsHaveRoom`), and a clock has caught up with each wipe its device recorded (`ClockCoversWipes`) |
| `SyncEngineProofs` | `EngineTypes`, `EngineIsAtomic`, `EngineDeletesForGood`, `DuplicatesAreOvertaken`, `EngineWipesCover` | an answer that was not overtaken is the one `merge_decide` would give now; one that was still never contradicts what is known to be deleted |
| `SyncGcProofs` | `GcTypes`, `KeepersKeep`, `HoldersAreStale`, `CollectionIsSafe`, `GcImplementsRecordLife`, `AcknowledgementsNeverRefuse` | `KeepInv` for `KeepersKeep`; `GcInv` for the others: a collected tombstone was past retention on the clock that collected it (`CollectedLate`), a session that does not see it began early enough (`BlindSessions`), and who still holds the record has written no later `last_seen` (`HoldersNotSeen`) |
| `SecretScanProofs` | `ScanTypes`, `MergeIsDisjoint`, `MergeLosesNothing`, `VerdictsAgree`, `GuessesAreHarmless`, `SpansAreFaithful`, `SecretsAreMasked`, `PlainIsLeftAlone`, `RandomRunsAreNoticed` | `ScanInv`: what is left to merge starts no earlier than what is kept (`RestIsLater`), entropy matches keep apart from all others (`GuessesApart`), and the walk has pushed the characters before each boundary it passed (`Walked`); `ReasonInv`: every match has its reason in the text; `NoticedInv`: once the collection is over, every run that qualifies is touched by a match or a data URI |
| `VaultFilesProofs` | `PassphraseIsDecided`, `PartialFilesSayNothing`, `FilesImplementTwoPhaseSet`, `RecordsOpenAsPublished`, `VaultTypes`, `HashesAgree`, `CapDecidesOpening` | `VaultInv`: `vault.json` is the manifest of the chosen passphrase (`VaultIsMade`) and a descriptor is only ever taken from all of it (`DescriptorIsTheVaults`); `FilesInv`: a file has the fields of its kind (`FilesAreWhole`) and a result rests on one that is there in full (`GotFromWholeFiles`); `KeyInv`: every key is the vault's; `SealInv`: every file was sealed with it, around what its author copied; `ReadInv`: what was read is a text or none |
| `LayoutProofs` | `Decoded`, `WrittenApart`, `WrittenReadsBack` | none: facts about the codec, for every byte string and every record |
| `PlainLayoutProofs` | `LayoutIsCanonical`, `EncodingsAreReadBack`, `HexIsReadBack` | `buf` is a string of bytes; a byte is its two digits (`TwoDigits`) |

These deserve a word.

- `RecopyIsLater` has two hypotheses, `ClocksClose` (physical clocks differ by at
  most the drift window) and `[]CountersHaveRoom`. Both are needed: the run
  `clamped_recopy` shows what happens without the first, and a counter that is
  full makes `hlc_receive` return a stamp equal to the one it received.
- `HoldersAreStale` and `CollectionIsSafe` assume `VisibleInTime`, which says how
  late the provider may be: less than retention exceeds the stale window, skew and
  session length included. With the code's periods that is five days. The run
  `zombie` shows a deletion that is later. `ClocksInRange` keeps `last_seen` where
  its product with 1000 does not wrap.
- `AcknowledgementsNeverRefuse` says that the loop of `gc_eligible` over the
  devices' `last_seen` can never change its answer as long as retention is longer
  than the stale window: a tombstone old enough to collect is older than the last
  session of every device that is not stale. The loop is a safeguard for other
  constants, not for today's.
- `EngineIsAtomic` is a refinement up to a condition: it says which interleavings
  the shell has to exclude, and that it has to exclude no others, for any number of
  records of the same content.
- `Decoded` says what the reader of `canonical.rs` does with every byte string: it
  accepts exactly what the writer writes of a record within the cap, and gives that
  record. Its argument follows the reader. A prefix of `LenWidth` bytes and the
  numbers below `Limit` are the same thing (`Number` and `PutU32` undo each other);
  each field read is the field written at that place; the representations are
  counted off one by one; and the end leaves nothing over. `RecordPlaintext` is the
  records whose lengths fit their prefixes, so `Decoded` also says that no bytes
  read as a record with a longer field. `WrittenApart` needs its own argument, as
  the reader refuses what is beyond the cap and so cannot be used to tell it apart.
- `RecordsOpenAsPublished`, `VaultTypes` and `CapDecidesOpening` rest on
  `WrittenReadsBack` for the texts that are copied (`TextsReadBack`); `HashesAgree`
  rests on the key under which payloads are hashed. None of them has a hypothesis left.
- `RandomRunsAreNoticed` has the entropy of a run in it. Where each of s symbols is
  there m times, n = s m and the sum over the symbols is s m log m (`EvenlySpread`,
  `EvenSum`), so the entropy is log n - log m for each character; that s is no less
  than the floor's or the reference's alphabet makes it large enough. Of the table of logarithms it uses `LogAssumption` only. The run has
  at most `MaxU32` characters, where the cast and the counters change nothing
  (`SmallIsU32`): of one of 2^32 characters and a few more the code takes the few for
  its length.
- Where such an argument goes over the bytes of a string, the numbers or the
  subsets of a set, the induction is a lemma about the set of the numbers for which
  the claim holds, proved from the least one for which it does not (`Counted`,
  `Induction`): the prover cannot instantiate the library's rules, which take the
  claim as an operator.
- `GcImplementsRecordLife` has the hypotheses of `CollectionIsSafe`.
- `KeepersKeep` needs no assumption about the provider at all: a device that
  syncs within the stale window can only be told of a deletion by a tombstone.

### Assumptions

| Named assumption | Says | Justified by |
|---|---|---|
| `WidthAssumption`, `NodeAssumption`, `NoStampAssumption` | the widths are a range and a natural, nodes are numbers up to `MaxNode`, no clock is a value of its own | `i64`, `u32`, byte order of a UUID, `Option<Hlc>` |
| `PhysAssumption`, `MaxIssuesAssumption`, `MaxFilesAssumption` | readings are walls, bounds are naturals | the shell reads an `i64` |
| `SyncHashAssumption`, `SkewAssumption` | every record has one content; skews keep clocks within the width | the hash is taken of what the content's payload is; the shell reads a clock |
| `GcConstantsAssumption`, `RetentionAssumption`, `SyncGcAssumption` | the periods are naturals that fit, retention exceeds the stale window, clock offsets are integers | `TOMBSTONE_RETENTION_SECS` and `STALE_DEVICE_SECS`, `sync/mod.rs` 27-31 |
| `LayoutAssumption` | a base above 1, a width above 0, a prefix that can count one more than the cap | bytes, `u32` prefixes, `MAX_REPRESENTATIONS` |
| `HexAssumption`, `ByteAssumption` | every digit is read as the number it was written for, "+" is no digit; two digits are enough for a byte | 16 digits in `hexutil.rs` |
| `NfcAssumption`, `VerifierAssumption`, `AppAssumption`, `KdfAssumption`, `NoKeyAssumption` | normalising twice changes nothing; versions and iterations are naturals; no key is derived that is the value for none | Unicode; `record/version.rs`; derived keys are 32 bytes |
| `VaultFiles`' `TextAssumption`, `StringsAssumption` | the texts copied, and the strings of the scan, have lengths that fit their prefixes and are UTF-8 where they are strings | a clip of 4 GiB is out of reach; `String` |
| `PayloadAssumption` | every text that is copied has a canonical payload | the shell makes it of the content, `src/kat/record.json` |
| `RedactionAssumption`, `SecretScan`'s `TextAssumption` | bounds are naturals, every character has a class; a text's character boundaries ascend from 0 to its length; the table of logarithms is as long as the texts | `MaskConfig`, `&str` |
| `LogAssumption` | log 1 is 0, and 2^b times as many have b bits more, for the floor and the cap | `f64::log2` |

## 5. What is only model-checked

- *Liveness* (`DeletionReachesAll`, `CopyReachesAll`, `DeletionCompletes`,
  `TombstoneCollected`, `LossRepaired`, `KnowersGetIn`, `FilesReachDevices`): the
  prover has no rule for fairness.
- That TLC's constants are the code's: the runs take small widths, caps and tables,
  the theorems take any that satisfy the assumptions above.

Every invariant and every action property that a passing run checks is a theorem.

The type invariants, `WipeCoversOlderCopies`, `KeptUnlessDeleted` and
`VerdictMatchesSpans` are theorems and are no longer listed in a run: the runs check
something that implies them (`WipeCoversUnlessOvertaken`, `GcIsRecordLife` and
`NothingUnreported`), or would only repeat the proof.

## 6. What is not modelled

- *The regular expressions and the tables of `patterns.rs`*: placeholder words, the
  shapes of paths, the allowlist. They are pure predicates with their own test
  vectors. The model lets each source match any spans and capture any value, which
  is more than they do, and takes what the tables reject as given with the text.
  `user_rule_errors` filters a list of names.
- *Rounding of entropy.* A run whose entropy is within a thousandth of a threshold.
- *Ciphertexts.* Nonce lengths, zeroization and the algorithms themselves; a
  sealed box is an idealised one. A nonce that a caller passes is used once.
- *JSON.* A header or a manifest is one field that is there whole or not at all.
- *A field of 4 GiB*, whose length does not fit its prefix: the cast is modelled
  (`PutU32` wraps), no run builds such a field.
- *A `last_seen` near the end of `i64`*, whose product with 1000 wraps: `Wrap` is
  there, no run reaches it, and the theorems assume `ClocksInRange`.
- *Hexadecimal texts in which a slice cuts a character of several bytes*, which
  makes the reader panic: `HexText` has characters of one byte.
- *The shell and the provider* are external: section 2 lists what is assumed.
- *FFI conversions, generated bindings, build scripts, vectors.* They keep no state
  and decide nothing, except `encode_envelope`'s round trip, `manifest_kdf` and
  `verify_passphrase`, which are modelled where they are called, and the parsing of
  UUIDs, whose error comes before any decision and is left out.
- *Clocks at the end of `i64` in `SyncFolder`.* `HlcClock` has them; `SkewAssumption`
  and a guard of `Publish` keep `SyncFolder`'s readings below.

## 7. What comes next

1. `VaultFiles` composed with `SyncFolder` step by step: today they are linked by
   the abstract set both implement; a composition would say that a file a build
   cannot read does not count as applied.
2. `SyncGc` composed with `SyncFolder`: rejoin of a device that knows several twins.
3. An abstract specification of `SecretScan`: a partition of the text into reported
   and unreported spans.
4. The envelope's own codec (`Envelope`) with its fields as bytes, so that `Decoded`
   has a counterpart for a whole file.

## 8. Running it

In this directory, `tlc -workers 2 -config sync_folder.cfg MCSyncFolder` checks a
run (`PROJECT.json` names the module of each), `tlapm SyncFolderProofs.tla` the
proofs of a module. The longest run takes a few minutes.
