# TLA+ specifications of stowmark

Stowmark stores snapshots of directories in a repository: content-addressed
objects, one JSON manifest per snapshot, and `config.json`. The repository lives
on one of six back ends (local disk, SSH, SMB, S3, GCS, WebDAV). These modules
specify the parts of the program in which several goroutines, several failing
calls or several runs of the program decide whether a backup can be read again.

## Inventory

| Part | State | Operations | What is hard | What makes it correct |
|---|---|---|---|---|
| Key rotation, `domain/snapshot/rekey.go` | old and new generation, jobs channel, errgroup, `committed` | `ReKey.Do`, `rekeyObjects`, `rekeyObject`, deferred `AbortRekey` | pool with cancellation, commit point, clean-up racing writers, crash and retry over leftovers | no readable object is lost; failure rolls back; success retires the old key; it ends |
| Encrypted generations and `config.json`, `infra/*/object_repository.go`, `infra/*/folder_repository_repository.go` | `objects/encrypted/<generation>/`, `config.json` | `ListEncryptedObjects`, `ReadEncryptedObject`, `SaveRekeyedObject`, `DeleteEncryptedGeneration`, `AbortRekey`, `CreateConfig`, `GetConfig` | six ways of leaving intermediate and failed states | what each call leaves behind is safe for its callers |
| Snapshot creation, `domain/snapshot/create.go` | indexes channel, `firstErr`, context, `files`, `savedFiles` | `Create.Do`, `saveFileObjects`, `saveObject`, `saveChunk` | deduplication by path against in-place writes, errors, cancellation, edits of the source | manifests are complete and refer to intact objects; it ends |
| Object storage, `infra/*/object_repository.go`, `infra/object`, `infra/chunkio`, `infra/encrypt` | `objects/` | `AlreadyExists`, `Save`, `SaveChunk`, `ReadObject`, `RestoreObject` | partial objects, two writers, late errors | the object under a hash has that hash |
| Manifests, `infra/*/manifest_repository.go` | `snapshots/<id>.json` | `Save`, `List`, `Get` | torn manifests | a manifest is whole or not there |
| Source explorer and hash calculators | none | `Explore`, `CalculateHash`, `CalculateChunks` | chunk boundaries, a file that changes | chunks partition the file |
| Verification, `verifier.go` | pool, `firstErr`, result | `Verify`, `verifyFile`, `verifyObject` | errors that cancel the work of others; cancellation ends the pool without an error | the report is exact for what was read; an error is not taken for damage; it ends |
| Restore, `restore.go`, `restore_file.go`, `RestoreObject` | destination files | `Restore`, `RestoreFile`, `RestoreObject`, `ChangeSourcePath` | several chunks per file over a file of the user, clean-up, moved paths | a restored file is the one backed up; a failed one leaves nothing half done |
| Init, configuration, rewrap, `domain/repository` | `config.json`, folders | `Init.Do`, `updateConfig`, `GetConfig`, `Rewrap.Do` | several steps without atomicity, repeated over one `config.json` | identity, key and generation survive; snapshots stay readable |
| Keys, compression, command line, middlewares, observability | none, or files of the user | | | wiring, I/O and codecs |

The services of `domain/` call the back ends through the interfaces of
`domain/snapshot/repositories.go`; `infra/repositories/handler.go` chooses the
implementation from the repository URL. Nothing else connects the parts but the
files of the repository: creation, rekey, verification and restore are separate
processes that meet only there, and no lock protects it. The README of the program
asks users not to run a key rotation next to anything else; it says nothing of
concurrent snapshot creations or inits.

`PROJECT.json` lists the hazards found while reading, each at its line.

## Modules

| Module | Models |
|---|---|
| `GenerationStore` | the encrypted generations and `config.json` on each back end |
| `Rekey` | `ReKey.Do` on top of it: feeder, workers, commit, deletion, clean-up |
| `KeyRotation` | abstract specification: a rotation as one step |
| `MCRekey` | instances for TLC |
| `RekeyProofs`, `RekeyRefinement` | proofs about `Rekey` |
| `CreateProofs`, `FileProofs`, `VerifyProofs`, `RestoreProofs`, `RepositoryProofs` | proofs about `CreateSnapshot`, `FileBackup`, `Verify`, `Restore`, `Repository` |
| `SequenceFacts` | induction over numbers, and what concatenating the chunks of a file gives |
| `ObjectStore` | how each back end writes objects, chunks and manifests |
| `CreateSnapshot` | `Create.Do` on top of it, for one or more processes |
| `FileBackup` | one file byte for byte: exploring, chunking, hashing, saving, publishing, while it changes |
| `Verify` | `Verifier.Verify`: feeder, workers, the critical section |
| `Restore` | `Restore.Restore`, `RestoreFile.Restore` and `RestoreObject` |
| `FolderRepository` | how each back end recognises a repository, replaces `config.json` and lists `snapshots/` |
| `Repository` | the composition: init, create, rewrap, rekey and list over one repository |
| `MCCreate`, `MCFile`, `MCVerify`, `MCRestore`, `MCRepository` | instances for TLC |

Every operation of a back end is a record of the traits its callers can tell apart, read
off the six implementations (`ObjectStore`, `FolderRepository`, `GenerationStore`); the
other modules have one definition for all back ends and consult the record. The actions keep
every guard, early return and order of the code; names, messages and JSON are left out.

### GenerationStore and Rekey

An object is abstracted to the key that decrypts it (`Torn` for incomplete content,
`Absent` for none), since AES-GCM authenticates; `store[g][h]` is the object of hash
`h` in generation `g`. `config` holds the generation and the key `config.json` wraps,
or `Unreadable`. For each back end `SaveRekeyedObject`, `CreateConfig` and
`DeleteEncryptedGeneration` are described by what may lie in the repository while the
call is under way and after it failed: disk writes temporary files and renames them,
SSH and SMB truncate in place, S3 and GCS make one request, a WebDAV server may apply
a PUT piecemeal, that of `config.json` included. `AmbiguousErrors` is the set of back ends on which an error of
`CreateConfig` may hide that it took effect.

`Rekey` has one action per step at which another goroutine, the caller or the
environment can intervene:

| Actions | Code |
|---|---|
| `Begin`, `BeginFails` | `Do` up to the deferred clean-up |
| `HandOver`, `FeederReturns` | the feeder; sending and receiving on an unbuffered channel is one step |
| `OpenObject`, `SaveObject`, `WorkerFails`, `WorkerReturns` | the worker and `rekeyObject` |
| `GroupWait` | `group.Wait` |
| `CreateConfigRefused/Starts/Returns/Fails` | the switch of `config.json` |
| `DeleteOld`, `DeleteOldReturns` | deletion of the old generation, step by step |
| `Abort`, `AbortReturns` | the deferred `AbortRekey` |
| `Cancel`, `Crash` | the caller's context; death of the process |

The model lets Go's `select` choose either ready case, as the language does. Key `k`
is the one generated by attempt `k - 1`, so every attempt has a fresh key. `live` is a
history variable: the objects that were readable to begin with.

### ObjectStore and CreateSnapshot

A save is described by the traits its callers can tell apart (written in place or in
one request, exclusive, validated, cleaned up, errors ignored), read off the six
implementations of `Save` and `SaveChunk`. An object is two parts in a row, each tagged
with its writer: for an encrypted object they are the nonce and the ciphertext, which
`aesgc_handler.go` writes one after the other. An object is intact if both parts hold
the content that was hashed and, where encrypted, come from one writer.

Each worker hashes a file (`Calculate`), asks for each piece whether the path exists
(`AlreadyExists`) and saves it (`EncodeToPut` and `Put`, or `OpenInPlace`, `WriteHead`,
`WriteBody`). The first error cancels the context, and workers go on draining the channel,
as in the code. After a failed save the path holds what the error paths of that back end
leave (`AfterFailedSave`): over SSH nothing; on disk and SMB what was written; over WebDAV
nothing if the PUT itself fails, but whatever is there if a check after it does, an object of
the wrong size (`webdav/object_repository.go:321`) included. A manifest saved over SSH can be
read before its Chmod, whose failure removes it again. `attached` tells whether a worker's open file still is the one at the
path, so that a removal by another process is modelled as POSIX does it.

### FileBackup

`CreateSnapshot` takes files, chunks and hashes as given. `FileBackup` does not: a file is a
sequence of bytes, `Explore` records its size, `CalculateHash` or `OpenForChunks` and
`HashChunk` cut it as `source_explorer.go` does, `SaveChunk` reads the source once more
(`RangeRefused` is `OpenSource`, `ChunkRefused` adds `validateHash` where the back end has
it), `Publish` records the size of `Explore`. `Edit` may come between any two of them. The
hash of a content is the content itself. `ChunksPartitionFile` compares the chunks with a
reference definition of the partition; `RoundTrip` concatenates the stored objects, as
`RestoreObject` does, and compares them with what the file held.

### Verify

One action per step of the goroutines of `Verify`: `HandOver` and `FeederStops` (the feeding
loop, in which `select` may take either ready branch), `VerifyPiece` (one object), `Record`
(the critical section), `WorkerReturns`, `WaitReturns`. The objects are in any state, intact,
altered or absent, in the namespace that the key selects. What the six `ReadObject` tell
apart is in `ObjectStore`: whether a missing object is reported as such, and that decryption
authenticates.

### Restore

Files are restored one after the other, as in the code. `OpenDestination` truncates what the
user has, `CopyPart` appends one decoded object, `CloseDestination` compares the size,
`RemoveDestination` is the deferred removal, whose own failure the code ignores. Paths are
sequences of characters, because `ChangeSourcePath` replaces every occurrence of the source.
Without a key an altered object may decode to anything.

### FolderRepository and Repository

`Repository` composes the commands. Each process runs one command at a time, as the sequence
of its calls on the repository: `InitExists`, `InitFolder`, `InitPrevious` (`GetConfig` and
`updateConfig`), `CreateConfigStarts/Returns` (shared by init, rewrap and rekey),
`InitFolders`; `CreateReads`, `CreateSaves`, `PublishStarts/Returns`; `RewrapReads`;
`RekeyCopies`, `RekeyDeletes`; `ListNames`, `ListNextPage`, `ListReads`, `ListReturns`. While
`CreateConfig` is under way `config.json` is what the back end makes of it: the old document
(SSH, S3, GCS), or an unreadable one (disk, SMB, WebDAV), or over SMB the new one before its
length is set. S3 and GCS list page by page, and the manifests of a page are read before the
next page is asked for: a page ends anywhere (`PagesAfter`), and names that appear meanwhile lie
before or after that place. Any call may fail (`CommandFails`), any process die (`Crash`). Copying and deleting a generation
are one step here: `Rekey` has them in detail, and `Refinement` shows that a rotation may be
seen as one step. A snapshot is one file whose hash depends on the compression; an object is
the key it is encrypted under.

`Compatible` is what the program's README asks of the user: rewrap and rekey run alone.
Creates may run beside each other and beside an init, a listing beside anything.

## Runs

| Run | Instance | Shows |
|---|---|---|
| `rekey` | six back ends, 3 objects, 2 workers, 2 attempts | nothing readable is lost, a failed object rolls back, success retires the old key, through errors, cancellation and crashes |
| `rekey_live` | SSH, S3, GCS, 2 objects, 2 workers, 2 attempts, fair | every attempt returns; `Rekey` implements `KeyRotation` |
| `rekey_lost_reply` | S3, 1 attempt, ambiguous errors | violated: the clean-up deletes the generation just activated |
| `create` | three groups of settings, see below | manifests complete, objects intact |
| `create_live` | disk, SSH, S3, both formats, encrypted, fair | every run returns |
| `create_failed_save` | disk, SMB, WebDAV, 2 runs | violated: a partial chunk of a failed save is reused |
| `create_same_chunk` | disk, encrypted, no fault | violated: two workers mix nonce and ciphertext |
| `file` | all contents up to 5 bytes of 2 values, chunks of 2, threshold 4, 2 backups, 1 change | the chunks partition the file; a snapshot of an unchanged file gives it back for ever; a changing file yields objects that match their hashes, or an error |
| `file_empty` | the same, unchanged, disk, format 2 | violated: an empty file makes the backup fail |
| `verify` | 3 files over 2 objects, 2 workers, every state of the objects, every back end and key, fair | exact reports, no false alarm, errors with a cause; it returns |
| `restore` | files of one and two chunks over files of the user, every back end, every state of the objects, every fault | what is restored is what was backed up; what failed is gone or untouched; a failure has a cause |
| `repository` | 5 commands one after the other on disk, SMB, WebDAV and S3 with failures and deaths; 4 commands of 2 processes on every back end, listings paged on S3 and GCS | published snapshots stay readable; id, format, key and generation are kept; a listing is complete |

`create` checks three groups of settings (`SafeSettings` of `MCCreate`): `Concurrent`, two
processes on S3 or GCS in format 2, with and without encryption, under every fault;
`Retried`, two runs one after the other on SSH, the only back end that writes in place and
removes the object whatever call fails, with errors, cancellation and edits; `Single`, one unencrypted run of two workers on each back end in each format, with
errors and cancellation.

`repository` has three groups too (`RepositorySettings` of `MCRepository`): `Sequential`, one
process, init, create, rewrap and rekey with errors and deaths; `Concurrent`, two processes,
init, create and list with errors and lost replies, where a listing gets all names at once;
`Paged`, the same with errors on S3 and GCS. Processes are interchangeable there (symmetry).

The violated ones check a sentence of the program's README against what the code
does; `PROJECT.json` quotes each under "findings".

Bounds. Two workers give every interleaving of a pair, and three objects leave one in
the queue while two are in hand. Two attempts let a rekey meet what a crashed one left,
or start from a generation whose commit was reported as an error (SMB). In `MCCreate` the two files share a chunk (format 2) or all their
content (format 1), so that deduplication and concurrent saves of the same object
happen; the file of two chunks lets a run fail between them. Two runs let one meet what
another left. In `MCFile` the threshold is twice the chunk size, as in the code, and five
bytes reach every case: empty, below, at and above the threshold, a whole number of chunks
and a rest. In `MCVerify` one object belongs to two files and one hash is empty; one worker
may be reading while another fails. In `MCRestore` a file of two chunks comes before a file
that shares one of them, a recorded size is wrong, and a path contains the source twice. Five
commands are enough for init, create, a rekey that dies, another rekey, and a create that
deduplicates against its result. Deadlock is not checked: when its attempts, runs or commands
are used up, the system stops.

What the passing runs leave out is left out because it is known to go wrong, or because the
program warns of it:

- `create`: encryption with two workers on a back end that writes in place
  (`create_same_chunk`); retries on disk, SMB and WebDAV (`create_failed_save`); a process that dies
  while it writes in place, or whose removal of a failed save fails, which leaves a partial
  object as in `create_failed_save`; edits on disk, which stores whatever the file holds under
  the hash calculated before (`disk/object_repository.go:591`); encryption in format 1, where
  an ignored error uploads a truncated object (`s3/object_repository.go:460`); two processes on
  SSH, where the clean-up of one can remove what the other has published.
- `file`: changes during a backup where the hash is not compared (disk; format 1 on all back
  ends but WebDAV). There `PublishedHashesTrue` fails, and `RoundTrip` too: an object stored
  under another content's hash spoils later snapshots of a file that never changed again.
- `restore`: `RestoredIsBackedUp` and `FailedLeavesNothing` are claimed where each path begins
  with the source path and does not contain it again (`PathsPlain`); a removal that fails is
  allowed to leave a rest. No path is twice in a manifest: `WalkDir` comes to a file once.
- `repository`: `init --force` without a key, which removes the encryption and says so; two
  inits at once; lost replies to the `CreateConfig` of a rekey (`rekey_lost_reply`); and where
  `config.json` is rewritten in place (`InPlace`: disk, SMB and WebDAV) `SnapshotsReadable`
  excepts one torn by a failure or a crash, which nothing restores. `ListingComplete` excepts a
  manifest that its own create has taken back, which happens over SSH.
- `rekey`: over SMB nothing is ever deleted, so the two properties about deletion except it.

Fairness (`rekey_live`, `create_live`, `verify`). Weak fairness of each worker and of the main goroutine: the Go scheduler runs
whatever can run, and a call into the repository returns, well or badly (the clean-up has
a timeout of its own). Starting, cancelling, editing and crashing are never forced.

## Proofs

Every safety invariant and every action property that a passing run checks is also a theorem
checked by TLAPS, for every value of the constants: any number of files, objects, chunks,
workers, processes, runs and commands, and settings that combine back ends, formats, keys and
faults in any way, not only in the ones of the runs.

| Module | Theorems (`Spec => []...`) |
|---|---|
| `RekeyProofs` | `NoObjectLost` (`ReadableConfigComplete`), `RollsBack` (`FailedObjectRollsBack`), `OldKeyRetired` (`SuccessRetiresOldGeneration`), `TypeCorrect` |
| `RekeyRefinement` | `Refinement` (`RotatesAtomically`) |
| `CreateProofs` | `ManifestsAreComplete` (`ManifestsComplete`), `PublishedStaysIntact` (`Safe(setting) => PublishedIntact`), `TypeCorrect` |
| `FileProofs` | `ChunksArePartition` (`ChunksPartitionFile`), `HashesAreTrue` (`Compares => PublishedHashesTrue`), `RoundTripIsIdentity` (`Compares => RoundTrip`), `FailsOnlyWhenChanged` (`FailsOnlyIfChanged`), `TypeCorrect` |
| `VerifyProofs` | `ReportExact` (`ExactReport`), `AlarmsTrue` (`NoFalseAlarm`), `ErrorsCaused` (`ErrorHasCause`), `TypeCorrect` |
| `RestoreProofs` | `RestoredFilesAreBackedUp` (`RestoredIsBackedUp`), `FailedFilesLeaveNothing` (`FailedLeavesNothing`), `FailuresHaveCause` (`FailureHasCause`), `TypeCorrect` |
| `RepositoryProofs` | `SnapshotsStayReadable` (`Safe(setting) => SnapshotsReadable`), `IdentityIsKept` (`KeepsKey(setting) => ConfigKeepsIdentity`, an action property), `ListingIsComplete` (`ListingComplete`), `TypeCorrect` |

In each module `Inductive` shows `Spec => []IInv`, with one lemma per action and under it one
step per conjunct the action can disturb; the other theorems follow from `IInv`. Each `IInv`
was checked with TLC on the settings of the component's run, and on more where the theorem
claims more, before it was proved. What the six back ends do enters only through a few lemmas
about the records of traits (`SavedCells`, `ConfigMidStates`, `AbsentIsReported`,
`AllSizedAndRemoving` and the like).

### Rekey

The theorems assume `CleanupIsSafe`: an error of `CreateConfig` means that `config.json` was
not replaced, except on SMB, whose clean-up deletes nothing. (Over SSH a lost answer is a lost
connection: a crash of the client.) `rekey_lost_reply` shows that the assumption cannot be
dropped.

None of the three invariants is inductive. `IInv` adds: only one phase of `Do` has live workers
and an open channel (`PoolInv`); what `config.json` holds in each phase (`PhaseInv`);
generation numbers are bounded by the attempts made, and the new generation is never the one
read from (`Bounds`); and the heart of the argument, `ProgressInv`: while the group is not
cancelled, every live object waits in the queue, is in a worker's hands, or lies in the new
generation under the new key, so that when `Wait` returns on a live context all of them are
there. A cancelled caller breaks that conjunct but not the commit, because `CreateConfig`
refuses a cancelled context.

`Refinement` shows that `Rekey` implements `KeyRotation` with the map `gen <- config.gen`,
`key <- config.key`, `readable <- Complete(config.gen, config.key)`, under `AtomicSwitch` (SSH,
S3 and GCS, the back ends that replace `config.json` in one step, and no ambiguous errors). `KeyRotation` says that
*exactly* the same objects stay readable, which needs `FreshKeys` on top of `IInv`: no object
carries a key not yet generated, so that no leftover of a crashed attempt becomes readable by
chance.

### Snapshot creation

`ManifestsAreComplete` needs no condition: on every back end, with any faults, a readable
manifest lists every file. The feeder that stops on a cancelled context reports nothing; the
argument (`HashedInv`) is that, until an error is recorded, every file is in the feed, hashed, or
in the hands of a worker that hashes it, and that saving the manifest refuses a cancelled
context, which is the only reason to leave files in the feed.

`PublishedStaysIntact` holds in the settings `Safe` describes: those in which an object appears
whole (`WholeObjects`: any number of processes and any fault), and those in which it is written
in place by one process that does not die, removes what it failed to write, or has no second
run to meet it, and has one worker if it encrypts (`InPlaceAlone`). Every setting of `create`
is one of these. Only SSH removes what it failed to write whatever call fails, so that it alone
may have a second run in place. `create_failed_save` and `create_same_chunk` are settings outside, where the
property fails. `StoreInv` says that each part of a stored object is
written, or will be by a worker that has it open (`PartInv`); who wrote them (`WriterInv`); that
every piece of a hashed file is stored or still ahead of its worker (`DoneInv`); and that no
worker writes in place at what is published (`PublishedInv`).

### One file

`Compares` is the condition of `HashesAreTrue` and `RoundTripIsIdentity`: the back end compares
the hash when it saves (`validateHash`), or the file changes only between backups. All settings
of `file` have it; elsewhere the properties fail, as said above. `IInv` relates the chunks
collected so far to the content that was read (`Cut`, `Complete`) and the store to the
published chunks.

### Verification

`HandInv` says that a file is in the feed, in the hands of exactly one worker, or recorded;
`CountInv` that the total is the number of recorded files and that the bad ones among them are
reported, unless an error was recorded. Together they make `ExactReport` follow. `VerdictInv` and
`ErrorInv` say that whatever a worker or the result claims is backed by the stored objects,
which do not change.

### Restore

`PathsPlain`, the condition in `RestoredIsBackedUp` and `FailedLeavesNothing`, gives what
`ChangeSourcePath` owes them: every file goes to its place under the destination, and no two
to the same (`TargetsApart`, from `ReplacesPrefix`). `CopyInv` says that the open destination
holds what the objects copied so far decode to; `PlaceInv` says what lies at the places of the
files restored, failed and still to come, which is what makes the removal after one failure
harmless to the others. `TotalSizeOfHashes` is needed for `FailuresHaveCause`: intact objects
add up to the size the manifest should record.

### The composition

`KeepsKey` excludes `init --force` without a key; `Safe` also a rekey whose reply was lost. All
settings of `repository` have both. `IInv` has a part for every setting (`BaseInv`: types,
what each step of each command takes for granted, what a listing has seen), one under
`KeepsKey` (`IdentityInv`: what an init or a rewrap is about to write fits what is there), and
one under `Safe` (`KeyInv`: the configuration in force, and also one that is about to be
written, opens every encrypted snapshot that is published or about to be; its generation holds no
other key, and the next one nothing that the next rekey will not overwrite; and `config.json` is
torn only where it is rewritten in place). Over SMB `config.json` may already be what its writer
has in hand; a rekey that fails then is harmless because SMB deletes nothing. `ListInv` divides
what was published before a listing into what it has read, what is left on its page and what is
on later pages; where there are pages no manifest is ever taken back, and elsewhere one that is
(`Retracted`) never comes back. `Compatible` carries the weight: rewrap and rekey run alone.

### Induction over data

TLAPS cannot use the induction theorems of its library, which take a predicate as a parameter.
`SequenceFacts` does without: `LeastNumber` (a set of natural numbers has a least element) gives
`InductionOverNat` about a *set* of numbers, and a statement P(n) is proved for all n by showing
that {n \in Nat : P(n)} has 0 and with each number the next. This is how recursive functions are
handled: first that a function satisfying the equation exists (`FlattensExists`, `TotalsExist`,
`ReplacesExist`), then what it computes (`FlattenPartition`, `TotalSizeOfHashes`,
`ReplacesPrefix`).

### Only model-checked

Liveness (`EveryAttemptReturns`, `EveryCreateReturns`, `EveryVerifyReturns`), which needs
fairness and ENABLED; and the four violations, which are counterexamples.

## Not modelled, and plan

- Compression codecs and AES-GCM: libraries; the models use that decoding inverts encoding and
  that an altered ciphertext does not authenticate.
- Generating and writing RSA key files, the command line, application handlers and library
  facade, middlewares and observability: wiring and I/O without state of the repository.
- Connecting to the back ends. A connection that breaks is a failing call or, over SSH, a
  crash of the client. A request that the service applies long after the client gave up is
  not modelled.
- What commands print: the order, sizes and counts of listings, the count of saved files
  (`create.go:108`, an unsynchronised append).

Order of the work:

1. (done) rekey, its store, its abstract specification, proofs and refinement;
2. (done) snapshot creation on all back ends;
3. (done) verification, restore, the arithmetic of chunking, init, rewrap and listing, and the
   composition of all commands;
4. (done) proofs of all invariants and action properties of the passing runs;
5. the refinement of the rekey step of `Repository` by `Rekey`, which so far only meets it
   through `KeyRotation`; more general settings in which snapshot creation is safe.
