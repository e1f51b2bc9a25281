------------------------------ MODULE FileBackup ------------------------------
(***************************************************************************)
(* One file, byte for byte, from the source directory into the repository  *)
(* and back: Explore records its size; Calculate cuts it into chunks and   *)
(* hashes them (source_explorer.go, hash_calculator_factory.go);           *)
(* saveFileObjects stores the chunks AlreadyExists does not find, each     *)
(* read from the source once more (chunkio/source.go, object/encoder.go);  *)
(* the manifest is published; Restore concatenates the chunks and compares *)
(* the size.  The file is backed up several times and may be changed       *)
(* between any two of these steps.                                         *)
(*                                                                         *)
(* Content is a sequence of bytes, and the hash of an encoded content is   *)
(* the content itself: what matters is that equal hashes mean equal        *)
(* content.  Other files, workers and faults are in CreateSnapshot.        *)
(***************************************************************************)
EXTENDS Naturals, Sequences, FiniteSets, Functions, SequencesExt, FiniteSetsExt, ObjectStore

CONSTANTS
  Byte,           \* the values of a byte
  ChunkSize,      \* chunk.go: 4 MiB
  ChunkThreshold, \* chunk.go: 8 MiB
  MaxSize,        \* bound: size of the file
  MaxEdits,       \* bound: how often the file changes
  MaxRuns,        \* bound: how often it is backed up
  Settings        \* back end, format version, and when the file may change

ASSUME FileSizesAssumption ==
  /\ ChunkSize \in Nat \ {0} /\ ChunkThreshold \in Nat \ {0}
  /\ MaxSize \in Nat /\ MaxEdits \in Nat /\ MaxRuns \in Nat
ASSUME FileSettingsAssumption ==
  Settings \subseteq [backend : AllBackends, format : {1, 2}, edits : {"between", "any"}]

Contents == BoundedSeq(Byte, MaxSize)

VARIABLES
  setting,   \* never changes
  file,      \* the content of the source file now
  objects,   \* hash -> content stored under it
  manifests, \* published: recorded size and chunks, and what the file held
  pc,        \* where the backup is
  size,      \* File.size, as Explore saw it
  opened,    \* the size CalculateChunks saw when it opened the file
  chunks,    \* File.chunks so far
  saved,     \* how many of them are saved
  before,    \* what the file held when the run started
  dirty,     \* the file changed during the run
  runs,      \* how often it was backed up
  edits      \* how often the file changed

history == <<before, dirty, runs, edits>>
vars == <<setting, file, objects, manifests, pc, size, opened, chunks, saved, history>>

Traits ==
  IF setting.format = 1 THEN SaveOf(setting.backend) ELSE SaveChunkOf(setting.backend)

Chunk(hash, offset, n) == [hash |-> hash, offset |-> offset, size |-> n]
Chunks == [hash : Contents, offset : 0..MaxSize, size : 0..MaxSize]
Manifests == [size : 0..MaxSize, chunks : Seq(Chunks), content : Contents, dirty : BOOLEAN]

\* io.SectionReader: n bytes from offset, fewer at the end of the file.
Section(content, offset, n) ==
  SubSeq(content, offset + 1, Min({offset + n, Len(content)}))

\* Types; a chunk saved is a chunk there is.
TypeOK ==
  /\ setting \in Settings
  /\ file \in Contents /\ before \in Contents
  /\ DOMAIN objects \subseteq Contents /\ objects \in [DOMAIN objects -> Contents]
  /\ manifests \in Seq(Manifests)
  /\ pc \in {"idle", "calculate", "hash", "save", "failed"}
  /\ size \in 0..MaxSize /\ opened \in 0..MaxSize
  /\ chunks \in Seq(Chunks)
  /\ saved \in 0..Len(chunks)
  /\ dirty \in BOOLEAN /\ runs \in 0..MaxRuns /\ edits \in 0..MaxEdits

Init ==
  /\ setting \in Settings
  /\ file \in Contents /\ before = file
  /\ objects = <<>> /\ manifests = <<>> /\ chunks = <<>>
  /\ pc = "idle" /\ size = 0 /\ opened = 0 /\ saved = 0
  /\ dirty = FALSE /\ runs = 0 /\ edits = 0

-----------------------------------------------------------------------------

Idle == pc \in {"idle", "failed"}

\* Mutant: the position among the chunks survives a failed run.
ResumesAtSaved ==
  /\ Idle /\ runs < MaxRuns
  /\ pc' = "calculate" /\ size' = Len(file) /\ runs' = runs + 1
  /\ chunks' = <<>> /\ saved' = saved /\ before' = file /\ dirty' = FALSE
  /\ UNCHANGED <<setting, file, objects, manifests, opened, edits>>

\* Explore: the file and its size.
Explore ==
  /\ Idle /\ runs < MaxRuns
  /\ pc' = "calculate" /\ size' = Len(file) /\ runs' = runs + 1
  /\ chunks' = <<>> /\ saved' = 0 /\ before' = file /\ dirty' = FALSE
  /\ UNCHANGED <<setting, file, objects, manifests, opened, edits>>

\* The factory's calculator for the format, and CalculateHash: the whole file is one
\* object.  In format 2 it is also the only chunk, of the size Explore saw.
CalculateHash ==
  /\ pc = "calculate" /\ (setting.format = 1 \/ size < ChunkThreshold)
  /\ chunks' = <<Chunk(file, 0, size)>>
  /\ pc' = "save"
  /\ UNCHANGED <<setting, file, objects, manifests, size, opened, saved, history>>

\* CalculateChunks: the file is opened and its size taken again.
OpenForChunks ==
  /\ pc = "calculate" /\ setting.format = 2 /\ size >= ChunkThreshold
  /\ opened' = Len(file) /\ pc' = "hash"
  /\ UNCHANGED <<setting, file, objects, manifests, size, chunks, saved, history>>

Offset == Len(chunks) * ChunkSize

\* Mutant: offset <= fileSize, so that a file of whole chunks gets an empty one.
OneChunkTooMany ==
  /\ pc = "hash" /\ Offset <= opened
  /\ LET n == Min({ChunkSize, opened - Offset})
     IN  chunks' = Append(chunks, Chunk(Section(file, Offset, n), Offset, n))
  /\ UNCHANGED <<setting, file, objects, manifests, pc, size, opened, saved, history>>

\* The next chunk is read and hashed.
HashChunk ==
  /\ pc = "hash" /\ Offset < opened
  /\ LET n == Min({ChunkSize, opened - Offset})
     IN  chunks' = Append(chunks, Chunk(Section(file, Offset, n), Offset, n))
  /\ UNCHANGED <<setting, file, objects, manifests, pc, size, opened, saved, history>>

\* A file found empty has no chunks: saveFileObjects then asks for the object of the
\* empty hash, which AlreadyExists refuses.
ChunksDone ==
  /\ pc = "hash" /\ Offset >= opened
  /\ pc' = IF chunks = <<>> THEN "failed" ELSE "save"
  /\ UNCHANGED <<setting, file, objects, manifests, size, opened, chunks, saved, history>>

Current == chunks[saved + 1]

AlreadyExists(hash) == hash \in DOMAIN objects

\* The chunk is in the repository already: nothing is read.
SkipChunk ==
  /\ pc = "save" /\ saved < Len(chunks) /\ AlreadyExists(Current.hash)
  /\ saved' = saved + 1
  /\ UNCHANGED <<setting, file, objects, manifests, pc, size, opened, chunks, history>>

\* Mutant: <= 0 became <= 1.
RefusesSmallRange(c) == c.size <= 1 \/ c.offset > Len(file) \/ c.size > Len(file) - c.offset

\* OpenSource: the range must be one the file has.
RangeRefused(c) == c.size <= 0 \/ c.offset > Len(file) \/ c.size > Len(file) - c.offset

\* What is read and encoded: a section in format 2, the whole file in format 1.
Reread ==
  IF setting.format = 1 THEN file ELSE Section(file, Current.offset, Current.size)

\* Mutant: the hash is not compared.
HashNotCompared == setting.format = 2 /\ RangeRefused(Current)

\* validateHash, where the back end has it.
ChunkRefused ==
  \/ setting.format = 2 /\ RangeRefused(Current)
  \/ Traits.validates /\ Reread # Current.hash

\* SaveChunk, or Save in format 1.
SaveChunk ==
  /\ pc = "save" /\ saved < Len(chunks) /\ ~AlreadyExists(Current.hash) /\ ~ChunkRefused
  /\ objects' = [h \in DOMAIN objects \cup {Current.hash} |->
                   IF h = Current.hash THEN Reread ELSE objects[h]]
  /\ saved' = saved + 1
  /\ UNCHANGED <<setting, file, manifests, pc, size, opened, chunks, history>>

\* It returns an error, and so does Create.
SaveFails ==
  /\ pc = "save" /\ saved < Len(chunks) /\ ~AlreadyExists(Current.hash) /\ ChunkRefused
  /\ pc' = "failed"
  /\ UNCHANGED <<setting, file, objects, manifests, size, opened, chunks, saved, history>>

\* Mutant: the manifest records the size CalculateChunks saw, also where it did not run.
PublishesOpenedSize ==
  /\ pc = "save" /\ saved = Len(chunks)
  /\ manifests' = Append(manifests,
                    [size |-> opened, chunks |-> chunks, content |-> before, dirty |-> dirty])
  /\ pc' = "idle"
  /\ UNCHANGED <<setting, file, objects, size, opened, chunks, saved, history>>

\* The manifest, with the size of Explore.
Publish ==
  /\ pc = "save" /\ saved = Len(chunks)
  /\ manifests' = Append(manifests,
                    [size |-> size, chunks |-> chunks, content |-> before, dirty |-> dirty])
  /\ pc' = "idle"
  /\ UNCHANGED <<setting, file, objects, size, opened, chunks, saved, history>>

\* The user changes the file, while no backup runs or at any time.
Edit ==
  /\ edits < MaxEdits
  /\ setting.edits = "any" \/ Idle
  /\ \E c \in Contents \ {file} : file' = c
  /\ edits' = edits + 1 /\ dirty' = TRUE
  /\ UNCHANGED <<setting, objects, manifests, pc, size, opened, chunks, saved, before, runs>>

Next ==
  \/ Explore \/ CalculateHash \/ OpenForChunks \/ HashChunk \/ ChunksDone
  \/ SkipChunk \/ SaveChunk \/ SaveFails \/ Publish \/ Edit

Spec == Init /\ [][Next]_vars

-----------------------------------------------------------------------------
(* Properties.                                                              *)

\* RestoreObject: the objects one after the other.
Restored(m) == FlattenSeq([i \in 1..Len(m.chunks) |-> objects[m.chunks[i].hash]])

CeilDiv(n, d) == (n + d - 1) \div d

\* The chunks of a file that did not change are a partition of it: in order, without gap
\* or overlap, as many as needed, none empty and none larger than ChunkSize; a file below
\* the threshold, and any file in format 1, is one object (source_explorer.go:24-96,
\* hash_calculator_factory.go:59-79; README.md:634-645).
ChunksPartitionFile ==
  pc = "save" /\ ~dirty =>
    /\ FlattenSeq([i \in 1..Len(chunks) |-> chunks[i].hash]) = file
    /\ \A i \in 1..Len(chunks) :
         /\ chunks[i].size = Len(chunks[i].hash)
         /\ i < Len(chunks) => chunks[i + 1].offset = chunks[i].offset + chunks[i].size
    /\ IF setting.format = 1 \/ Len(file) < ChunkThreshold
       THEN Len(chunks) = 1
       ELSE /\ Len(chunks) = CeilDiv(Len(file), ChunkSize)
            /\ \A i \in 1..Len(chunks) : chunks[i].size \in 1..ChunkSize

\* A snapshot taken while the file did not change gives back exactly that file, with the
\* size recorded, for ever after: whatever is backed up later, and whatever was backed up
\* before while the file was changing.  (Checked with changes at any time where the back
\* end compares the hash when it saves; on the others only between backups, because an
\* object stored under another content's hash spoils every later snapshot that shares it.)
RoundTrip ==
  \A i \in 1..Len(manifests) :
    ~manifests[i].dirty =>
      /\ Restored(manifests[i]) = manifests[i].content
      /\ manifests[i].size = Len(manifests[i].content)

\* A snapshot taken while the file was changing refers to objects that are what their
\* hashes say, on the back ends that compare: verification accepts it.  (Its size may be
\* that of another version, and restore then refuses it.)
PublishedHashesTrue ==
  \A i \in 1..Len(manifests) :
    \A k \in 1..Len(manifests[i].chunks) :
      LET h == manifests[i].chunks[k].hash IN objects[h] = h

\* A backup fails because of the file only if it changed meanwhile, or is empty in
\* format 2.
FailsOnlyIfChanged == pc = "failed" => dirty \/ (setting.format = 2 /\ file = <<>>)

\* README.md:636: "Smaller files are stored as a single object": so no file that stays as
\* it is makes the backup fail.
SmallerFilesStored == pc = "failed" => dirty

=============================================================================
