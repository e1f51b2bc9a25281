----------------------------- MODULE FileProofs -----------------------------
(***************************************************************************)
(* Machine-checked proofs about FileBackup, for files, chunks and          *)
(* thresholds of any size and any number of backups.                       *)
(***************************************************************************)
EXTENDS FileBackup, SequenceFacts

-----------------------------------------------------------------------------
(* The inductive invariant.                                                 *)

\* The back end compares the hash when it saves, or nobody changes the file meanwhile.
Compares == setting.edits = "between" \/ Traits.validates

\* The i-th chunk of a file with content c.
Piece(c, i) ==
  LET o == (i - 1) * ChunkSize
      n == Min({ChunkSize, Len(c) - o})
  IN  Chunk(Section(c, o, n), o, n)

\* cs are the first chunks of c.
Cut(cs, c) == \A i \in 1..Len(cs) : (i - 1) * ChunkSize < Len(c) /\ cs[i] = Piece(c, i)

\* And all of them; a small file is one chunk.
Complete(cs, c) ==
  IF setting.format = 1 \/ Len(c) < ChunkThreshold
  THEN cs = <<Chunk(c, 0, Len(c))>>
  ELSE Cut(cs, c) /\ cs # <<>> /\ Len(c) <= Len(cs) * ChunkSize

\* What a run knows of the file, as long as it does not change.
RunInv ==
  /\ ~Idle /\ ~dirty => file = before /\ size = Len(file)
  /\ ~Idle /\ setting.edits = "between" => ~dirty
  /\ pc = "calculate" => chunks = <<>> /\ saved = 0
  /\ pc = "hash" => saved = 0 /\ setting.format = 2 /\ size >= ChunkThreshold
  /\ pc = "hash" /\ ~dirty => opened = Len(file) /\ Cut(chunks, file)
  /\ pc = "save" /\ ~dirty => Complete(chunks, file)

\* Every chunk that is saved or published is stored, under the hash of its content.
StoreInv ==
  /\ pc = "save" => \A k \in 1..saved : chunks[k].hash \in DOMAIN objects
  /\ \A i \in 1..Len(manifests) : \A k \in 1..Len(manifests[i].chunks) :
       manifests[i].chunks[k].hash \in DOMAIN objects
  /\ Compares => \A h \in DOMAIN objects : objects[h] = h

\* What a snapshot of a file that did not change records.
ManifestInv ==
  \A i \in 1..Len(manifests) : ~manifests[i].dirty =>
    /\ Complete(manifests[i].chunks, manifests[i].content)
    /\ manifests[i].size = Len(manifests[i].content)

IInv == TypeOK /\ RunInv /\ StoreInv /\ ManifestInv /\ FailsOnlyIfChanged

-----------------------------------------------------------------------------
(* Facts about the operators.                                               *)

\* The contents of files are the sequences of bytes up to MaxSize.
LEMMA ContentsFacts == \A c : c \in Contents <=> c \in Seq(Byte) /\ Len(c) <= MaxSize
<1> SUFFICES ASSUME NEW c PROVE c \in Contents <=> c \in Seq(Byte) /\ Len(c) <= MaxSize
  OBVIOUS
<1>1. Contents = UNION {[1..m -> Byte] : m \in 0..MaxSize}
  BY DEF Contents, BoundedSeq, SeqOf
<1>2. c \in Contents <=> \E m \in 0..MaxSize : c \in [1..m -> Byte]
  BY <1>1
<1>3. ASSUME NEW m \in 0..MaxSize, c \in [1..m -> Byte] PROVE c \in Seq(Byte) /\ Len(c) <= MaxSize
  BY <1>3, FileSizesAssumption
<1>4. ASSUME c \in Seq(Byte), Len(c) <= MaxSize PROVE \E m \in 0..MaxSize : c \in [1..m -> Byte]
  <2>1. Len(c) \in 0..MaxSize /\ c \in [1..Len(c) -> Byte]
    BY <1>4, FileSizesAssumption
  <2> QED
    BY <2>1
<1> QED
  BY <1>2, <1>3, <1>4

\* The smaller of two numbers.
LEMMA MinFacts ==
  ASSUME NEW a \in Nat, NEW b \in Nat
  PROVE  Min({a, b}) = IF a <= b THEN a ELSE b
BY DEF Min

\* A section is a content; a section within the file has the length asked for.
LEMMA SectionFacts ==
  ASSUME NEW c \in Contents, NEW o \in Nat, NEW n \in Nat
  PROVE  /\ Section(c, o, n) \in Contents
         /\ o + n <= Len(c) => /\ Section(c, o, n) = SubSeq(c, o + 1, o + n)
                               /\ Len(Section(c, o, n)) = n
<1>1. c \in Seq(Byte) /\ Len(c) <= MaxSize /\ Len(c) \in Nat /\ MaxSize \in Nat
  BY ContentsFacts, FileSizesAssumption
<1> DEFINE e == Min({o + n, Len(c)})
<1>2. e \in Nat /\ e <= Len(c) /\ (o + n <= Len(c) => e = o + n)
  BY <1>1, MinFacts
<1>3. Section(c, o, n) = SubSeq(c, o + 1, e)
  BY DEF Section
<1> HIDE DEF e
<1>4. /\ SubSeq(c, o + 1, e) \in Seq(Byte)
      /\ Len(SubSeq(c, o + 1, e)) = IF o + 1 <= e THEN e - o ELSE 0
  BY <1>1, <1>2
<1>5. Section(c, o, n) \in Contents
  <2>1. Len(SubSeq(c, o + 1, e)) <= MaxSize
    BY <1>1, <1>2, <1>4
  <2> QED
    BY <1>3, <1>4, <2>1, ContentsFacts
<1> QED
  BY <1>2, <1>3, <1>4, <1>5

\* The section that is the file.
LEMMA WholeSection == ASSUME NEW c \in Contents PROVE Section(c, 0, Len(c)) = c
<1>1. c \in Seq(Byte) /\ Len(c) \in Nat
  BY ContentsFacts
<1>2. Section(c, 0, Len(c)) = SubSeq(c, 1, Len(c))
  BY <1>1, MinFacts DEF Section
<1> QED
  BY <1>1, <1>2

\* A chunk of a file: not empty, within the file, and full unless it is the last.
LEMMA PieceFacts ==
  ASSUME NEW c \in Contents, NEW i \in Nat \ {0}, (i - 1) * ChunkSize < Len(c),
         NEW p, p = Piece(c, i)
  PROVE  /\ p \in Chunks /\ p.offset = (i - 1) * ChunkSize /\ p.offset \in Nat
         /\ p.size \in 1..ChunkSize /\ p.offset + p.size <= Len(c)
         /\ p.offset + p.size = IF i * ChunkSize <= Len(c) THEN i * ChunkSize ELSE Len(c)
         /\ p.hash = Section(c, p.offset, p.size) /\ Len(p.hash) = p.size
         /\ p.hash = SubSeq(c, p.offset + 1, p.offset + p.size)
<1> DEFINE o == (i - 1) * ChunkSize
           n == Min({ChunkSize, Len(c) - o})
<1>1. Len(c) \in Nat /\ Len(c) <= MaxSize /\ ChunkSize \in Nat \ {0} /\ MaxSize \in Nat
  BY ContentsFacts, FileSizesAssumption
<1>2. o \in Nat /\ o < Len(c) /\ i * ChunkSize = o + ChunkSize
  BY <1>1
<1> HIDE DEF o
<1>3. /\ n = IF ChunkSize <= Len(c) - o THEN ChunkSize ELSE Len(c) - o
      /\ n \in Nat /\ n \in 1..ChunkSize /\ o + n <= Len(c)
  <2>1. Len(c) - o \in Nat
    BY <1>1, <1>2
  <2>2. n = IF ChunkSize <= Len(c) - o THEN ChunkSize ELSE Len(c) - o
    BY <1>1, <2>1, MinFacts
  <2> QED
    BY <1>1, <1>2, <2>2
<1>4. p = [hash |-> Section(c, o, n), offset |-> o, size |-> n]
  BY DEF Piece, Chunk, o
<1> HIDE DEF n
<1>5. /\ Section(c, o, n) \in Contents /\ Len(Section(c, o, n)) = n
      /\ Section(c, o, n) = SubSeq(c, o + 1, o + n)
  <2>1. o \in Nat /\ n \in Nat /\ o + n <= Len(c)
    BY <1>2, <1>3
  <2>2. Section(c, o, n) \in Contents
    BY <2>1, SectionFacts
  <2> QED
    BY <2>1, <2>2, SectionFacts
<1>6. p \in Chunks
  BY <1>1, <1>2, <1>3, <1>4, <1>5 DEF Chunks
<1>7. o + n = IF i * ChunkSize <= Len(c) THEN i * ChunkSize ELSE Len(c)
  BY <1>1, <1>2, <1>3
<1> QED
  <2>1. p.hash = Section(c, o, n) /\ p.offset = o /\ p.size = n
    BY <1>4
  <2>2. o = (i - 1) * ChunkSize
    BY DEF o
  <2> QED
    BY <1>2, <1>3, <1>5, <1>6, <1>7, <2>1, <2>2

\* The hashes of all chunks of a file, one after the other, are the file.
LEMMA CompleteFlattens ==
  ASSUME NEW c \in Contents, NEW cs \in Seq(Chunks), Complete(cs, c)
  PROVE  /\ cs # <<>>
         /\ FlattenSeq([i \in 1..Len(cs) |-> cs[i].hash]) = c
<1> DEFINE ss == [i \in 1..Len(cs) |-> cs[i].hash]
<1>1. Len(cs) \in Nat /\ Len(ss) = Len(cs)
  OBVIOUS
<1>2. c \in Seq(Byte) /\ Len(c) \in Nat /\ ChunkSize \in Nat \ {0}
  BY ContentsFacts, FileSizesAssumption
<1>3. CASE setting.format = 1 \/ Len(c) < ChunkThreshold
  <2>1. cs = <<Chunk(c, 0, Len(c))>>
    BY <1>3 DEF Complete
  <2>2. Len(cs) = 1 /\ cs[1].hash = c /\ cs # <<>>
    BY <2>1 DEF Chunk
  <2> DEFINE ends == [j \in 0..1 |-> IF j = 0 THEN 0 ELSE Len(c)]
  <2>3. ends \in [0..1 -> Nat] /\ ends[0] = 0 /\ ends[1] = Len(c)
    BY <1>2
  <2>4. ss[1] = SubSeq(c, 1, Len(c))
    BY <1>2, <2>2
  <2> HIDE DEF ends, ss
  <2>5. \A i \in 1..1 : /\ ends[i - 1] <= ends[i] /\ ends[i] <= Len(c)
                        /\ ss[i] = SubSeq(c, ends[i - 1] + 1, ends[i])
    <3> TAKE i \in 1..1
    <3>1. i = 1 /\ i - 1 = 0 /\ ends[i - 1] + 1 = 1
      BY <2>3
    <3> QED
      BY <1>2, <2>3, <2>4, <3>1
  <2>6. FlattenSeq(ss) = c
    <3>1. Len(ss) = 1 /\ 1 \in Nat /\ 1 # 0
      BY <1>1, <2>2
    <3> QED
      BY <1>2, <2>3, <2>5, <3>1, FlattenPartition
  <2> QED
    BY <2>2, <2>6 DEF ss
<1>4. CASE ~(setting.format = 1 \/ Len(c) < ChunkThreshold)
  <2>1. Cut(cs, c) /\ cs # <<>> /\ Len(c) <= Len(cs) * ChunkSize
    BY <1>4 DEF Complete
  <2> DEFINE n == Len(cs)
             ends == [j \in 0..n |-> IF j = 0 THEN 0 ELSE cs[j].offset + cs[j].size]
  <2>2. ASSUME NEW i \in 1..n
        PROVE  /\ (i - 1) * ChunkSize < Len(c)
               /\ cs[i].offset = (i - 1) * ChunkSize /\ cs[i].offset \in Nat
               /\ cs[i].size \in 1..ChunkSize /\ cs[i].offset + cs[i].size <= Len(c)
               /\ cs[i].offset + cs[i].size = IF i * ChunkSize <= Len(c) THEN i * ChunkSize ELSE Len(c)
               /\ cs[i].hash = SubSeq(c, cs[i].offset + 1, cs[i].offset + cs[i].size)
    <3>1. i \in Nat \ {0} /\ (i - 1) * ChunkSize < Len(c) /\ cs[i] = Piece(c, i)
      BY <1>1, <2>1 DEF Cut
    <3> QED
      BY <3>1, PieceFacts
  <2>3. n \in Nat /\ n # 0 /\ Len(c) <= n * ChunkSize
    BY <1>1, <2>1
  <2>4. ends \in [0..n -> Nat] /\ ends[0] = 0 /\ \A j \in 1..n : ends[j] = cs[j].offset + cs[j].size
    BY <1>2, <2>2, <2>3
  <2>5. \A i \in 1..n : ss[i] = cs[i].hash
    OBVIOUS
  <2> HIDE DEF ends, ss, n
  <2>6. ends[n] = Len(c)
    BY <1>2, <2>2, <2>3, <2>4
  <2>7. \A i \in 1..n : ends[i - 1] = cs[i].offset
    <3> TAKE i \in 1..n
    <3>1. CASE i = 1
      <4>1. i - 1 = 0 /\ (i - 1) * ChunkSize = 0
        BY <1>2, <3>1
      <4> QED
        BY <2>2, <2>4, <4>1
    <3>2. CASE i # 1
      <4>1. i - 1 \in 1..n
        BY <2>3, <3>2
      <4>2. (i - 1) * ChunkSize < Len(c) /\ cs[i].offset = (i - 1) * ChunkSize
        BY <2>2
      <4>3. cs[i - 1].offset + cs[i - 1].size = (i - 1) * ChunkSize
        BY <1>2, <2>2, <2>3, <4>1, <4>2
      <4> QED
        BY <2>4, <4>1, <4>2, <4>3
    <3> QED
      BY <3>1, <3>2
  <2>8. \A i \in 1..n : /\ ends[i - 1] <= ends[i] /\ ends[i] <= Len(c)
                        /\ ss[i] = SubSeq(c, ends[i - 1] + 1, ends[i])
    <3> TAKE i \in 1..n
    <3>1. /\ ends[i - 1] = cs[i].offset /\ ends[i] = cs[i].offset + cs[i].size
          /\ ss[i] = cs[i].hash
      BY <2>4, <2>5, <2>7
    <3>2. /\ cs[i].offset \in Nat /\ cs[i].size \in 1..ChunkSize /\ cs[i].offset + cs[i].size <= Len(c)
          /\ cs[i].hash = SubSeq(c, cs[i].offset + 1, cs[i].offset + cs[i].size)
      BY <2>2
    <3> QED
      BY <1>2, <3>1, <3>2
  <2>9. FlattenSeq(ss) = c
    BY <1>1, <1>2, <2>3, <2>4, <2>6, <2>8, FlattenPartition DEF n
  <2> QED
    BY <2>1, <2>9 DEF ss
<1> QED
  BY <1>3, <1>4

-----------------------------------------------------------------------------
(* The steps.                                                               *)

\* What is known wherever a step is taken.
LEMMA TypeFacts ==
  ASSUME TypeOK
  PROVE  /\ file \in Contents /\ Len(file) \in 0..MaxSize /\ Len(chunks) \in Nat
         /\ setting.format \in {1, 2} /\ setting.edits \in {"between", "any"}
         /\ ChunkSize \in Nat \ {0} /\ ChunkThreshold \in Nat \ {0} /\ MaxSize \in Nat
<1>1. file \in Contents /\ chunks \in Seq(Chunks) /\ setting \in Settings
  BY DEF TypeOK
<1>2. Len(file) \in Nat /\ Len(file) <= MaxSize
  BY <1>1, ContentsFacts
<1> QED
  BY <1>1, <1>2, FileSizesAssumption, FileSettingsAssumption

\* The frame of the steps that neither save nor publish: what is stored and published stays.
LEMMA StoreFrame ==
  ASSUME IInv, UNCHANGED <<setting, objects, manifests>>,
         pc' = "save" => ((pc = "save" /\ chunks' = chunks) \/ saved' = 0) /\ saved' = saved
  PROVE  StoreInv' /\ ManifestInv'
<1>1. StoreInv /\ ManifestInv
  BY DEF IInv
<1>2. Compares' = Compares
  BY DEF Compares, Traits
<1>3. pc' = "save" => \A k \in 1..saved' : chunks'[k].hash \in DOMAIN objects
  BY <1>1 DEF StoreInv
<1>4. StoreInv'
  BY <1>1, <1>2, <1>3 DEF StoreInv
<1>5. ManifestInv'
  BY <1>1 DEF ManifestInv, Complete
<1> QED
  BY <1>4, <1>5

\* The file is changed: nothing is claimed of the run any more.
LEMMA EditInv == ASSUME IInv, Edit PROVE IInv'
<1>1. /\ TypeOK /\ edits < MaxEdits /\ (setting.edits = "any" \/ Idle) /\ dirty' = TRUE
      /\ edits' = edits + 1 /\ file' \in Contents
      /\ UNCHANGED <<setting, objects, manifests, pc, size, opened, chunks, saved, before, runs>>
  BY DEF IInv, Edit
<1>2. TypeOK'
  BY <1>1, FileSizesAssumption DEF TypeOK
<1>3. RunInv'
  BY <1>1 DEF IInv, RunInv, Idle
<1>4. StoreInv' /\ ManifestInv'
  <2>1. pc' = "save" => ((pc = "save" /\ chunks' = chunks) \/ saved' = 0) /\ saved' = saved
    BY <1>1
  <2> QED
    BY <1>1, <2>1, StoreFrame
<1>5. FailsOnlyIfChanged'
  BY <1>1 DEF FailsOnlyIfChanged
<1> QED
  BY <1>2, <1>3, <1>4, <1>5 DEF IInv

\* A backup starts.
LEMMA ExploreInv == ASSUME IInv, Explore PROVE IInv'
<1>1. /\ TypeOK /\ runs < MaxRuns /\ pc' = "calculate" /\ size' = Len(file) /\ runs' = runs + 1
      /\ chunks' = <<>> /\ saved' = 0 /\ before' = file /\ dirty' = FALSE
      /\ UNCHANGED <<setting, file, objects, manifests, opened, edits>>
  BY DEF IInv, Explore
<1>2. TypeOK'
  <2>1. chunks' \in Seq(Chunks) /\ saved' \in 0..Len(chunks')
    BY <1>1
  <2>2. size' \in 0..MaxSize /\ before' \in Contents
    BY <1>1, TypeFacts
  <2>3. runs' \in 0..MaxRuns
    BY <1>1, FileSizesAssumption DEF TypeOK
  <2> QED
    BY <1>1, <2>1, <2>2, <2>3 DEF TypeOK
<1>3. RunInv'
  BY <1>1 DEF RunInv
<1>4. StoreInv' /\ ManifestInv'
  BY <1>1, StoreFrame
<1>5. FailsOnlyIfChanged'
  BY <1>1 DEF FailsOnlyIfChanged
<1> QED
  BY <1>2, <1>3, <1>4, <1>5 DEF IInv

\* A file that is not cut is one chunk.
LEMMA CalculateHashInv == ASSUME IInv, CalculateHash PROVE IInv'
<1>1. /\ TypeOK /\ RunInv /\ pc = "calculate" /\ (setting.format = 1 \/ size < ChunkThreshold)
      /\ chunks' = <<Chunk(file, 0, size)>> /\ pc' = "save"
      /\ UNCHANGED <<setting, file, objects, manifests, size, opened, saved, before, dirty, runs, edits>>
  BY DEF IInv, CalculateHash, history
<1>2. saved = 0 /\ ~Idle
  BY <1>1 DEF RunInv, Idle
<1>3. Chunk(file, 0, size) \in Chunks
  BY <1>1, FileSizesAssumption DEF TypeOK, Chunk, Chunks
<1>4. TypeOK'
  <2>1. chunks' \in Seq(Chunks) /\ saved' \in 0..Len(chunks')
    BY <1>1, <1>2, <1>3
  <2> QED
    BY <1>1, <2>1 DEF TypeOK
<1>5. RunInv'
  <2>1. ~dirty => file = before /\ size = Len(file)
    BY <1>1, <1>2 DEF RunInv
  <2>2. ~dirty => Complete(chunks, file)'
    BY <1>1, <2>1 DEF Complete
  <2> QED
    BY <1>1, <1>2, <2>1, <2>2 DEF RunInv, Idle
<1>6. StoreInv' /\ ManifestInv'
  BY <1>1, <1>2, StoreFrame
<1>7. FailsOnlyIfChanged'
  BY <1>1 DEF FailsOnlyIfChanged
<1> QED
  BY <1>4, <1>5, <1>6, <1>7 DEF IInv

\* A large file is opened; no chunk is cut yet.
LEMMA OpenForChunksInv == ASSUME IInv, OpenForChunks PROVE IInv'
<1>1. /\ TypeOK /\ RunInv /\ pc = "calculate" /\ setting.format = 2 /\ size >= ChunkThreshold
      /\ opened' = Len(file) /\ pc' = "hash"
      /\ UNCHANGED <<setting, file, objects, manifests, size, chunks, saved, before, dirty, runs, edits>>
  BY DEF IInv, OpenForChunks, history
<1>2. saved = 0 /\ ~Idle /\ chunks = <<>>
  BY <1>1 DEF RunInv, Idle
<1>3. TypeOK'
  BY <1>1, TypeFacts DEF TypeOK
<1>4. RunInv'
  <2>1. Cut(chunks, file)'
    BY <1>1, <1>2 DEF Cut
  <2> QED
    BY <1>1, <1>2, <2>1 DEF RunInv, Idle
<1>5. StoreInv' /\ ManifestInv'
  BY <1>1, StoreFrame
<1>6. FailsOnlyIfChanged'
  BY <1>1 DEF FailsOnlyIfChanged
<1> QED
  BY <1>3, <1>4, <1>5, <1>6 DEF IInv

\* The next chunk is cut.
LEMMA HashChunkInv == ASSUME IInv, HashChunk PROVE IInv'
<1> DEFINE n == Min({ChunkSize, opened - Offset})
           c == Chunk(Section(file, Offset, n), Offset, n)
<1>1. /\ TypeOK /\ RunInv /\ pc = "hash" /\ Offset < opened /\ chunks' = Append(chunks, c)
      /\ UNCHANGED <<setting, file, objects, manifests, pc, size, opened, saved, before, dirty, runs, edits>>
  BY DEF IInv, HashChunk, history
<1>2. /\ file \in Contents /\ Len(file) \in 0..MaxSize /\ Len(chunks) \in Nat /\ MaxSize \in Nat
      /\ ChunkSize \in Nat \ {0} /\ opened \in 0..MaxSize /\ chunks \in Seq(Chunks) /\ saved = 0
  BY <1>1, TypeFacts DEF TypeOK, RunInv
<1>3. Offset \in Nat /\ Offset = Len(chunks) * ChunkSize
  BY <1>2 DEF Offset
<1>4. n \in Nat /\ n \in 0..MaxSize
  <2>1. opened - Offset \in Nat
    BY <1>1, <1>2, <1>3
  <2>2. n = IF ChunkSize <= opened - Offset THEN ChunkSize ELSE opened - Offset
    BY <1>2, <2>1, MinFacts
  <2> QED
    BY <1>1, <1>2, <1>3, <2>2
<1>5. c \in Chunks
  <2>1. Section(file, Offset, n) \in Contents
    BY <1>2, <1>3, <1>4, SectionFacts
  <2>2. Offset \in 0..MaxSize
    BY <1>1, <1>2, <1>3
  <2> HIDE DEF n
  <2> QED
    BY <1>4, <2>1, <2>2 DEF Chunk, Chunks
<1>6. opened = Len(file) => c = Piece(file, Len(chunks) + 1)
  <2>1. (Len(chunks) + 1) - 1 = Len(chunks)
    BY <1>2
  <2> QED
    BY <2>1 DEF Piece, Offset
<1> HIDE DEF c, n
<1>7. TypeOK'
  <2>1. chunks' \in Seq(Chunks) /\ saved' \in 0..Len(chunks')
    BY <1>1, <1>2, <1>5
  <2> QED
    BY <1>1, <2>1 DEF TypeOK
<1>8. RunInv'
  <2>1. ASSUME ~dirty PROVE Cut(chunks, file)'
    <3>1. opened = Len(file) /\ Cut(chunks, file)
      BY <1>1, <2>1 DEF RunInv
    <3>2. /\ Len(chunks') = Len(chunks) + 1 /\ chunks'[Len(chunks) + 1] = c
          /\ \A i \in 1..Len(chunks) : chunks'[i] = chunks[i]
      BY <1>1, <1>2, <1>5
    <3>3. ASSUME NEW i \in 1..Len(chunks')
          PROVE  (i - 1) * ChunkSize < Len(file) /\ chunks'[i] = Piece(file, i)
      <4>1. CASE i \in 1..Len(chunks)
        BY <3>1, <3>2, <4>1 DEF Cut
      <4>2. CASE i = Len(chunks) + 1
        <5>1. i - 1 = Len(chunks)
          BY <1>2, <4>2
        <5> QED
          BY <1>1, <1>3, <1>6, <2>1, <3>1, <3>2, <4>2, <5>1
      <4> QED
        BY <1>2, <3>2, <4>1, <4>2
    <3>4. \A i \in 1..Len(chunks') : (i - 1) * ChunkSize < Len(file') /\ chunks'[i] = Piece(file, i)'
      <4>1. \A i : Piece(file, i)' = Piece(file, i)
        BY <1>1 DEF Piece
      <4> QED
        BY <1>1, <3>3, <4>1
    <3> QED
      BY <3>4 DEF Cut
  <2> QED
    BY <1>1, <2>1 DEF RunInv, Idle
<1>9. StoreInv' /\ ManifestInv'
  BY <1>1, StoreFrame
<1>10. FailsOnlyIfChanged'
  BY <1>1 DEF FailsOnlyIfChanged
<1> QED
  BY <1>7, <1>8, <1>9, <1>10 DEF IInv

\* All chunks are cut; none at all only where the file has changed since Explore.
LEMMA ChunksDoneInv == ASSUME IInv, ChunksDone PROVE IInv'
<1>1. /\ TypeOK /\ RunInv /\ pc = "hash" /\ Offset >= opened
      /\ pc' = IF chunks = <<>> THEN "failed" ELSE "save"
      /\ UNCHANGED <<setting, file, objects, manifests, size, opened, chunks, saved, before, dirty, runs, edits>>
  BY DEF IInv, ChunksDone, history
<1>2. /\ Len(file) \in Nat /\ Len(chunks) \in Nat /\ ChunkSize \in Nat \ {0} /\ ChunkThreshold \in Nat \ {0}
      /\ saved = 0 /\ setting.format = 2 /\ size >= ChunkThreshold /\ ~Idle
  BY <1>1, TypeFacts DEF RunInv, Idle
<1>3. ASSUME ~dirty
      PROVE  /\ file = before /\ size = Len(file) /\ opened = Len(file) /\ Cut(chunks, file)
             /\ Len(file) <= Len(chunks) * ChunkSize /\ ~(Len(file) < ChunkThreshold)
  BY <1>1, <1>2, <1>3 DEF RunInv, Offset
<1>4. ~dirty => chunks # <<>>
  <2> SUFFICES ASSUME ~dirty, chunks = <<>> PROVE FALSE
    OBVIOUS
  <2>1. Len(chunks) = 0 /\ Len(chunks) * ChunkSize = 0
    BY <1>2
  <2> QED
    BY <1>2, <1>3, <2>1
<1>5. TypeOK'
  BY <1>1 DEF TypeOK
<1>6. RunInv'
  <2>1. ~dirty => Complete(chunks, file)'
    <3>1. ~dirty => Complete(chunks, file)
      BY <1>2, <1>3, <1>4 DEF Complete
    <3>2. Complete(chunks, file)' = Complete(chunks, file)
      BY <1>1 DEF Complete, Cut, Piece
    <3> QED
      BY <3>1, <3>2
  <2> QED
    BY <1>1, <1>2, <1>3, <2>1 DEF RunInv, Idle
<1>7. StoreInv' /\ ManifestInv'
  BY <1>1, <1>2, StoreFrame
<1>8. FailsOnlyIfChanged'
  BY <1>1, <1>4 DEF FailsOnlyIfChanged
<1> QED
  BY <1>5, <1>6, <1>7, <1>8 DEF IInv

\* What is read for a chunk of a file that did not change is the chunk, and it is in range
\* unless the file is empty.
LEMMA RereadFacts ==
  ASSUME IInv, pc = "save", saved < Len(chunks), ~dirty
  PROVE  Reread = Current.hash /\ (RangeRefused(Current) => file = <<>>)
<1>1. /\ TypeOK /\ Complete(chunks, file) /\ file \in Contents /\ Len(file) \in Nat /\ Len(chunks) \in Nat
      /\ setting.format \in {1, 2} /\ saved \in Nat
  BY TypeFacts DEF IInv, RunInv, TypeOK
<1>2. CASE setting.format = 1 \/ Len(file) < ChunkThreshold
  <2>1. chunks = <<Chunk(file, 0, Len(file))>>
    BY <1>1, <1>2 DEF Complete
  <2>2. saved + 1 = 1 /\ Current = Chunk(file, 0, Len(file))
    <3>1. Len(chunks) = 1 /\ chunks[1] = Chunk(file, 0, Len(file))
      BY <2>1
    <3>2. saved + 1 = 1
      BY <1>1, <3>1
    <3> QED
      BY <3>1, <3>2 DEF Current
  <2>3. Current.hash = file /\ Current.offset = 0 /\ Current.size = Len(file)
    BY <2>2 DEF Chunk
  <2>4. Reread = file
    BY <1>1, <2>3, WholeSection DEF Reread
  <2>5. RangeRefused(Current) => Len(file) = 0
    BY <1>1, <2>3 DEF RangeRefused
  <2>6. Len(file) = 0 => file = <<>>
    BY <1>1, ContentsFacts
  <2> QED
    BY <2>3, <2>4, <2>5, <2>6
<1>3. CASE ~(setting.format = 1 \/ Len(file) < ChunkThreshold)
  <2>1. /\ saved + 1 \in 1..Len(chunks) /\ saved + 1 \in Nat \ {0}
    BY <1>1
  <2>2. (saved + 1 - 1) * ChunkSize < Len(file) /\ Current = Piece(file, saved + 1)
    BY <1>1, <1>3, <2>1 DEF Complete, Cut, Current
  <2>3. /\ Current.offset \in Nat /\ Current.size \in 1..ChunkSize
        /\ Current.offset + Current.size <= Len(file)
        /\ Current.hash = Section(file, Current.offset, Current.size)
    BY <1>1, <2>1, <2>2, PieceFacts
  <2>4. Reread = Current.hash
    BY <1>3, <2>3 DEF Reread
  <2>5. ~RangeRefused(Current)
    BY <1>1, <2>3, TypeFacts DEF RangeRefused
  <2> QED
    BY <2>4, <2>5
<1> QED
  BY <1>2, <1>3

\* The frame of the steps that go on to the next chunk.
LEMMA SavedFrame ==
  ASSUME IInv, pc = "save", saved < Len(chunks), saved' = saved + 1,
         UNCHANGED <<setting, file, manifests, pc, size, opened, chunks, before, dirty, runs, edits>>,
         DOMAIN objects \subseteq DOMAIN objects', Current.hash \in DOMAIN objects',
         DOMAIN objects' \subseteq Contents, objects' \in [DOMAIN objects' -> Contents],
         Compares => \A h \in DOMAIN objects' : objects'[h] = h
  PROVE  IInv'
<1>1. TypeOK /\ RunInv /\ StoreInv /\ ManifestInv /\ Len(chunks) \in Nat /\ saved \in Nat
  BY TypeFacts DEF IInv, TypeOK
<1>2. TypeOK'
  <2>1. saved' \in 0..Len(chunks')
    BY <1>1
  <2> QED
    BY <1>1, <2>1 DEF TypeOK
<1>3. Complete(chunks, file)' = Complete(chunks, file)
  BY DEF Complete, Cut, Piece
<1>4. RunInv'
  BY <1>1, <1>3 DEF RunInv, Idle
<1>5. StoreInv'
  <2>1. Compares' = Compares
    BY DEF Compares, Traits
  <2>2. \A k \in 1..saved' : chunks[k].hash \in DOMAIN objects'
    <3> TAKE k \in 1..saved'
    <3>1. CASE k \in 1..saved
      BY <1>1, <3>1 DEF StoreInv
    <3>2. CASE k = saved + 1
      BY <3>2 DEF Current
    <3> QED
      BY <1>1, <3>1, <3>2
  <2> QED
    BY <1>1, <2>1, <2>2 DEF StoreInv
<1>6. ManifestInv'
  BY <1>1 DEF ManifestInv, Complete
<1>7. FailsOnlyIfChanged'
  BY DEF FailsOnlyIfChanged
<1> QED
  BY <1>2, <1>4, <1>5, <1>6, <1>7 DEF IInv

\* The chunk is stored already.
LEMMA SkipChunkInv == ASSUME IInv, SkipChunk PROVE IInv'
<1>1. /\ pc = "save" /\ saved < Len(chunks) /\ saved' = saved + 1 /\ Current.hash \in DOMAIN objects
      /\ UNCHANGED <<setting, file, manifests, pc, size, opened, chunks, before, dirty, runs, edits>>
      /\ objects' = objects
  BY DEF SkipChunk, AlreadyExists, history
<1>2. /\ DOMAIN objects \subseteq Contents /\ objects \in [DOMAIN objects -> Contents]
      /\ Compares => \A h \in DOMAIN objects : objects[h] = h
  BY DEF IInv, TypeOK, StoreInv
<1> QED
  BY <1>1, <1>2, SavedFrame

\* The chunk is stored.
LEMMA SaveChunkInv == ASSUME IInv, SaveChunk PROVE IInv'
<1>1. /\ pc = "save" /\ saved < Len(chunks) /\ saved' = saved + 1 /\ ~ChunkRefused
      /\ UNCHANGED <<setting, file, manifests, pc, size, opened, chunks, before, dirty, runs, edits>>
      /\ objects' = [h \in DOMAIN objects \cup {Current.hash} |->
                       IF h = Current.hash THEN Reread ELSE objects[h]]
  BY DEF SaveChunk, history
<1>2. /\ DOMAIN objects \subseteq Contents /\ objects \in [DOMAIN objects -> Contents]
      /\ Compares => \A h \in DOMAIN objects : objects[h] = h
      /\ file \in Contents /\ RunInv
  BY DEF IInv, TypeOK, StoreInv
<1>3. Current \in Chunks
  <2>1. saved + 1 \in 1..Len(chunks) /\ chunks \in Seq(Chunks)
    BY <1>1, TypeFacts DEF IInv, TypeOK
  <2> QED
    BY <2>1 DEF Current
<1>4. Current.hash \in Contents /\ Current.offset \in Nat /\ Current.size \in Nat
  BY <1>3, FileSizesAssumption DEF Chunks
<1>5. Reread \in Contents
  BY <1>2, <1>4, SectionFacts DEF Reread
<1>6. Compares => Reread = Current.hash
  <2>1. Traits.validates => Reread = Current.hash
    BY <1>1 DEF ChunkRefused
  <2>2. setting.edits = "between" => ~dirty
    BY <1>1, <1>2 DEF RunInv, Idle
  <2> QED
    BY <1>1, <2>1, <2>2, RereadFacts DEF Compares
<1>7. /\ DOMAIN objects' = DOMAIN objects \cup {Current.hash}
      /\ objects' \in [DOMAIN objects' -> Contents]
  BY <1>1, <1>2, <1>5
<1>8. Compares => \A h \in DOMAIN objects' : objects'[h] = h
  BY <1>1, <1>2, <1>6, <1>7
<1>9. DOMAIN objects' \subseteq Contents /\ DOMAIN objects \subseteq DOMAIN objects' /\ Current.hash \in DOMAIN objects'
  BY <1>2, <1>4, <1>7
<1> QED
  BY <1>1, <1>7, <1>8, <1>9, SavedFrame

\* A save is refused: the file has changed, or is empty.
LEMMA SaveFailsInv == ASSUME IInv, SaveFails PROVE IInv'
<1>1. /\ TypeOK /\ pc = "save" /\ saved < Len(chunks) /\ ChunkRefused /\ pc' = "failed"
      /\ UNCHANGED <<setting, file, objects, manifests, size, opened, chunks, saved, before, dirty, runs, edits>>
  BY DEF IInv, SaveFails, history
<1>2. TypeOK'
  BY <1>1 DEF TypeOK
<1>3. RunInv'
  BY <1>1 DEF RunInv, Idle
<1>4. StoreInv' /\ ManifestInv'
  BY <1>1, StoreFrame
<1>5. FailsOnlyIfChanged'
  <2>1. ~dirty => setting.format = 2 /\ file = <<>>
    BY <1>1, RereadFacts DEF ChunkRefused
  <2> QED
    BY <1>1, <2>1 DEF FailsOnlyIfChanged
<1> QED
  BY <1>2, <1>3, <1>4, <1>5 DEF IInv

\* The manifest is published, all its chunks are stored.
LEMMA PublishInv == ASSUME IInv, Publish PROVE IInv'
<1> DEFINE m == [size |-> size, chunks |-> chunks, content |-> before, dirty |-> dirty]
<1>1. /\ TypeOK /\ RunInv /\ StoreInv /\ ManifestInv
      /\ pc = "save" /\ saved = Len(chunks) /\ manifests' = Append(manifests, m) /\ pc' = "idle"
      /\ UNCHANGED <<setting, file, objects, size, opened, chunks, saved, before, dirty, runs, edits>>
  BY DEF IInv, Publish, history
<1>2. m \in Manifests /\ m.size = size /\ m.chunks = chunks /\ m.content = before /\ m.dirty = dirty
  BY <1>1 DEF TypeOK, Manifests
<1>3. manifests \in Seq(Manifests)
  BY <1>1 DEF TypeOK
<1> HIDE DEF m
<1>4. /\ manifests' \in Seq(Manifests) /\ Len(manifests) \in Nat /\ Len(manifests') = Len(manifests) + 1
      /\ manifests'[Len(manifests) + 1] = m
      /\ \A i \in 1..Len(manifests) : manifests'[i] = manifests[i]
  BY <1>1, <1>2, <1>3
<1>5. TypeOK'
  BY <1>1, <1>4 DEF TypeOK
<1>6. RunInv'
  BY <1>1 DEF RunInv, Idle
<1>7. StoreInv'
  <2>1. Compares' = Compares
    BY <1>1 DEF Compares, Traits
  <2>2. \A k \in 1..Len(m.chunks) : m.chunks[k].hash \in DOMAIN objects
    BY <1>1, <1>2 DEF StoreInv
  <2>3. \A i \in 1..Len(manifests') : \A k \in 1..Len(manifests'[i].chunks) :
          manifests'[i].chunks[k].hash \in DOMAIN objects
    <3> TAKE i \in 1..Len(manifests')
    <3>1. CASE i \in 1..Len(manifests)
      BY <1>1, <1>4, <3>1 DEF StoreInv
    <3>2. CASE i = Len(manifests) + 1
      BY <1>4, <2>2, <3>2
    <3> QED
      BY <1>4, <3>1, <3>2
  <2> QED
    BY <1>1, <2>1, <2>3 DEF StoreInv
<1>8. ManifestInv'
  <2>1. ~m.dirty => Complete(m.chunks, m.content) /\ m.size = Len(m.content)
    BY <1>1, <1>2 DEF RunInv, Idle
  <2>2. \A i \in 1..Len(manifests') : ~manifests'[i].dirty =>
          /\ Complete(manifests'[i].chunks, manifests'[i].content)
          /\ manifests'[i].size = Len(manifests'[i].content)
    <3> TAKE i \in 1..Len(manifests')
    <3>1. CASE i \in 1..Len(manifests)
      BY <1>1, <1>4, <3>1 DEF ManifestInv
    <3>2. CASE i = Len(manifests) + 1
      BY <1>4, <2>1, <3>2
    <3> QED
      BY <1>4, <3>1, <3>2
  <2> QED
    BY <1>1, <2>2 DEF ManifestInv, Complete
<1>9. FailsOnlyIfChanged'
  BY <1>1 DEF FailsOnlyIfChanged
<1> QED
  BY <1>5, <1>6, <1>7, <1>8, <1>9 DEF IInv

-----------------------------------------------------------------------------
(* The theorems.                                                             *)

\* Nothing is backed up yet.
LEMMA InitInv == ASSUME Init PROVE IInv
<1>1. TypeOK
  <2>1. /\ objects \in [DOMAIN objects -> Contents] /\ DOMAIN objects \subseteq Contents
        /\ manifests \in Seq(Manifests) /\ chunks \in Seq(Chunks) /\ saved \in 0..Len(chunks)
    BY DEF Init
  <2>2. /\ setting \in Settings /\ file \in Contents /\ before \in Contents
        /\ pc = "idle" /\ dirty = FALSE
    BY DEF Init
  <2>3. size \in 0..MaxSize /\ opened \in 0..MaxSize /\ runs \in 0..MaxRuns /\ edits \in 0..MaxEdits
    BY FileSizesAssumption DEF Init
  <2> QED
    BY <2>1, <2>2, <2>3 DEF TypeOK
<1>2. DOMAIN objects = {} /\ Len(manifests) = 0
  BY DEF Init
<1>3. RunInv /\ StoreInv /\ ManifestInv /\ FailsOnlyIfChanged
  BY <1>2 DEF Init, RunInv, StoreInv, ManifestInv, FailsOnlyIfChanged, Idle
<1> QED
  BY <1>1, <1>3 DEF IInv

\* Nothing happens.
LEMMA StutterInv == ASSUME IInv, UNCHANGED vars PROVE IInv'
<1>1. UNCHANGED <<setting, file, objects, manifests, pc, size, opened, chunks, saved, before, dirty,
                  runs, edits>>
  BY DEF vars, history
<1>2. TypeOK' /\ FailsOnlyIfChanged'
  BY <1>1 DEF IInv, TypeOK, FailsOnlyIfChanged
<1>3. Complete(chunks, file)' = Complete(chunks, file) /\ Cut(chunks, file)' = Cut(chunks, file)
  BY <1>1 DEF Complete, Cut, Piece
<1>4. RunInv'
  BY <1>1, <1>3 DEF IInv, RunInv, Idle
<1>5. StoreInv' /\ ManifestInv'
  <2>1. Compares' = Compares
    BY <1>1 DEF Compares, Traits
  <2> QED
    BY <1>1, <2>1 DEF IInv, StoreInv, ManifestInv, Complete
<1> QED
  BY <1>2, <1>4, <1>5 DEF IInv

\* The invariant holds throughout, however often the file is backed up and whenever it is
\* changed.
THEOREM Inductive == Spec => []IInv
<1>1. ASSUME IInv, [Next]_vars PROVE IInv'
  BY <1>1, EditInv, ExploreInv, CalculateHashInv, OpenForChunksInv, HashChunkInv, ChunksDoneInv,
     SkipChunkInv, SaveChunkInv, SaveFailsInv, PublishInv, StutterInv DEF Next
<1> QED
  BY <1>1, InitInv, PTL DEF Spec

\* Every variable keeps its type (FileBackup.TypeOK).
THEOREM TypeCorrect == Spec => []TypeOK
<1>1. IInv => TypeOK
  BY DEF IInv
<1> QED
  BY <1>1, Inductive, PTL

\* The chunks of a file that did not change partition it, whatever the sizes of the file, of
\* a chunk and of the threshold (ChunksPartitionFile; source_explorer.go:24-96,
\* hash_calculator_factory.go:59-79).
THEOREM ChunksArePartition == Spec => []ChunksPartitionFile
<1>1. IInv => ChunksPartitionFile
  <2> SUFFICES ASSUME IInv, pc = "save", ~dirty
               PROVE  /\ FlattenSeq([i \in 1..Len(chunks) |-> chunks[i].hash]) = file
                      /\ \A i \in 1..Len(chunks) :
                           /\ chunks[i].size = Len(chunks[i].hash)
                           /\ i < Len(chunks) => chunks[i + 1].offset = chunks[i].offset + chunks[i].size
                      /\ IF setting.format = 1 \/ Len(file) < ChunkThreshold
                         THEN Len(chunks) = 1
                         ELSE /\ Len(chunks) = CeilDiv(Len(file), ChunkSize)
                              /\ \A i \in 1..Len(chunks) : chunks[i].size \in 1..ChunkSize
    BY DEF ChunksPartitionFile
  <2>1. /\ Complete(chunks, file) /\ file \in Contents /\ chunks \in Seq(Chunks)
        /\ Len(file) \in Nat /\ Len(chunks) \in Nat /\ ChunkSize \in Nat \ {0}
    BY TypeFacts DEF IInv, RunInv, TypeOK
  <2>2. FlattenSeq([i \in 1..Len(chunks) |-> chunks[i].hash]) = file
    BY <2>1, CompleteFlattens
  <2>3. CASE setting.format = 1 \/ Len(file) < ChunkThreshold
    <3>1. Len(chunks) = 1 /\ chunks[1] = Chunk(file, 0, Len(file))
      BY <2>1, <2>3 DEF Complete
    <3>2. chunks[1].size = Len(chunks[1].hash)
      BY <3>1 DEF Chunk
    <3>3. \A i \in 1..Len(chunks) : i = 1 /\ ~(i < Len(chunks))
      BY <3>1
    <3> QED
      BY <2>2, <2>3, <3>1, <3>2, <3>3
  <2>4. CASE ~(setting.format = 1 \/ Len(file) < ChunkThreshold)
    <3>1. Cut(chunks, file) /\ Len(chunks) # 0 /\ Len(file) <= Len(chunks) * ChunkSize
      BY <2>1, <2>4 DEF Complete
    <3>2. ASSUME NEW i \in 1..Len(chunks)
          PROVE  /\ (i - 1) * ChunkSize < Len(file) /\ chunks[i].offset = (i - 1) * ChunkSize
                 /\ chunks[i].size \in 1..ChunkSize /\ chunks[i].size = Len(chunks[i].hash)
                 /\ chunks[i].offset + chunks[i].size =
                      IF i * ChunkSize <= Len(file) THEN i * ChunkSize ELSE Len(file)
      <4>1. i \in Nat \ {0} /\ (i - 1) * ChunkSize < Len(file) /\ chunks[i] = Piece(file, i)
        BY <2>1, <3>1 DEF Cut
      <4> QED
        BY <2>1, <4>1, PieceFacts
    <3>3. ASSUME NEW i \in 1..Len(chunks), i < Len(chunks)
          PROVE  chunks[i + 1].offset = chunks[i].offset + chunks[i].size
      <4>1. i + 1 \in 1..Len(chunks) /\ (i + 1) - 1 = i
        BY <2>1, <3>3
      <4>2. i * ChunkSize < Len(file) /\ chunks[i + 1].offset = i * ChunkSize
        BY <3>2, <4>1
      <4> QED
        BY <2>1, <3>2, <4>2
    <3>4. Len(chunks) = CeilDiv(Len(file), ChunkSize)
      <4>1. (Len(chunks) - 1) * ChunkSize < Len(file)
        BY <2>1, <3>1, <3>2
      <4> DEFINE k == Len(chunks)
                 l == Len(file)
      <4>2. /\ k \in Nat /\ l \in Nat /\ (k - 1) * ChunkSize < l /\ l <= k * ChunkSize
        BY <2>1, <3>1, <4>1
      <4> HIDE DEF k, l
      <4>3. k = (l + ChunkSize - 1) \div ChunkSize
        BY <2>1, <4>2
      <4> QED
        BY <4>3 DEF k, l, CeilDiv
    <3> QED
      BY <2>2, <2>4, <3>2, <3>3, <3>4
  <2> QED
    BY <2>3, <2>4
<1> QED
  BY <1>1, Inductive, PTL

\* A snapshot, also one taken while the file was changing, refers to objects that are what
\* their hashes say, where the back end compares them or the file does not change during a
\* backup (PublishedHashesTrue; validateHash of each back end).
THEOREM HashesAreTrue == Spec => [](Compares => PublishedHashesTrue)
<1>1. IInv => (Compares => PublishedHashesTrue)
  BY DEF IInv, StoreInv, PublishedHashesTrue
<1> QED
  BY <1>1, Inductive, PTL

\* There a snapshot taken while the file did not change gives it back byte for byte, for ever
\* after, with the size recorded (RoundTrip; create.go, restore.go).
THEOREM RoundTripIsIdentity == Spec => [](Compares => RoundTrip)
<1>1. IInv => (Compares => RoundTrip)
  <2> SUFFICES ASSUME IInv, Compares, NEW i \in 1..Len(manifests), ~manifests[i].dirty
               PROVE  /\ Restored(manifests[i]) = manifests[i].content
                      /\ manifests[i].size = Len(manifests[i].content)
    BY DEF RoundTrip
  <2> DEFINE m == manifests[i]
  <2>1. m \in Manifests
    BY DEF IInv, TypeOK
  <2>2. m.chunks \in Seq(Chunks) /\ m.content \in Contents
    BY <2>1 DEF Manifests
  <2>3. /\ Complete(m.chunks, m.content) /\ m.size = Len(m.content)
        /\ \A k \in 1..Len(m.chunks) : objects[m.chunks[k].hash] = m.chunks[k].hash
    BY DEF IInv, ManifestInv, StoreInv
  <2> HIDE DEF m
  <2>4. [k \in 1..Len(m.chunks) |-> objects[m.chunks[k].hash]]
          = [k \in 1..Len(m.chunks) |-> m.chunks[k].hash]
    BY <2>3
  <2>5. Restored(m) = m.content
    BY <2>2, <2>3, <2>4, CompleteFlattens DEF Restored
  <2> QED
    BY <2>3, <2>5 DEF m
<1> QED
  BY <1>1, Inductive, PTL

\* On every back end a backup fails because of the file only if it changed meanwhile, or is
\* empty in format 2 (FailsOnlyIfChanged; chunkio/source.go, create.go).
THEOREM FailsOnlyWhenChanged == Spec => []FailsOnlyIfChanged
<1>1. IInv => FailsOnlyIfChanged
  BY DEF IInv
<1> QED
  BY <1>1, Inductive, PTL

=============================================================================
