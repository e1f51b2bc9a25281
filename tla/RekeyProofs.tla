----------------------------- MODULE RekeyProofs -----------------------------
(***************************************************************************)
(* Machine-checked proofs about Rekey, for any finite set of objects, any  *)
(* pool of workers, any back end and any number of attempts.               *)
(***************************************************************************)
EXTENDS Rekey, TLAPS

\* An error from CreateConfig may hide a success only where the clean-up then does
\* no harm.
CleanupIsSafe == AmbiguousErrors \subseteq {"smb"}

-----------------------------------------------------------------------------
(* The inductive invariant.                                                 *)

\* Generations and keys in use are bounded by the attempts made.
Bounds ==
  /\ config.gen <= attempt + 1
  /\ old.gen <= attempt + 1
  /\ pc # "idle" => old.gen <= attempt

\* Workers and feeder live only while rekeyObjects runs; a busy worker has a job,
\* and only objects, never temporary files, get as far as being saved.
PoolInv ==
  /\ jobs = "open" => pc = "rekey"
  /\ \A w \in Workers :
       /\ wst[w] \in {"ready", "read", "saving"} => pc = "rekey"
       /\ wst[w] \in {"read", "saving"} => wjob[w] \in Names
       /\ wst[w] = "saving" => wjob[w][2] = 0

\* What config.json holds in each phase.
PhaseInv ==
  /\ pc \in {"rekey", "commit"} => config = old
  /\ pc = "write" => config \in {old, NewConfig, Unreadable}
  /\ pc \in {"write", "abort"} /\ backend # "smb" => config \in {old, Unreadable}
  /\ pc = "delete" => config = NewConfig
  /\ groupErr => pc \notin {"commit", "write", "delete"}
  /\ pc = "abort" /\ groupErr => config = old

\* Some worker is busy with the object of hash h.
InHand(h) == \E w \in Workers : wst[w] \in {"read", "saving"} /\ wjob[w] = <<h, 0>>

\* No readable object is forgotten: it waits, is in hand, or is done, unless the
\* group was cancelled; and what is committed is done.
ProgressInv ==
  /\ pc = "rekey" /\ ~GroupDone =>
       /\ \A h \in live : <<h, 0>> \in queue \/ InHand(h) \/ store[NewGen][h] = NewKey
       /\ jobs = "closed" => queue = {}
  /\ pc = "commit" /\ ~ctxDone => live \subseteq Complete(NewGen, NewKey)
  /\ pc = "write" => live \subseteq Complete(NewGen, NewKey)

\* Only the disk back end leaves temporary files; a finished attempt is idle.
RestInv ==
  /\ backend # "disk" => temps = {}
  /\ (pc = "idle") <=> (outcome # "running")

IInv ==
  /\ TypeOK /\ Bounds /\ PoolInv /\ PhaseInv /\ ProgressInv /\ RestInv
  /\ ReadableConfigComplete
  /\ FailedObjectRollsBack
  /\ SuccessRetiresOldGeneration

-----------------------------------------------------------------------------
(* What the back ends' calls may leave behind.                              *)

\* Whatever cell SaveRekeyedObject finds, it leaves one of the cells of the
\* model at the object's path, on every back end.
LEMMA SavedCells ==
  ASSUME NEW b \in AllBackends, NEW c \in Cells, NEW k \in Keys
  PROVE  /\ SaveRekeyedObjectOf(b, c, k).open \subseteq Cells
         /\ SaveRekeyedObjectOf(b, c, k).failed \subseteq Cells
<1>1. Absent \in Cells /\ Torn \in Cells /\ k \in Cells
  BY DEF Cells
<1>2. CASE b = "disk"
  BY <1>1, <1>2 DEF SaveRekeyedObjectOf, DiskSaveRekeyedObject
<1>3. CASE b = "ssh"
  BY <1>1, <1>3 DEF SaveRekeyedObjectOf, SshSaveRekeyedObject
<1>4. CASE b = "smb"
  BY <1>1, <1>4 DEF SaveRekeyedObjectOf, SmbSaveRekeyedObject
<1>5. CASE b = "s3"
  BY <1>1, <1>5 DEF SaveRekeyedObjectOf, S3SaveRekeyedObject
<1>6. CASE b = "gcs"
  BY <1>1, <1>6 DEF SaveRekeyedObjectOf, GcsSaveRekeyedObject
<1>7. CASE b = "webdav"
  BY <1>1, <1>7 DEF SaveRekeyedObjectOf, WebdavSaveRekeyedObject
<1> QED
  BY <1>2, <1>3, <1>4, <1>5, <1>6, <1>7 DEF AllBackends

\* Between its first and its last write CreateConfig shows the old document, the
\* new one or an unreadable one; the new one only over SMB.
LEMMA ConfigMidStates ==
  ASSUME NEW b \in AllBackends, NEW o, NEW n
  PROVE  /\ CreateConfigOf(b, o, n) \subseteq {o, n, Unreadable}
         /\ b # "smb" => CreateConfigOf(b, o, n) \subseteq {o, Unreadable}
BY DEF AllBackends, CreateConfigOf, DiskCreateConfig, SshCreateConfig, SmbCreateConfig,
       S3CreateConfig, GcsCreateConfig, WebdavCreateConfig

\* One step of the deletion of generation g touches no other generation, keeps
\* or removes each object of g, and adds nothing; the SMB back end takes none.
LEMMA RemoveFromEffect ==
  ASSUME StoreTypeOK, NEW g \in Gens, RemoveFrom(g)
  PROVE  /\ store' \in [Gens -> [Hashes -> Cells]]
         /\ \A x \in Gens : x # g => store'[x] = store[x]
         /\ temps' \subseteq temps
         /\ backend # "smb"
<1>1. PICK gone \in DeleteEncryptedGenerationOf(backend, g) :
        /\ store' = [store EXCEPT ![g] =
                   [h \in Hashes |-> IF <<h, 0>> \in gone THEN Absent ELSE store[g][h]]]
        /\ temps' = {t \in temps : ~(t[1] = g /\ <<t[2], t[3]>> \in gone)}
  BY DEF RemoveFrom
<1>2. [h \in Hashes |-> IF <<h, 0>> \in gone THEN Absent ELSE store[g][h]]
        \in [Hashes -> Cells]
  BY DEF StoreTypeOK, Cells
<1>3. store' \in [Gens -> [Hashes -> Cells]]
  BY <1>1, <1>2 DEF StoreTypeOK
<1>4. \A x \in Gens : x # g => store'[x] = store[x]
  BY <1>1 DEF StoreTypeOK
<1>5. backend # "smb"
  BY <1>1 DEF DeleteEncryptedGenerationOf, SmbDeleteEncryptedGeneration
<1>6. temps' \subseteq temps
  BY <1>1
<1> QED
  BY <1>3, <1>4, <1>5, <1>6

\* A deletion that has nothing left to remove has emptied the generation, on
\* every back end but SMB.
LEMMA CompleteDeletionEmpties ==
  ASSUME StoreTypeOK, NEW g \in Gens, DeletionComplete(g), backend # "smb",
         backend # "disk" => temps = {}
  PROVE  GenerationEmpty(g)
<1>1. backend \in AllBackends
  BY BackendsAssumption DEF StoreTypeOK
<1>2. CASE backend = "disk"
  <2>1. DiskListEncryptedObjects(g) = {}
    BY <1>2 DEF DeletionComplete, DeleteEncryptedGenerationOf, DiskDeleteEncryptedGeneration
  <2> QED
    BY <2>1 DEF DiskListEncryptedObjects, ObjectNames, GenerationEmpty
<1>3. CASE backend # "disk"
  <2>1. ObjectNames(g) = {}
    <3>1. CASE backend \in {"ssh", "s3", "gcs"}
      <4>1. {{n} : n \in ObjectNames(g)} = {}
        BY <3>1 DEF DeletionComplete, DeleteEncryptedGenerationOf,
          SshDeleteEncryptedGeneration, S3DeleteEncryptedGeneration,
          GcsDeleteEncryptedGeneration
      <4> QED
        BY <4>1
    <3>2. CASE backend = "webdav"
      <4>1. (SUBSET ObjectNames(g)) \ {{}} = {}
        BY <3>2 DEF DeletionComplete, DeleteEncryptedGenerationOf,
          WebdavDeleteEncryptedGeneration
      <4>2. ObjectNames(g) \in SUBSET ObjectNames(g)
        OBVIOUS
      <4> QED
        BY <4>1, <4>2
    <3> QED
      BY <1>1, <1>3, <3>1, <3>2 DEF AllBackends
  <2> QED
    BY <1>3, <2>1 DEF ObjectNames, GenerationEmpty
<1> QED
  BY <1>2, <1>3

-----------------------------------------------------------------------------
(* The invariant holds initially and every action preserves it.             *)

\* While an attempt runs, its key and its generation are within the bounds, and
\* the generation is not the one it reads from.
LEMMA NewNumbers ==
  ASSUME TypeOK, Bounds, pc # "idle"
  PROVE  /\ NewKey \in Keys /\ NewGen \in Gens /\ old.gen \in Gens
         /\ NewGen # old.gen
         /\ NewConfig \in [gen : Gens, key : Keys]
         /\ NewConfig.gen = NewGen /\ NewConfig.key = NewKey
         /\ NewKey # Absent
         /\ old # NewConfig /\ old # Unreadable /\ NewConfig # Unreadable
<1>1. /\ attempt \in Nat /\ attempt <= MaxAttempts
      /\ old.gen \in Nat /\ old.gen >= 1 /\ old.gen <= MaxAttempts + 1
      /\ old.gen <= attempt
  BY AttemptsAssumption DEF TypeOK, Gens, Bounds
<1>2. NewKey \in Keys /\ NewGen \in Gens /\ old.gen \in Gens /\ NewGen # old.gen
  BY <1>1, AttemptsAssumption DEF NewKey, NewGen, Keys, Gens
<1>3. NewConfig \in [gen : Gens, key : Keys] /\ NewConfig.gen = NewGen /\ NewConfig.key = NewKey
  BY <1>2 DEF NewConfig
<1>4. NewKey # Absent
  BY <1>1 DEF NewKey, Absent
<1>5. old # NewConfig
  BY <1>2, <1>3
<1>6. Unreadable.gen = 0
  BY DEF Unreadable
<1>7. old # Unreadable
  BY <1>1, <1>6
<1>8. NewConfig # Unreadable
  BY <1>1, <1>3, <1>6 DEF NewGen
<1> QED
  BY <1>2, <1>3, <1>4, <1>5, <1>7, <1>8

\* A repository after init and snapshots satisfies the inductive invariant.
LEMMA InitIInv == Init => IInv
<1> SUFFICES ASSUME Init PROVE IInv
  OBVIOUS
<1>0. 1 \in Gens /\ 1 \in Keys
  BY AttemptsAssumption DEF Gens, Keys
<1>1. TypeOK
  <2>1. PICK first \in [Hashes -> {Absent, Torn, 1}] :
         store = [g \in Gens |-> IF g = 1 THEN first ELSE [h \in Hashes |-> Absent]]
    BY DEF Init
  <2>2. first \in [Hashes -> Cells] /\ [h \in Hashes |-> Absent] \in [Hashes -> Cells]
    BY <1>0 DEF Cells
  <2>3. store \in [Gens -> [Hashes -> Cells]]
    BY <2>1, <2>2
  <2>4. StoreTypeOK
    BY <1>0, <2>3 DEF StoreTypeOK, Init
  <2>5. wst \in [Workers -> WorkerStates] /\ wjob \in [Workers -> Names \cup {NoJob}]
    BY DEF Init, WorkerStates
  <2>6. attempt \in 0..MaxAttempts /\ old \in [gen : Gens, key : Keys]
    BY <1>0, AttemptsAssumption DEF Init
  <2>7. /\ pc \in PcStates /\ outcome \in Outcomes /\ jobs \in {"open", "closed"}
        /\ queue \subseteq Names /\ live \subseteq Hashes
    BY DEF Init, PcStates, Outcomes, Complete
  <2>8. groupErr \in BOOLEAN /\ ctxDone \in BOOLEAN
    BY DEF Init
  <2> QED
    BY <2>4, <2>5, <2>6, <2>7, <2>8 DEF TypeOK
<1>2. Bounds
  BY DEF Init, Bounds
<1>3. PoolInv
  BY DEF Init, PoolInv
<1>4. PhaseInv
  BY DEF Init, PhaseInv
<1>5. ProgressInv
  BY DEF Init, ProgressInv
<1>6. RestInv
  BY DEF Init, RestInv
<1>7. ReadableConfigComplete
  BY DEF Init, ReadableConfigComplete
<1>8. FailedObjectRollsBack /\ SuccessRetiresOldGeneration
  BY DEF Init, FailedObjectRollsBack, SuccessRetiresOldGeneration
<1> QED
  BY <1>1, <1>2, <1>3, <1>4, <1>5, <1>6, <1>7, <1>8 DEF IInv

\* A step that leaves the repository alone keeps its type.
LEMMA StoreFrame ==
  ASSUME StoreTypeOK, UNCHANGED storeVars
  PROVE  StoreTypeOK'
BY DEF StoreTypeOK, storeVars

\* A rekey refused before it begins (rekey.go:24-75) changes nothing that matters.
LEMMA BeginFailsIInv ==
  ASSUME IInv, BeginFails
  PROVE  IInv'
<1>1. TypeOK'
  <2>1. StoreTypeOK'
    BY StoreFrame DEF IInv, TypeOK, BeginFails
  <2>2. attempt' \in 0..MaxAttempts
    BY AttemptsAssumption DEF IInv, TypeOK, BeginFails
  <2>3. outcome' \in Outcomes
    BY DEF BeginFails, Outcomes
  <2> QED
    BY <2>1, <2>2, <2>3 DEF IInv, TypeOK, BeginFails
<1>2. Bounds'
  <2>1. attempt \in Nat /\ attempt' = attempt + 1 /\ pc' = "idle"
    BY AttemptsAssumption DEF IInv, TypeOK, BeginFails
  <2>2. config.gen \in Int /\ old.gen \in Int
    BY AttemptsAssumption DEF IInv, TypeOK, StoreTypeOK, Gens, Unreadable
  <2> QED
    BY <2>1, <2>2 DEF IInv, Bounds, BeginFails, storeVars
<1>3. PoolInv' /\ PhaseInv' /\ ProgressInv' /\ RestInv'
  BY DEF IInv, PoolInv, PhaseInv, ProgressInv, RestInv, BeginFails, storeVars
<1>4. ReadableConfigComplete'
  BY DEF IInv, ReadableConfigComplete, ConfigReadable, Complete, BeginFails, storeVars
<1>5. FailedObjectRollsBack' /\ SuccessRetiresOldGeneration'
  BY DEF FailedObjectRollsBack, SuccessRetiresOldGeneration, BeginFails
<1> QED
  BY <1>1, <1>2, <1>3, <1>4, <1>5 DEF IInv

\* A name handed to a worker moves from the queue to that worker: none is lost.
LEMMA HandOverIInv ==
  ASSUME IInv, NEW w \in Workers, HandOver(w)
  PROVE  IInv'
<1>1. PICK n \in queue : queue' = queue \ {n} /\ wjob' = [wjob EXCEPT ![w] = n]
  BY DEF HandOver
<1>2. n \in Names /\ pc = "rekey" /\ pc' = "rekey" /\ wst[w] = "ready"
  BY DEF IInv, TypeOK, PoolInv, HandOver
<1>3. wst' = [wst EXCEPT ![w] = "read"]
  BY DEF HandOver
<1>4. TypeOK'
  <2>1. StoreTypeOK'
    BY StoreFrame DEF IInv, TypeOK, HandOver
  <2>2. wst' \in [Workers -> WorkerStates] /\ wjob' \in [Workers -> Names \cup {NoJob}]
    BY <1>1, <1>2, <1>3 DEF IInv, TypeOK, WorkerStates
  <2> QED
    BY <1>1, <2>1, <2>2 DEF IInv, TypeOK, HandOver
<1>5. Bounds' /\ PhaseInv'
  BY DEF IInv, Bounds, PhaseInv, HandOver, storeVars, NewConfig, NewGen, NewKey
<1>6. PoolInv'
  BY <1>1, <1>2, <1>3 DEF IInv, TypeOK, PoolInv, HandOver
<1>7. ProgressInv'
  <2> SUFFICES ASSUME ~GroupDone, NEW h \in live
               PROVE  <<h, 0>> \in queue' \/ InHand(h)' \/ store[NewGen][h] = NewKey
    BY <1>2 DEF IInv, ProgressInv, HandOver, GroupDone, storeVars, NewGen, NewKey
  <2>1. <<h, 0>> \in queue \/ InHand(h) \/ store[NewGen][h] = NewKey
    BY <1>2 DEF IInv, ProgressInv
  <2>2. CASE <<h, 0>> \in queue
    <3>1. CASE n = <<h, 0>>
      BY <1>1, <1>3, <3>1 DEF InHand, IInv, TypeOK
    <3>2. CASE n # <<h, 0>>
      BY <1>1, <2>2, <3>2
    <3> QED
      BY <3>1, <3>2
  <2>3. CASE InHand(h)
    <3>1. PICK x \in Workers : wst[x] \in {"read", "saving"} /\ wjob[x] = <<h, 0>>
      BY <2>3 DEF InHand
    <3>2. x # w
      BY <1>2, <3>1
    <3> QED
      BY <1>1, <1>3, <3>1, <3>2 DEF InHand, IInv, TypeOK
  <2> QED
    BY <2>1, <2>2, <2>3
<1>8. RestInv' /\ ReadableConfigComplete'
  BY DEF IInv, RestInv, ReadableConfigComplete, ConfigReadable, Complete, HandOver, storeVars
<1>9. FailedObjectRollsBack' /\ SuccessRetiresOldGeneration'
  BY <1>2 DEF IInv, RestInv, FailedObjectRollsBack, SuccessRetiresOldGeneration, HandOver
<1> QED
  BY <1>4, <1>5, <1>6, <1>7, <1>8, <1>9 DEF IInv

\* The feeder closes the channel with names left only if the group is cancelled.
LEMMA FeederReturnsIInv ==
  ASSUME IInv, FeederReturns
  PROVE  IInv'
<1>1. pc = "rekey" /\ pc' = "rekey" /\ jobs' = "closed"
  BY DEF IInv, PoolInv, FeederReturns
<1>2. TypeOK'
  BY StoreFrame DEF IInv, TypeOK, FeederReturns
<1>3. Bounds' /\ PhaseInv' /\ PoolInv'
  BY DEF IInv, Bounds, PhaseInv, PoolInv, FeederReturns, storeVars, NewConfig, NewGen, NewKey
<1>4. ProgressInv'
  BY <1>1 DEF IInv, ProgressInv, InHand, FeederReturns, GroupDone, storeVars, NewGen, NewKey
<1>5. RestInv' /\ ReadableConfigComplete'
  BY DEF IInv, RestInv, ReadableConfigComplete, ConfigReadable, Complete, FeederReturns, storeVars
<1>6. FailedObjectRollsBack' /\ SuccessRetiresOldGeneration'
  BY <1>1 DEF IInv, RestInv, FailedObjectRollsBack, SuccessRetiresOldGeneration, FeederReturns
<1> QED
  BY <1>2, <1>3, <1>4, <1>5, <1>6 DEF IInv

\* A worker that returns has no object of its own left to save.
LEMMA WorkerReturnsIInv ==
  ASSUME IInv, NEW w \in Workers, WorkerReturns(w)
  PROVE  IInv'
<1>1. /\ pc = "rekey" /\ pc' = "rekey" /\ wst[w] = "ready"
      /\ wst' = [wst EXCEPT ![w] = "done"]
  BY DEF IInv, PoolInv, WorkerReturns
<1>2. wst' \in [Workers -> WorkerStates]
  BY <1>1 DEF IInv, TypeOK, WorkerStates
<1>3. TypeOK'
  BY <1>2, StoreFrame DEF IInv, TypeOK, WorkerReturns
<1>4. Bounds' /\ PhaseInv'
  BY DEF IInv, Bounds, PhaseInv, WorkerReturns, storeVars, NewConfig, NewGen, NewKey
<1>5. PoolInv'
  BY <1>1 DEF IInv, TypeOK, PoolInv, WorkerReturns
<1>6. ProgressInv'
  <2>1. \A h : InHand(h) => InHand(h)'
    BY <1>1 DEF InHand, IInv, TypeOK, WorkerReturns
  <2> QED
    BY <1>1, <2>1 DEF IInv, ProgressInv, WorkerReturns, GroupDone, storeVars, NewGen, NewKey
<1>7. RestInv' /\ ReadableConfigComplete'
  BY DEF IInv, RestInv, ReadableConfigComplete, ConfigReadable, Complete, WorkerReturns, storeVars
<1>8. FailedObjectRollsBack' /\ SuccessRetiresOldGeneration'
  BY <1>1 DEF IInv, RestInv, FailedObjectRollsBack, SuccessRetiresOldGeneration, WorkerReturns
<1> QED
  BY <1>3, <1>4, <1>5, <1>6, <1>7, <1>8 DEF IInv

\* Every back end lists each object of the generation, and nothing that is not a
\* name.
LEMMA Listed ==
  ASSUME StoreTypeOK, NEW g
  PROVE  /\ ObjectNames(g) \subseteq ListEncryptedObjects(g)
         /\ ListEncryptedObjects(g) \subseteq Names
<1>1. ObjectNames(g) \subseteq Names
  BY DEF ObjectNames, Names
<1>2. /\ ObjectNames(g) \subseteq DiskListEncryptedObjects(g)
      /\ DiskListEncryptedObjects(g) \subseteq Names
  BY <1>1 DEF DiskListEncryptedObjects, Names, StoreTypeOK
<1>3. \/ ListEncryptedObjects(g) = DiskListEncryptedObjects(g)
      \/ ListEncryptedObjects(g) = ObjectNames(g)
  BY BackendsAssumption DEF ListEncryptedObjects, StoreTypeOK, AllBackends,
     SshListEncryptedObjects, SmbListEncryptedObjects, S3ListEncryptedObjects,
     GcsListEncryptedObjects, WebdavListEncryptedObjects
<1> QED
  BY <1>1, <1>2, <1>3

\* At the start every live object is in the queue, and the new generation is not the
\* active one.
LEMMA BeginIInv ==
  ASSUME IInv, Begin
  PROVE  IInv'
<1>1. /\ pc = "idle" /\ attempt < MaxAttempts /\ ConfigReadable
      /\ attempt' = attempt + 1 /\ old' = config
      /\ queue' = ListEncryptedObjects(config.gen)
      /\ groupErr' = FALSE /\ ctxDone' = FALSE /\ outcome' = "running"
      /\ wjob' = [w \in Workers |-> NoJob]
      /\ UNCHANGED <<storeVars, live>>
  BY DEF Begin
<1>2. attempt \in Nat /\ MaxAttempts \in Nat
  BY AttemptsAssumption DEF IInv, TypeOK
<1>3. /\ config \in [gen : Gens, key : Keys]
      /\ config.gen \in Nat /\ config.gen <= attempt + 1
      /\ config.key # Absent
  BY <1>1, <1>2 DEF IInv, TypeOK, StoreTypeOK, ConfigReadable, Gens, Keys, Absent, Bounds
<1>4. queue' \subseteq Names
  BY <1>1, Listed DEF IInv, TypeOK
<1>5. \A h \in live : <<h, 0>> \in queue'
  <2>1. \A h \in live : h \in Hashes /\ store[config.gen][h] # Absent
    BY <1>1, <1>3 DEF IInv, ReadableConfigComplete, Complete
  <2>2. \A h \in live : <<h, 0>> \in ObjectNames(config.gen)
    BY <2>1 DEF ObjectNames
  <2> QED
    BY <1>1, <2>2, Listed DEF IInv, TypeOK
<1>6. /\ pc' \in {"commit", "rekey"} /\ jobs' \in {"open", "closed"}
      /\ pc' = "commit" => queue' = {} /\ jobs' = "closed"
      /\ pc' = "rekey" => jobs' = "open"
  BY DEF Begin
<1>7. wst' \in [Workers -> {"off", "ready", "done"}] /\ (pc' = "commit" => wst' = wst)
  <2>1. CASE queue' = {}
    <3>1. wst' = wst
      BY <2>1 DEF Begin
    <3>2. \A w \in Workers : wst[w] \in WorkerStates /\ wst[w] \notin {"ready", "read", "saving"}
      BY <1>1 DEF IInv, TypeOK, PoolInv
    <3> QED
      BY <3>1, <3>2 DEF IInv, TypeOK, WorkerStates
  <2>2. CASE queue' # {}
    BY <2>2 DEF Begin
  <2> QED
    BY <2>1, <2>2
<1>8. pc' = "commit" => \A w \in Workers : wst'[w] # "ready"
  BY <1>1, <1>7 DEF IInv, PoolInv
<1>9. TypeOK'
  <2>1. StoreTypeOK'
    BY <1>1, StoreFrame DEF IInv, TypeOK
  <2>2. attempt' \in 0..MaxAttempts
    BY <1>1, <1>2
  <2>3. wst' \in [Workers -> WorkerStates] /\ wjob' \in [Workers -> Names \cup {NoJob}]
    BY <1>1, <1>7 DEF WorkerStates
  <2>4. pc' \in PcStates /\ outcome' \in Outcomes
    BY <1>1, <1>6 DEF PcStates, Outcomes
  <2>5. old' \in [gen : Gens, key : Keys] /\ live' \subseteq Hashes
    BY <1>1, <1>3 DEF IInv, TypeOK
  <2>6. groupErr' \in BOOLEAN /\ ctxDone' \in BOOLEAN
    BY <1>1
  <2> QED
    BY <1>4, <1>6, <2>1, <2>2, <2>3, <2>4, <2>5, <2>6 DEF TypeOK
<1>10. Bounds'
  BY <1>1, <1>2, <1>3 DEF Bounds, storeVars
<1>11. PoolInv'
  BY <1>6, <1>7, <1>8 DEF PoolInv
<1>12. PhaseInv'
  BY <1>1, <1>6 DEF PhaseInv, storeVars
<1>13. ProgressInv'
  <2>1. pc' = "commit" => live' = {}
    BY <1>1, <1>5, <1>6
  <2>2. pc' = "rekey" => \A h \in live' : <<h, 0>> \in queue'
    BY <1>1, <1>5
  <2> QED
    BY <1>6, <2>1, <2>2 DEF ProgressInv
<1>14. RestInv' /\ ReadableConfigComplete'
  BY <1>1, <1>6 DEF IInv, RestInv, ReadableConfigComplete, ConfigReadable, Complete, storeVars
<1>15. FailedObjectRollsBack' /\ SuccessRetiresOldGeneration'
  BY <1>1 DEF FailedObjectRollsBack, SuccessRetiresOldGeneration
<1> QED
  BY <1>9, <1>10, <1>11, <1>12, <1>13, <1>14, <1>15 DEF IInv

\* A worker that writes in the new generation changes nothing the active one
\* holds: what is readable through config.json stays so.
LEMMA NewGenerationApart ==
  ASSUME IInv, pc = "rekey", NEW h \in Hashes, NEW c \in Cells,
         store' = [store EXCEPT ![NewGen][h] = c], UNCHANGED <<config, live>>
  PROVE  /\ store' \in [Gens -> [Hashes -> Cells]]
         /\ \A x \in Hashes : x # h => store'[NewGen][x] = store[NewGen][x]
         /\ store'[NewGen][h] = c
         /\ ReadableConfigComplete'
<1>1. NewGen \in Gens /\ old.gen \in Gens /\ NewGen # old.gen /\ config = old
  BY NewNumbers DEF IInv, PhaseInv
<1>2. store \in [Gens -> [Hashes -> Cells]]
  BY DEF IInv, TypeOK, StoreTypeOK
<1>3. store' \in [Gens -> [Hashes -> Cells]]
  BY <1>1, <1>2
<1>4. store'[old.gen] = store[old.gen]
  BY <1>1, <1>2
<1>5. store'[NewGen] = [store[NewGen] EXCEPT ![h] = c]
  BY <1>1, <1>2
<1>6. ReadableConfigComplete'
  BY <1>1, <1>4 DEF IInv, ReadableConfigComplete, ConfigReadable, Complete
<1> QED
  BY <1>1, <1>2, <1>3, <1>5, <1>6

\* Opening a destination disturbs only the new generation, and only an object its
\* worker still has to save.
LEMMA OpenObjectIInv ==
  ASSUME IInv, NEW w \in Workers, OpenObject(w)
  PROVE  IInv'
<1> DEFINE h == wjob[w][1]
<1>1. /\ wst[w] = "read" /\ pc = "rekey" /\ wjob[w] \in Names
      /\ wjob[w][2] = 0
      /\ wst' = [wst EXCEPT ![w] = "saving"]
      /\ UNCHANGED <<backend, config, pc, attempt, old, queue, jobs, wjob, groupErr,
                     ctxDone, outcome, live>>
  BY DEF IInv, PoolInv, OpenObject, ReadEncryptedObject
<1>2. h \in Hashes /\ wjob[w] = <<h, 0>>
  BY <1>1 DEF Names
<1>3. NewGen \in Gens /\ NewKey \in Keys /\ backend \in AllBackends
  BY <1>1, NewNumbers, BackendsAssumption DEF IInv, TypeOK, StoreTypeOK
<1>4. PICK c \in SaveRekeyedObjectOf(backend, store[NewGen][h], NewKey).open :
        store' = [store EXCEPT ![NewGen][h] = c]
  BY DEF OpenObject
<1>5. c \in Cells
  BY <1>2, <1>3, <1>4, SavedCells DEF IInv, TypeOK, StoreTypeOK
<1>6. /\ store' \in [Gens -> [Hashes -> Cells]]
      /\ \A x \in Hashes : x # h => store'[NewGen][x] = store[NewGen][x]
      /\ ReadableConfigComplete'
  BY <1>1, <1>2, <1>4, <1>5, NewGenerationApart
<1>7. temps' = IF backend = "disk" THEN temps \cup {<<NewGen, h, NewKey>>} ELSE temps
  BY DEF OpenObject
<1>8. TypeOK'
  <2>1. temps' \subseteq Gens \X Hashes \X Keys
    BY <1>2, <1>3, <1>7 DEF IInv, TypeOK, StoreTypeOK
  <2>2. StoreTypeOK'
    BY <1>1, <1>6, <2>1 DEF IInv, TypeOK, StoreTypeOK
  <2>3. wst' \in [Workers -> WorkerStates]
    BY <1>1 DEF IInv, TypeOK, WorkerStates
  <2> QED
    BY <1>1, <2>2, <2>3 DEF IInv, TypeOK
<1>9. Bounds' /\ PhaseInv'
  BY <1>1 DEF IInv, Bounds, PhaseInv, NewConfig, NewGen, NewKey
<1>10. PoolInv'
  BY <1>1 DEF IInv, TypeOK, PoolInv
<1>11. ProgressInv'
  <2>1. \A x : InHand(x) => InHand(x)'
    BY <1>1 DEF InHand, IInv, TypeOK
  <2>2. InHand(h)'
    BY <1>1, <1>2 DEF InHand, IInv, TypeOK
  <2>3. NewGen' = NewGen /\ NewKey' = NewKey /\ GroupDone' = GroupDone
    BY <1>1 DEF NewGen, NewKey, GroupDone
  <2>4. ASSUME ~GroupDone, NEW x \in live
        PROVE  <<x, 0>> \in queue \/ InHand(x)' \/ store'[NewGen][x] = NewKey
    BY <1>1, <1>6, <2>1, <2>2, <2>4 DEF IInv, TypeOK, ProgressInv
  <2> QED
    BY <1>1, <2>3, <2>4 DEF IInv, ProgressInv
<1>12. RestInv'
  BY <1>1, <1>7 DEF IInv, RestInv
<1>13. FailedObjectRollsBack' /\ SuccessRetiresOldGeneration'
  BY <1>1 DEF IInv, RestInv, FailedObjectRollsBack, SuccessRetiresOldGeneration
<1> QED
  BY <1>6, <1>8, <1>9, <1>10, <1>11, <1>12, <1>13 DEF IInv

\* A saved object counts as done: it is complete under the new key.
LEMMA SaveObjectIInv ==
  ASSUME IInv, NEW w \in Workers, SaveObject(w)
  PROVE  IInv'
<1> DEFINE h == wjob[w][1]
<1>1. /\ wst[w] = "saving" /\ pc = "rekey" /\ wjob[w] \in Names
      /\ wjob[w][2] = 0
      /\ wst' = [wst EXCEPT ![w] = "ready"]
      /\ store' = [store EXCEPT ![NewGen][h] = NewKey]
      /\ temps' = temps \ {<<NewGen, h, NewKey>>}
      /\ UNCHANGED <<backend, config, pc, attempt, old, queue, jobs, wjob, groupErr,
                     ctxDone, outcome, live>>
  BY DEF IInv, PoolInv, SaveObject
<1>2. h \in Hashes /\ wjob[w] = <<h, 0>>
  BY <1>1 DEF Names
<1>3. NewKey \in Cells
  BY <1>1, NewNumbers DEF IInv, Cells
<1>4. /\ store' \in [Gens -> [Hashes -> Cells]]
      /\ \A x \in Hashes : x # h => store'[NewGen][x] = store[NewGen][x]
      /\ store'[NewGen][h] = NewKey
      /\ ReadableConfigComplete'
  BY <1>1, <1>2, <1>3, NewGenerationApart
<1>5. TypeOK'
  <2>1. StoreTypeOK'
    BY <1>1, <1>4 DEF IInv, TypeOK, StoreTypeOK
  <2>2. wst' \in [Workers -> WorkerStates]
    BY <1>1 DEF IInv, TypeOK, WorkerStates
  <2> QED
    BY <1>1, <2>1, <2>2 DEF IInv, TypeOK
<1>6. Bounds' /\ PhaseInv'
  BY <1>1 DEF IInv, Bounds, PhaseInv, NewConfig, NewGen, NewKey
<1>7. PoolInv'
  BY <1>1 DEF IInv, TypeOK, PoolInv
<1>8. ProgressInv'
  <2>1. \A x : x # h /\ InHand(x) => InHand(x)'
    BY <1>1, <1>2 DEF InHand, IInv, TypeOK
  <2>2. NewGen' = NewGen /\ NewKey' = NewKey /\ GroupDone' = GroupDone
    BY <1>1 DEF NewGen, NewKey, GroupDone
  <2>3. ASSUME ~GroupDone, NEW x \in live
        PROVE  <<x, 0>> \in queue \/ InHand(x)' \/ store'[NewGen][x] = NewKey
    BY <1>1, <1>4, <2>1, <2>3 DEF IInv, TypeOK, ProgressInv
  <2> QED
    BY <1>1, <2>2, <2>3 DEF IInv, ProgressInv
<1>9. RestInv'
  BY <1>1 DEF IInv, RestInv
<1>10. FailedObjectRollsBack' /\ SuccessRetiresOldGeneration'
  BY <1>1 DEF IInv, RestInv, FailedObjectRollsBack, SuccessRetiresOldGeneration
<1> QED
  BY <1>4, <1>5, <1>6, <1>7, <1>8, <1>9, <1>10 DEF IInv

\* A failed object cancels the group, so that the attempt will not commit.
LEMMA WorkerFailsIInv ==
  ASSUME IInv, NEW w \in Workers, WorkerFails(w)
  PROVE  IInv'
<1> DEFINE h == wjob[w][1]
<1>1. /\ wst[w] \in {"read", "saving"} /\ pc = "rekey" /\ wjob[w] \in Names
      /\ wst' = [wst EXCEPT ![w] = "done"]
      /\ groupErr' = TRUE
      /\ temps' \subseteq temps
      /\ UNCHANGED <<backend, config, pc, attempt, old, queue, jobs, wjob,
                     ctxDone, outcome, live>>
  BY DEF IInv, PoolInv, WorkerFails
<1>2. h \in Hashes
  BY <1>1 DEF Names
<1>3. NewGen \in Gens /\ NewKey \in Keys /\ backend \in AllBackends
  BY <1>1, NewNumbers, BackendsAssumption DEF IInv, TypeOK, StoreTypeOK
<1>4. store' \in [Gens -> [Hashes -> Cells]] /\ ReadableConfigComplete'
  <2>1. CASE wst[w] = "read"
    <3>1. store' = store
      BY <2>1 DEF WorkerFails
    <3> QED
      BY <1>1, <3>1 DEF IInv, TypeOK, StoreTypeOK, ReadableConfigComplete, ConfigReadable,
                        Complete
  <2>2. CASE wst[w] = "saving"
    <3>1. PICK c \in SaveRekeyedObjectOf(backend, store[NewGen][h], NewKey).failed :
            store' = [store EXCEPT ![NewGen][h] = c]
      BY <2>2 DEF WorkerFails
    <3>2. c \in Cells
      BY <1>2, <1>3, <3>1, SavedCells DEF IInv, TypeOK, StoreTypeOK
    <3> QED
      BY <1>1, <1>2, <3>1, <3>2, NewGenerationApart
  <2> QED
    BY <1>1, <2>1, <2>2
<1>5. TypeOK'
  <2>1. StoreTypeOK'
    BY <1>1, <1>4 DEF IInv, TypeOK, StoreTypeOK
  <2>2. wst' \in [Workers -> WorkerStates]
    BY <1>1 DEF IInv, TypeOK, WorkerStates
  <2> QED
    BY <1>1, <2>1, <2>2 DEF IInv, TypeOK
<1>6. Bounds' /\ PhaseInv'
  BY <1>1 DEF IInv, Bounds, PhaseInv, NewConfig, NewGen, NewKey
<1>7. PoolInv'
  BY <1>1 DEF IInv, TypeOK, PoolInv
<1>8. ProgressInv'
  BY <1>1 DEF ProgressInv, GroupDone
<1>9. RestInv'
  BY <1>1 DEF IInv, RestInv
<1>10. FailedObjectRollsBack' /\ SuccessRetiresOldGeneration'
  BY <1>1 DEF IInv, RestInv, FailedObjectRollsBack, SuccessRetiresOldGeneration
<1> QED
  BY <1>4, <1>5, <1>6, <1>7, <1>8, <1>9, <1>10 DEF IInv

\* When Wait returns nil on a live context every live object is under the new key.
LEMMA GroupWaitIInv ==
  ASSUME IInv, GroupWait
  PROVE  IInv'
<1>1. /\ pc = "rekey" /\ jobs = "closed" /\ config = old
      /\ \A w \in Workers : wst[w] \in {"off", "done"}
      /\ pc' = IF groupErr THEN "abort" ELSE "commit"
      /\ UNCHANGED <<storeVars, attempt, old, queue, jobs, wst, wjob, groupErr, ctxDone,
                     outcome, live>>
  BY DEF IInv, PhaseInv, GroupWait
<1>2. pc' \in {"abort", "commit"} /\ (pc' = "abort" <=> groupErr)
  BY <1>1
<1>3. TypeOK'
  <2>1. StoreTypeOK' /\ pc' \in PcStates
    BY <1>1, <1>2, StoreFrame DEF IInv, TypeOK, PcStates
  <2> QED
    BY <1>1, <2>1 DEF IInv, TypeOK
<1>4. Bounds' /\ PoolInv'
  BY <1>1, <1>2 DEF IInv, Bounds, PoolInv, storeVars
<1>5. PhaseInv'
  BY <1>1, <1>2 DEF PhaseInv, storeVars
<1>6. ProgressInv'
  <2>1. CASE groupErr \/ ctxDone
    BY <1>1, <1>2, <2>1 DEF ProgressInv
  <2>2. CASE ~groupErr /\ ~ctxDone
    <3>1. \A h \in live : store[NewGen][h] = NewKey
      BY <1>1, <2>2 DEF IInv, ProgressInv, GroupDone, InHand
    <3>2. live \subseteq Complete(NewGen, NewKey)
      BY <3>1 DEF Complete, IInv, TypeOK
    <3> QED
      BY <1>1, <1>2, <3>2 DEF ProgressInv, Complete, NewGen, NewKey, storeVars
  <2> QED
    BY <2>1, <2>2
<1>7. RestInv' /\ ReadableConfigComplete'
  BY <1>1, <1>2 DEF IInv, RestInv, ReadableConfigComplete, ConfigReadable, Complete, storeVars
<1>8. FailedObjectRollsBack' /\ SuccessRetiresOldGeneration'
  BY <1>1 DEF IInv, RestInv, FailedObjectRollsBack, SuccessRetiresOldGeneration
<1> QED
  BY <1>3, <1>4, <1>5, <1>6, <1>7, <1>8 DEF IInv

\* The four actions around the write of config.json touch neither the objects
\* nor the pool; what they must get right is which document config.json holds.
LEMMA ConfigStep ==
  ASSUME IInv, pc \in {"commit", "write"}, pc' \in {"write", "delete", "abort"},
         config' \in {old, NewConfig, Unreadable},
         config' = NewConfig => live \subseteq Complete(NewGen, NewKey),
         config' = old => config = old,
         pc' = "write" => live \subseteq Complete(NewGen, NewKey),
         pc' = "delete" => config' = NewConfig,
         pc' \in {"write", "abort"} /\ backend # "smb" => config' \in {old, Unreadable},
         UNCHANGED <<backend, store, temps, attempt, old, queue, jobs, wst, wjob,
                     groupErr, ctxDone, outcome, live>>
  PROVE  IInv'
<1>1. /\ NewConfig \in [gen : Gens, key : Keys] /\ NewConfig.gen = NewGen
      /\ NewConfig.key = NewKey /\ pc # "idle" /\ ~groupErr
  BY NewNumbers DEF IInv, PhaseInv
<1>2. TypeOK'
  <2>1. StoreTypeOK'
    BY <1>1 DEF IInv, TypeOK, StoreTypeOK
  <2>2. pc' \in PcStates
    BY DEF PcStates
  <2> QED
    BY <2>1, <2>2 DEF IInv, TypeOK
<1>3. Bounds'
  <2>1. old.gen \in Int /\ attempt \in Nat /\ old.gen <= attempt
    BY <1>1, AttemptsAssumption DEF IInv, TypeOK, Bounds, Gens
  <2>2. config'.gen <= attempt + 1
    BY <1>1, <2>1 DEF NewGen, Unreadable
  <2> QED
    BY <2>1, <2>2 DEF Bounds
<1>4. PoolInv'
  BY DEF IInv, PoolInv
<1>5. PhaseInv'
  BY <1>1 DEF PhaseInv, NewConfig, NewGen, NewKey
<1>6. ProgressInv'
  BY DEF ProgressInv, Complete, NewGen, NewKey
<1>7. RestInv'
  BY <1>1 DEF IInv, RestInv
<1>8. ReadableConfigComplete'
  <2>1. CASE config' = NewConfig
    BY <1>1, <2>1 DEF ReadableConfigComplete, Complete
  <2>2. CASE config' = old
    BY <2>2 DEF IInv, ReadableConfigComplete, ConfigReadable, Complete
  <2>3. CASE config' = Unreadable
    BY <2>3 DEF ReadableConfigComplete, ConfigReadable
  <2> QED
    BY <2>1, <2>2, <2>3
<1>9. FailedObjectRollsBack' /\ SuccessRetiresOldGeneration'
  BY <1>1 DEF IInv, RestInv, FailedObjectRollsBack, SuccessRetiresOldGeneration
<1> QED
  BY <1>2, <1>3, <1>4, <1>5, <1>6, <1>7, <1>8, <1>9 DEF IInv

\* The four outcomes around CreateConfig preserve the invariant.
LEMMA CreateConfigIInv ==
  ASSUME CleanupIsSafe, IInv,
         CreateConfigRefused \/ CreateConfigStarts \/ CreateConfigReturns \/ CreateConfigFails
  PROVE  IInv'
<1>0. backend \in Backends /\ backend \in AllBackends
  BY BackendsAssumption DEF IInv, TypeOK, StoreTypeOK
<1>1. pc \in {"commit", "write"} => old # NewConfig /\ old # Unreadable /\ NewConfig # Unreadable
  BY NewNumbers DEF IInv
<1>2. CASE CreateConfigRefused
  <2>1. config = old /\ config' = old /\ pc = "commit" /\ pc' = "abort"
    BY <1>2 DEF CreateConfigRefused, IInv, PhaseInv, storeVars
  <2> QED
    BY <1>1, <1>2, <2>1, ConfigStep DEF CreateConfigRefused, storeVars
<1>3. CASE CreateConfigStarts
  <2>1. /\ config = old /\ pc = "commit" /\ pc' = "write"
        /\ live \subseteq Complete(NewGen, NewKey)
        /\ config' \in CreateConfigOf(backend, config, NewConfig)
    BY <1>3 DEF CreateConfigStarts, IInv, PhaseInv, ProgressInv
  <2>2. /\ config' \in {old, NewConfig, Unreadable}
        /\ backend # "smb" => config' \in {old, Unreadable}
    BY <1>0, <2>1, ConfigMidStates
  <2> QED
    BY <1>3, <2>1, <2>2, ConfigStep DEF CreateConfigStarts
<1>4. CASE CreateConfigReturns
  <2>1. /\ pc = "write" /\ pc' = "delete" /\ config' = NewConfig
        /\ live \subseteq Complete(NewGen, NewKey)
    BY <1>4 DEF CreateConfigReturns, IInv, ProgressInv
  <2> QED
    BY <1>1, <1>4, <2>1, ConfigStep DEF CreateConfigReturns
<1>5. CASE CreateConfigFails
  <2>1. /\ pc = "write" /\ pc' = "abort"
        /\ live \subseteq Complete(NewGen, NewKey)
        /\ config \in {old, NewConfig, Unreadable}
        /\ backend # "smb" => config \in {old, Unreadable}
        /\ config' \in FailedConfigs(NewConfig)
    BY <1>5 DEF CreateConfigFails, IInv, PhaseInv, ProgressInv
  <2>2. config' \in {config, NewConfig}
    BY <2>1 DEF FailedConfigs
  <2>3. backend # "smb" => config' = config
    BY <1>0, <2>1 DEF FailedConfigs, CleanupIsSafe
  <2> QED
    BY <1>1, <1>5, <2>1, <2>2, <2>3, ConfigStep DEF CreateConfigFails
<1> QED
  BY <1>2, <1>3, <1>4, <1>5

\* A step of a deletion, of the old generation after the switch or of the new one
\* after an error, never touches the generation that config.json names.
LEMMA DeletionIInv ==
  ASSUME IInv, DeleteOld \/ Abort
  PROVE  IInv'
<1>1. /\ pc \in {"delete", "abort"}
      /\ UNCHANGED <<backend, config, pc, attempt, old, queue, jobs, wst, wjob, groupErr,
                     ctxDone, outcome, live>>
  BY DEF DeleteOld, Abort, procVars
<1>2. /\ NewGen \in Gens /\ old.gen \in Gens /\ NewGen # old.gen
      /\ NewConfig.gen = NewGen
  BY <1>1, NewNumbers DEF IInv
<1>3. PICK g \in {old.gen, NewGen} :
        RemoveFrom(g) /\ (pc = "delete" => g = old.gen) /\ (pc = "abort" => g = NewGen)
  BY DEF DeleteOld, Abort
<1>4. /\ store' \in [Gens -> [Hashes -> Cells]]
      /\ \A x \in Gens : x # g => store'[x] = store[x]
      /\ temps' \subseteq temps
      /\ backend # "smb"
  BY <1>2, <1>3, RemoveFromEffect DEF IInv, TypeOK
<1>5. TypeOK'
  <2>1. StoreTypeOK'
    BY <1>1, <1>4 DEF IInv, TypeOK, StoreTypeOK
  <2> QED
    BY <1>1, <2>1 DEF IInv, TypeOK
<1>6. Bounds' /\ PoolInv'
  BY <1>1 DEF IInv, Bounds, PoolInv
<1>7. PhaseInv'
  BY <1>1 DEF IInv, PhaseInv, NewConfig, NewGen, NewKey
<1>8. ProgressInv'
  BY <1>1 DEF ProgressInv
<1>9. RestInv'
  BY <1>1, <1>4 DEF IInv, RestInv
<1>10. ReadableConfigComplete'
  <2>1. ConfigReadable => config.gen \in Gens /\ config.gen # g
    BY <1>1, <1>2, <1>3, <1>4 DEF IInv, PhaseInv, ConfigReadable
  <2> QED
    BY <1>1, <1>4, <2>1 DEF IInv, ReadableConfigComplete, ConfigReadable, Complete
<1>11. FailedObjectRollsBack' /\ SuccessRetiresOldGeneration'
  BY <1>1 DEF IInv, RestInv, FailedObjectRollsBack, SuccessRetiresOldGeneration
<1> QED
  BY <1>5, <1>6, <1>7, <1>8, <1>9, <1>10, <1>11 DEF IInv

\* The return of the deletion of the old generation preserves the invariant.
LEMMA DeleteOldReturnsIInv ==
  ASSUME IInv, DeleteOldReturns
  PROVE  IInv'
<1>1. /\ pc = "delete" /\ pc' = "idle"
      /\ outcome' = "ok" \/ outcome' = "committed_error"
      /\ outcome' = "ok" => DeletionComplete(old.gen)
      /\ UNCHANGED <<storeVars, attempt, old, queue, jobs, wst, wjob, groupErr, ctxDone, live>>
  BY DEF DeleteOldReturns
<1>2. TypeOK'
  <2>1. StoreTypeOK' /\ pc' \in PcStates /\ outcome' \in Outcomes
    BY <1>1, StoreFrame DEF IInv, TypeOK, PcStates, Outcomes
  <2> QED
    BY <1>1, <2>1 DEF IInv, TypeOK
<1>3. Bounds' /\ PoolInv' /\ PhaseInv' /\ ProgressInv' /\ RestInv'
  BY <1>1 DEF IInv, Bounds, PoolInv, PhaseInv, ProgressInv, RestInv, storeVars
<1>4. ReadableConfigComplete'
  BY <1>1 DEF IInv, ReadableConfigComplete, ConfigReadable, Complete, storeVars
<1>5. FailedObjectRollsBack'
  BY <1>1 DEF FailedObjectRollsBack
<1>6. SuccessRetiresOldGeneration'
  <2> SUFFICES ASSUME outcome' = "ok", backend # "smb"
               PROVE  GenerationEmpty(old.gen) /\ config = NewConfig
    BY <1>1 DEF SuccessRetiresOldGeneration, GenerationEmpty, NewConfig, NewGen, NewKey, storeVars
  <2>1. old.gen \in Gens /\ config = NewConfig
    BY <1>1, NewNumbers DEF IInv, PhaseInv
  <2> QED
    BY <1>1, <2>1, CompleteDeletionEmpties DEF IInv, TypeOK, RestInv
<1> QED
  BY <1>2, <1>3, <1>4, <1>5, <1>6 DEF IInv

\* The return of AbortRekey preserves the invariant.
LEMMA AbortReturnsIInv ==
  ASSUME IInv, AbortReturns
  PROVE  IInv'
<1>1. /\ pc = "abort" /\ pc' = "idle"
      /\ outcome' = "aborted" \/ outcome' = "abort_failed"
      /\ outcome' = "aborted" => DeletionComplete(NewGen)
      /\ UNCHANGED <<storeVars, attempt, old, queue, jobs, wst, wjob, groupErr, ctxDone, live>>
  BY DEF AbortReturns
<1>2. TypeOK'
  <2>1. StoreTypeOK' /\ pc' \in PcStates /\ outcome' \in Outcomes
    BY <1>1, StoreFrame DEF IInv, TypeOK, PcStates, Outcomes
  <2> QED
    BY <1>1, <2>1 DEF IInv, TypeOK
<1>3. Bounds' /\ PoolInv' /\ PhaseInv' /\ ProgressInv' /\ RestInv'
  BY <1>1 DEF IInv, Bounds, PoolInv, PhaseInv, ProgressInv, RestInv, storeVars
<1>4. ReadableConfigComplete'
  BY <1>1 DEF IInv, ReadableConfigComplete, ConfigReadable, Complete, storeVars
<1>5. SuccessRetiresOldGeneration'
  BY <1>1 DEF SuccessRetiresOldGeneration
<1>6. FailedObjectRollsBack'
  <2> SUFFICES ASSUME outcome' = "aborted", groupErr, backend # "smb"
               PROVE  config = old /\ GenerationEmpty(NewGen)
    BY <1>1 DEF FailedObjectRollsBack, GenerationEmpty, NewGen, storeVars
  <2>1. NewGen \in Gens /\ config = old
    BY <1>1, NewNumbers DEF IInv, PhaseInv
  <2> QED
    BY <1>1, <2>1, CompleteDeletionEmpties DEF IInv, TypeOK, RestInv
<1> QED
  BY <1>2, <1>3, <1>4, <1>5, <1>6 DEF IInv

\* Cancelling the context preserves the invariant.
LEMMA CancelIInv ==
  ASSUME IInv, Cancel
  PROVE  IInv'
<1>1. /\ pc # "idle" /\ ctxDone' = TRUE
      /\ UNCHANGED <<storeVars, pc, attempt, old, queue, jobs, wst, wjob, groupErr,
                     outcome, live>>
  BY DEF Cancel
<1>2. TypeOK'
  BY <1>1, StoreFrame DEF IInv, TypeOK
<1>3. Bounds' /\ PoolInv' /\ PhaseInv' /\ RestInv'
  BY <1>1 DEF IInv, Bounds, PoolInv, PhaseInv, RestInv, storeVars, NewConfig, NewGen, NewKey
<1>4. ProgressInv'
  BY <1>1 DEF IInv, ProgressInv, GroupDone, Complete, storeVars, NewGen, NewKey
<1>5. ReadableConfigComplete'
  BY <1>1 DEF IInv, ReadableConfigComplete, ConfigReadable, Complete, storeVars
<1>6. FailedObjectRollsBack' /\ SuccessRetiresOldGeneration'
  BY <1>1 DEF IInv, RestInv, FailedObjectRollsBack, SuccessRetiresOldGeneration
<1> QED
  BY <1>2, <1>3, <1>4, <1>5, <1>6 DEF IInv

\* The death of the process at any point preserves the invariant.
LEMMA CrashIInv ==
  ASSUME IInv, Crash
  PROVE  IInv'
<1>1. /\ pc' = "idle" /\ outcome' = "crashed" /\ queue' = {} /\ jobs' = "closed"
      /\ wst' = [w \in Workers |-> "off"] /\ wjob' = [w \in Workers |-> NoJob]
      /\ UNCHANGED <<storeVars, attempt, old, groupErr, ctxDone, live>>
  BY DEF Crash
<1>2. TypeOK'
  <2>1. StoreTypeOK' /\ pc' \in PcStates /\ outcome' \in Outcomes
    BY <1>1, StoreFrame DEF IInv, TypeOK, PcStates, Outcomes
  <2>2. wst' \in [Workers -> WorkerStates] /\ wjob' \in [Workers -> Names \cup {NoJob}]
    BY <1>1 DEF WorkerStates
  <2> QED
    BY <1>1, <2>1, <2>2 DEF IInv, TypeOK
<1>3. Bounds' /\ PoolInv' /\ PhaseInv' /\ ProgressInv' /\ RestInv'
  BY <1>1 DEF IInv, Bounds, PoolInv, PhaseInv, ProgressInv, RestInv, storeVars
<1>4. ReadableConfigComplete'
  BY <1>1 DEF IInv, ReadableConfigComplete, ConfigReadable, Complete, storeVars
<1>5. FailedObjectRollsBack' /\ SuccessRetiresOldGeneration'
  BY <1>1 DEF FailedObjectRollsBack, SuccessRetiresOldGeneration
<1> QED
  BY <1>2, <1>3, <1>4, <1>5 DEF IInv

\* The invariant mentions nothing but the variables of the specification.
LEMMA StutterIInv ==
  ASSUME IInv, UNCHANGED vars
  PROVE  IInv'
<1>1. TypeOK'
  BY StoreFrame DEF IInv, TypeOK, vars, procVars
<1>2. Bounds' /\ PoolInv' /\ PhaseInv' /\ RestInv'
  BY DEF IInv, Bounds, PoolInv, PhaseInv, RestInv, vars, procVars, storeVars,
         NewConfig, NewGen, NewKey
<1>3. ProgressInv' /\ ReadableConfigComplete'
  BY DEF IInv, ProgressInv, InHand, GroupDone, ReadableConfigComplete, ConfigReadable,
         Complete, vars, procVars, storeVars, NewGen, NewKey
<1>4. FailedObjectRollsBack' /\ SuccessRetiresOldGeneration'
  BY DEF IInv, FailedObjectRollsBack, SuccessRetiresOldGeneration, GenerationEmpty,
         vars, procVars, storeVars, NewConfig, NewGen, NewKey
<1> QED
  BY <1>1, <1>2, <1>3, <1>4 DEF IInv

\* Every step of a rekey preserves the inductive invariant.
LEMMA NextIInv ==
  ASSUME CleanupIsSafe, IInv, [Next]_vars
  PROVE  IInv'
<1>1. CASE Begin \/ BeginFails
  BY <1>1, BeginIInv, BeginFailsIInv
<1>2. CASE \E w \in Workers : WorkerStep(w)
  BY <1>2, HandOverIInv, WorkerReturnsIInv, OpenObjectIInv, SaveObjectIInv, WorkerFailsIInv
  DEF WorkerStep
<1>3. CASE MainStep
  BY <1>3, FeederReturnsIInv, GroupWaitIInv, CreateConfigIInv, DeletionIInv,
     DeleteOldReturnsIInv, AbortReturnsIInv
  DEF MainStep
<1>4. CASE Cancel \/ Crash
  BY <1>4, CancelIInv, CrashIInv
<1>5. CASE UNCHANGED vars
  BY <1>5, StutterIInv
<1> QED
  BY <1>1, <1>2, <1>3, <1>4, <1>5 DEF Next

-----------------------------------------------------------------------------
(* The results.                                                             *)

\* The inductive invariant holds in every reachable state of a rekey.
THEOREM Inductive ==
  ASSUME CleanupIsSafe
  PROVE  Spec => []IInv
<1>1. Init => IInv
  BY InitIInv
<1>2. IInv /\ [Next]_vars => IInv'
  BY NextIInv
<1> QED
  BY <1>1, <1>2, PTL DEF Spec

\* Type correctness of the rekey specification.
THEOREM TypeCorrect ==
  ASSUME CleanupIsSafe
  PROVE  Spec => []TypeOK
<1>1. IInv => TypeOK
  BY DEF IInv
<1> QED
  BY <1>1, Inductive, PTL

\* A readable config.json always names a complete generation (rekey.go: the order
\* of rewriting, CreateConfig and the two deletions), for any number of objects,
\* workers and attempts, through errors, cancellation and crashes.
THEOREM NoObjectLost ==
  ASSUME CleanupIsSafe
  PROVE  Spec => []ReadableConfigComplete
<1>1. IInv => ReadableConfigComplete
  BY DEF IInv
<1> QED
  BY <1>1, Inductive, PTL

\* AbortRekey after a failed object leaves no trace of the new generation: the
\* errgroup's Wait has seen every worker return (rekey.go:79-91, 164).
THEOREM RollsBack ==
  ASSUME CleanupIsSafe
  PROVE  Spec => []FailedObjectRollsBack
<1>1. IInv => FailedObjectRollsBack
  BY DEF IInv
<1> QED
  BY <1>1, Inductive, PTL

\* A rekey that reports success has retired every object under the old key
\* (rekey.go:107-111).
THEOREM OldKeyRetired ==
  ASSUME CleanupIsSafe
  PROVE  Spec => []SuccessRetiresOldGeneration
<1>1. IInv => SuccessRetiresOldGeneration
  BY DEF IInv
<1> QED
  BY <1>1, Inductive, PTL

=============================================================================
