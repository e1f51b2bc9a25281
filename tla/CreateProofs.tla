----------------------------- MODULE CreateProofs -----------------------------
(***************************************************************************)
(* Machine-checked proofs about CreateSnapshot, for any set of files,      *)
(* pieces, processes and workers, any number of runs, and every back end.  *)
(***************************************************************************)
EXTENDS CreateSnapshot, TLAPS

-----------------------------------------------------------------------------
(* The settings in which a published snapshot is safe.                      *)

TraitsOf(s) == IF s.format = 1 THEN SaveOf(s.backend) ELSE SaveChunkOf(s.backend)

\* What is stored under a hash is what was hashed: the save compares, or nobody edits; and
\* no error of the encrypting writer is ignored.
Faithful(s) ==
  /\ TraitsOf(s).validates \/ "edit" \notin s.faults
  /\ TraitsOf(s).swallows => ~s.encrypted \/ "error" \notin s.faults

\* Objects appear whole, by one request: any number of processes, any fault.
WholeObjects(s) == Faithful(s) /\ ~TraitsOf(s).inplace

\* Objects are written in place: one process that does not die, whose removal of a failed
\* save succeeds (or that is run once), and one worker where encryption makes writers
\* differ.
InPlaceAlone(s) ==
  /\ Faithful(s) /\ TraitsOf(s).inplace
  /\ \A p, q \in s.procs : p = q
  /\ "crash" \notin s.faults /\ "unremoved" \notin s.faults
  /\ TraitsOf(s).cleans \/ s.runs <= 1
  /\ s.encrypted => \A i, j \in s.pool : i = j

Safe(s) == WholeObjects(s) \/ InPlaceAlone(s)

-----------------------------------------------------------------------------
(* The inductive invariant.                                                 *)

Saving == {"check", "save", "head", "body", "put"}
Live == Saving \cup {"ready", "hash"}

\* Workers live only while Do waits for them, and what the phases take for granted.
PoolInv ==
  /\ \A w \in Workers :
       wst[w] \in Live => pc[w[1]] = "running" /\ w[2] \in setting.pool
  /\ \A p \in Procs :
       /\ pc[p] # "idle" => p \in setting.procs /\ run[p] \in Runs
       /\ indexes[p] = "open" => pc[p] = "running"
       /\ pc[p] # "idle" /\ indexes[p] = "closed" => feed[p] = {} \/ ctxDone[p]
       /\ pc[p] \in {"publish", "write"} => ~firstErr[p] /\ indexes[p] = "closed"

\* No file is forgotten: it waits, is being hashed, or has its hash, unless some worker
\* failed; and when the manifest is written every file has one.
HashedInv ==
  /\ \A p \in Procs : pc[p] \in {"running", "publish"} /\ ~firstErr[p] =>
       \A f \in Files : \/ f \in feed[p] \cup calculated[p]
                        \/ \E w \in Workers : w[1] = p /\ wst[w] = "hash" /\ wfile[w] = f
  /\ \A p \in Procs : pc[p] = "write" => calculated[p] = Files
  /\ \A w \in Workers : wst[w] = "hash" => wpiece[w] = 1

\* Open handles, and what is known of the worker that holds one.
HandleInv ==
  /\ \A w \in attached : wst[w] \in {"head", "body"} /\ objects[Hash(w)].there
  /\ \A w \in Workers :
       /\ wst[w] \in {"head", "body"} => Traits.inplace /\ (firstErr[w[1]] \/ w \in attached)
       /\ wst[w] = "put" => ~Traits.inplace
  /\ "edit" \notin Faults => edited = {}

\* A failed save in place may have left something incomplete.
Spoiled == Traits.inplace /\ ~Traits.cleans /\ \E p \in setting.procs : firstErr[p]

\* Each part of an object is written, or some worker is about to write it.
PartInv ==
  ~Spoiled =>
    \A h \in Hashes : objects[h].there =>
      /\ \/ objects[h].head \in Workers
         \/ \E w \in attached : wst[w] = "head" /\ Hash(w) = h
      /\ \/ objects[h].body \in Workers
         \/ \E w \in attached : Hash(w) = h

\* Who wrote the parts of an object.
WriterInv ==
  IF Traits.inplace
  THEN \A h \in Hashes : \A part \in {objects[h].head, objects[h].body} :
         part \in Workers => part[1] \in setting.procs /\ part[2] \in setting.pool
  ELSE \A h \in Hashes : objects[h].head = objects[h].body

\* Every piece of a hashed file is stored, or its worker has still to come to it.
DoneInv ==
  \A p \in Procs : pc[p] # "idle" /\ ~firstErr[p] =>
    \A f \in calculated[p] : \A i \in 1..Len(Pieces[format][f]) :
      \/ objects[Pieces[format][f][i]].there
      \/ \E w \in Workers :
           w[1] = p /\ wst[w] \in Saving /\ wfile[w] = f /\ wpiece[w] <= i

Published(h) ==
  \E p \in Procs : \E r \in Runs : Whole(manifests[p][r]) /\
    \E f \in manifests[p][r].files : \E i \in 1..Len(Pieces[format][f]) : Pieces[format][f][i] = h

\* What is published stays, and no worker that writes in place is at it.
PublishedInv ==
  /\ \A h \in Hashes : Published(h) => objects[h].there /\ Intact(h)
  /\ Traits.inplace =>
       \A h \in Hashes : Published(h) =>
         \A w \in Workers : wst[w] \in {"save", "head", "body"} => Hash(w) # h

\* Before the only run of a process that cleans nothing the repository is empty.
FreshInv ==
  Traits.inplace /\ ~Traits.cleans =>
    \A p \in setting.procs : run[p] = 0 => \A h \in Hashes : ~objects[h].there

StoreInv == HandleInv /\ PartInv /\ WriterInv /\ DoneInv /\ PublishedInv /\ FreshInv

IInv == TypeOK /\ PoolInv /\ HashedInv /\ ManifestsComplete /\ (Safe(setting) => StoreInv)

-----------------------------------------------------------------------------
(* Facts about the constants and the operators.                             *)

\* Every file has at least one piece in each format, and every piece is a hash.
LEMMA PieceFacts ==
  ASSUME NEW n \in {1, 2}, NEW f \in Files
  PROVE  /\ Len(Pieces[n][f]) \in Nat \ {0}
         /\ \A i \in 1..Len(Pieces[n][f]) : Pieces[n][f][i] \in Hashes
         /\ DOMAIN Pieces[n][f] = 1..Len(Pieces[n][f])
<1>1. Pieces[n][f] \in Seq(Hashes) /\ Pieces[n][f] # <<>>
  BY PiecesAssumption
<1> QED
  BY <1>1

\* What a setting consists of.
LEMMA SettingFacts ==
  ASSUME TypeOK
  PROVE  /\ setting.backend \in AllBackends /\ setting.format \in {1, 2}
         /\ setting.encrypted \in BOOLEAN /\ setting.procs \subseteq Procs
         /\ setting.runs \in 0..MaxRuns /\ setting.pool \subseteq PoolIds
<1>1. setting \in SettingType
  BY SettingsAssumption DEF TypeOK
<1> QED
  BY <1>1 DEF SettingType

\* A worker is a process and a place in its pool, and is at a hash.
LEMMA WorkerFacts ==
  ASSUME TypeOK, NEW w \in Workers
  PROVE  /\ w[1] \in Procs /\ w[2] \in PoolIds
         /\ wfile[w] \in Files /\ wpiece[w] \in 1..Len(Pieces[format][wfile[w]])
         /\ Len(Pieces[format][wfile[w]]) \in Nat /\ Hash(w) \in Hashes
<1>1. w[1] \in Procs /\ w[2] \in PoolIds
  BY DEF Workers
<1>2. format \in {1, 2}
  BY SettingFacts DEF format
<1>3. wfile[w] \in Files /\ wpiece[w] \in 1..Len(Pieces[format][wfile[w]])
  BY DEF TypeOK
<1> QED
  BY <1>1, <1>2, <1>3, PieceFacts DEF Hash

\* Every trait of a save is a Boolean.
LEMMA TraitFacts ==
  ASSUME TypeOK
  PROVE  /\ Traits.inplace \in BOOLEAN /\ Traits.exclusive \in BOOLEAN
         /\ Traits.validates \in BOOLEAN /\ Traits.cleans \in BOOLEAN
         /\ Traits.swallows \in BOOLEAN
         /\ Traits = TraitsOf(setting)
BY SettingFacts
   DEF Traits, TraitsOf, format, backend, AllBackends, SaveOf, SaveChunkOf,
       DiskSave, DiskSaveChunk, SshSave, SshSaveChunk, SmbSave, SmbSaveChunk,
       S3Save, S3SaveChunk, GcsSave, GcsSaveChunk, WebdavSave, WebdavSaveChunk

\* The states a manifest may be in while it is written, and after a failure.
LEMMA ManifestSaveFacts ==
  ASSUME TypeOK
  PROVE  /\ ManifestSaveOf(backend).open \subseteq {"none", "torn", "whole"}
         /\ ManifestSaveOf(backend).failed \subseteq {"none", "torn", "whole"}
BY SettingFacts
   DEF backend, AllBackends, ManifestSaveOf, DiskManifestSave, SshManifestSave,
       SmbManifestSave, S3ManifestSave, GcsManifestSave, WebdavManifestSave

\* In a safe setting a worker writes what was hashed.
LEMMA ContentFacts ==
  ASSUME TypeOK, Safe(setting), HandleInv, NEW w \in Workers
  PROVE  Content(w) = w
<1>1. Traits.validates \/ edited = {}
  BY TraitFacts DEF Safe, WholeObjects, InPlaceAlone, Faithful, HandleInv, Faults
<1> QED
  BY <1>1, TraitFacts DEF Content

\* An object is intact in terms of its format.
LEMMA IntactFacts ==
  ASSUME TypeOK, Safe(setting), WriterInv, NEW h \in Hashes,
         objects[h].head \in Workers, objects[h].body \in Workers
  PROVE  Intact(h)
<1>1. CASE ~Traits.inplace
  BY <1>1 DEF WriterInv, Intact
<1>2. CASE Traits.inplace /\ ~encrypted
  BY <1>2 DEF Intact
<1>3. CASE Traits.inplace /\ encrypted
  <2> DEFINE a == objects[h].head
             b == objects[h].body
  <2>1. /\ a[1] \in setting.procs /\ a[2] \in setting.pool
        /\ b[1] \in setting.procs /\ b[2] \in setting.pool
    BY <1>3 DEF WriterInv
  <2>2. InPlaceAlone(setting)
    BY <1>3, TraitFacts DEF Safe, WholeObjects
  <2>3. a[1] = b[1] /\ a[2] = b[2]
    BY <1>3, <2>1, <2>2 DEF InPlaceAlone, encrypted
  <2>4. a = b
    BY <2>3 DEF Workers
  <2> QED
    BY <2>4 DEF Intact
<1> QED
  BY <1>1, <1>2, <1>3, TraitFacts

-----------------------------------------------------------------------------
(* A step that neither writes objects nor moves a worker that saves.         *)

\* The frame of the store: such a step keeps all that is said about it.
LEMMA StoreFrame ==
  ASSUME TypeOK, StoreInv,
         UNCHANGED <<setting, objects, attached, firstErr, calculated>>,
         edited' \subseteq edited,
         \A w \in Workers : wst[w] \in Saving \/ wst'[w] \in Saving =>
           wst'[w] = wst[w] /\ wfile'[w] = wfile[w] /\ wpiece'[w] = wpiece[w],
         \A p \in Procs : /\ pc'[p] # "idle" => pc[p] # "idle"
                          /\ run'[p] = 0 => run[p] = 0,
         \A h \in Hashes : Published(h)' => Published(h)
  PROVE  StoreInv'
<1>1. Traits' = Traits /\ Faults' = Faults /\ format' = format /\ encrypted' = encrypted
  BY DEF Traits, Faults, format, backend, encrypted
<1>2. \A w \in Workers : wst[w] \in Saving \/ wst'[w] \in Saving => Hash(w)' = Hash(w)
  BY <1>1 DEF Hash
<1>3. attached \subseteq Workers
  BY DEF TypeOK
<1>4. HandleInv'
  BY <1>1, <1>2, <1>3 DEF StoreInv, HandleInv, Saving
<1>5. PartInv'
  <2>1. Spoiled' <=> Spoiled
    BY <1>1 DEF Spoiled
  <2>2. \A w \in attached : wst'[w] = wst[w] /\ Hash(w)' = Hash(w)
    BY <1>2, <1>3 DEF StoreInv, HandleInv, Saving
  <2> QED
    BY <2>1, <2>2 DEF StoreInv, PartInv
<1>6. WriterInv'
  BY <1>1 DEF StoreInv, WriterInv
<1>7. DoneInv'
  BY <1>1 DEF StoreInv, DoneInv
<1>8. PublishedInv'
  BY <1>1, <1>2 DEF StoreInv, PublishedInv, Intact, Saving
<1>9. FreshInv'
  BY <1>1, SettingFacts DEF StoreInv, FreshInv
<1> QED
  BY <1>4, <1>5, <1>6, <1>7, <1>8, <1>9 DEF StoreInv

\* What is published depends on the manifests alone.
LEMMA PublishedSame ==
  ASSUME UNCHANGED <<setting, manifests>>
  PROVE  \A h : Published(h)' <=> Published(h)
BY DEF Published, Whole, format

-----------------------------------------------------------------------------
(* The process.                                                             *)

\* The invariant holds when nothing is stored and no process runs.
LEMMA InitInv == Init => IInv
<1> SUFFICES ASSUME Init PROVE IInv
  OBVIOUS
<1>0. PICK f \in Files : wfile = [w \in Workers |-> f]
  BY DEF Init
<1>1. setting \in SettingType /\ format \in {1, 2}
  BY SettingsAssumption DEF Init, SettingType, format
<1>2. TypeOK
  <2>1. objects \in [Hashes -> [there : BOOLEAN, head : Parts, body : Parts]]
    BY DEF Init, NoObject, Parts
  <2>2. manifests \in [Procs -> [Runs -> [state : {"none", "torn", "whole"}, files : SUBSET Files]]]
    BY DEF Init, NoManifest
  <2>3. \A w \in Workers : wpiece[w] \in 1..Len(Pieces[format][wfile[w]])
    BY <1>0, <1>1, PieceFacts DEF Init
  <2>4. wfile \in [Workers -> Files] /\ wpiece \in [Workers -> Nat]
    BY <1>0 DEF Init
  <2>5. MaxRuns \in Nat
    BY SettingsAssumption
  <2> QED
    BY <2>1, <2>2, <2>3, <2>4, <2>5 DEF Init, TypeOK, WorkerStates
<1>3. PoolInv /\ HashedInv /\ ManifestsComplete
  BY DEF Init, PoolInv, HashedInv, ManifestsComplete, Live, Saving, Whole, NoManifest
<1>4. StoreInv
  <2>1. HandleInv /\ PartInv /\ FreshInv
    BY DEF Init, HandleInv, PartInv, FreshInv, NoObject
  <2>2. WriterInv
    <3>1. Missing \notin Workers
      BY DEF Missing, Workers
    <3> QED
      BY <3>1 DEF Init, WriterInv, NoObject
  <2>3. DoneInv
    BY DEF Init, DoneInv
  <2>4. PublishedInv
    BY DEF Init, PublishedInv, Published, Whole, NoManifest
  <2> QED
    BY <2>1, <2>2, <2>3, <2>4 DEF StoreInv
<1> QED
  BY <1>2, <1>3, <1>4 DEF IInv

\* A run starts with every file in the feed and nothing hashed.
LEMMA StartInv == ASSUME IInv, NEW p \in Procs, Start(p) PROVE IInv'
<1>1. /\ TypeOK /\ PoolInv /\ HashedInv
      /\ UNCHANGED <<setting, objects, manifests, wfile, wpiece, attached, edited>>
      /\ p \in setting.procs /\ pc[p] = "idle" /\ run[p] < setting.runs
  BY DEF IInv, Start
<1>2. /\ run' = [run EXCEPT ![p] = @ + 1]
      /\ pc' = [pc EXCEPT ![p] = "running"]
      /\ feed' = [feed EXCEPT ![p] = Files]
      /\ indexes' = [indexes EXCEPT ![p] = "open"]
      /\ calculated' = [calculated EXCEPT ![p] = {}]
      /\ firstErr' = [firstErr EXCEPT ![p] = FALSE]
      /\ ctxDone' = [ctxDone EXCEPT ![p] = FALSE]
  BY DEF Start
<1>3. /\ wst' = [w \in Workers |->
               IF w[1] # p THEN wst[w] ELSE IF w[2] \in setting.pool THEN "ready" ELSE "off"]
      /\ \A w \in Workers : w[1] # p => wst'[w] = wst[w]
      /\ \A w \in Workers : w[1] = p => /\ wst[w] \notin Live /\ wst'[w] \in {"ready", "off"}
                                        /\ wst'[w] = "ready" => w[2] \in setting.pool
  BY <1>1 DEF Start, PoolInv
<1>4. run[p] + 1 \in Runs /\ run'[p] = run[p] + 1
  BY <1>1, <1>2, SettingFacts, SettingsAssumption DEF TypeOK, Runs
<1>5. TypeOK'
  <2>1. run' \in [Procs -> 0..MaxRuns]
    BY <1>1, <1>2, <1>4, SettingsAssumption DEF TypeOK, Runs
  <2>2. wst' \in [Workers -> WorkerStates]
    BY <1>1, <1>3 DEF TypeOK, WorkerStates
  <2> QED
    BY <1>1, <1>2, <2>1, <2>2 DEF TypeOK, format
<1>6. PoolInv'
  <2>1. \A w \in Workers : wst'[w] \in Live => pc'[w[1]] = "running" /\ w[2] \in setting.pool
    <3> SUFFICES ASSUME NEW w \in Workers, wst'[w] \in Live
                 PROVE  pc'[w[1]] = "running" /\ w[2] \in setting.pool
      OBVIOUS
    <3>1. w[1] \in Procs
      BY DEF Workers
    <3> QED
      BY <1>1, <1>2, <1>3, <3>1 DEF PoolInv, TypeOK, Live, Saving
  <2>2. \A q \in Procs :
       /\ pc'[q] # "idle" => q \in setting.procs /\ run'[q] \in Runs
       /\ indexes'[q] = "open" => pc'[q] = "running"
       /\ pc'[q] # "idle" /\ indexes'[q] = "closed" => feed'[q] = {} \/ ctxDone'[q]
       /\ pc'[q] \in {"publish", "write"} => ~firstErr'[q] /\ indexes'[q] = "closed"
    BY <1>1, <1>2, <1>4 DEF PoolInv, TypeOK
  <2> QED
    BY <1>1, <2>1, <2>2 DEF PoolInv
<1>7. HashedInv' /\ ManifestsComplete'
  <2>1. \A w \in Workers : wst[w] = "hash" <=> wst'[w] = "hash"
    BY <1>3 DEF Live
  <2> QED
    BY <1>1, <1>2, <2>1 DEF IInv, HashedInv, ManifestsComplete, TypeOK
<1>8. ASSUME Safe(setting) PROVE StoreInv'
  <2>1. StoreInv
    BY <1>8 DEF IInv
  <2>2. Traits' = Traits /\ Faults' = Faults /\ format' = format /\ encrypted' = encrypted
    BY <1>1 DEF Traits, Faults, format, backend, encrypted
  <2>3. \A w \in Workers : Hash(w)' = Hash(w)
    BY <1>1, <2>2 DEF Hash
  <2>4. /\ \A w \in Workers : wst'[w] \in Saving => wst'[w] = wst[w] /\ w[1] # p
        /\ \A w \in Workers : wst[w] \in Saving => wst'[w] = wst[w] /\ w[1] # p
    BY <1>3 DEF Live, Saving
  <2>5. attached \subseteq Workers
    BY <1>1 DEF TypeOK
  <2>6. HandleInv'
    <3>1. \A w \in Workers : w[1] \in Procs
      BY DEF Workers
    <3> QED
      BY <1>1, <1>2, <2>1, <2>2, <2>3, <2>4, <2>5, <3>1 DEF StoreInv, HandleInv, Saving, TypeOK
  <2>7. PartInv'
    <3>1. \A w \in attached : wst'[w] = wst[w] /\ Hash(w)' = Hash(w)
      BY <2>1, <2>3, <2>4, <2>5 DEF StoreInv, HandleInv, Saving
    <3>2. CASE ~Spoiled
      BY <1>1, <2>1, <3>1, <3>2 DEF StoreInv, PartInv
    <3>3. CASE Spoiled
      <4>1. InPlaceAlone(setting) /\ ~TraitsOf(setting).cleans
        BY <1>1, <1>8, <3>3, TraitFacts DEF Safe, WholeObjects, Spoiled
      <4>2. run[p] = 0
        BY <1>1, <4>1, SettingFacts DEF InPlaceAlone, TypeOK
      <4>3. \A h \in Hashes : ~objects[h].there
        BY <1>1, <2>1, <3>3, <4>2 DEF StoreInv, FreshInv, Spoiled
      <4> QED
        BY <1>1, <4>3 DEF PartInv
    <3> QED
      BY <3>2, <3>3
  <2>8. WriterInv'
    BY <1>1, <2>1, <2>2 DEF StoreInv, WriterInv
  <2>9. DoneInv'
    <3>1. calculated'[p] = {}
      BY <1>1, <1>2 DEF TypeOK
    <3>2. ASSUME NEW q \in Procs, q # p
          PROVE  pc'[q] = pc[q] /\ firstErr'[q] = firstErr[q] /\ calculated'[q] = calculated[q]
      BY <1>1, <1>2, <3>2 DEF TypeOK
    <3> QED
      BY <1>1, <2>1, <2>2, <2>4, <3>1, <3>2 DEF StoreInv, DoneInv
  <2>10. PublishedInv'
    BY <1>1, <2>1, <2>2, <2>3, <2>4, PublishedSame DEF StoreInv, PublishedInv, Intact, Saving
  <2>11. FreshInv'
    BY <1>1, <1>2, <1>4, <2>1, <2>2, SettingFacts DEF StoreInv, FreshInv, Runs, TypeOK
  <2> QED
    BY <2>6, <2>7, <2>8, <2>9, <2>10, <2>11 DEF StoreInv
<1> QED
  BY <1>1, <1>5, <1>6, <1>7, <1>8 DEF IInv

\* A run that fails before it has a pool; the feeder stops; Wait returns; the caller
\* cancels.  None of them writes anything.
LEMMA ProcessInv ==
  ASSUME IInv, NEW p \in Procs,
         StartFails(p) \/ FeederStops(p) \/ WaitReturns(p) \/ Cancel(p)
  PROVE  IInv'
<1> USE DEF workerVars
<1>1. /\ TypeOK /\ PoolInv /\ HashedInv
      /\ UNCHANGED <<setting, objects, manifests, feed, calculated, firstErr>>
      /\ UNCHANGED <<wst, wfile, wpiece, attached, edited>>
  BY DEF IInv, StartFails, FeederStops, WaitReturns, Cancel
<1>2. TypeOK'
  <2>1. StartFails(p) => run' \in [Procs -> 0..MaxRuns]
    BY <1>1, SettingFacts, SettingsAssumption DEF StartFails, TypeOK
  <2> QED
    BY <1>1, <2>1 DEF TypeOK, format, StartFails, FeederStops, WaitReturns, Cancel
<1>3. PoolInv'
  <2>1. WaitReturns(p) => \A w \in Workers : wst[w] \in Live => w[1] # p
    BY DEF WaitReturns, Live, Saving
  <2>2. \A w \in Workers : w[1] \in Procs
    BY DEF Workers
  <2>3. CASE StartFails(p)
    BY <1>1, <2>3, SettingFacts, SettingsAssumption DEF PoolInv, StartFails, TypeOK, Runs
  <2>4. CASE FeederStops(p)
    BY <1>1, <2>4 DEF PoolInv, FeederStops, TypeOK
  <2>5. CASE WaitReturns(p)
    BY <1>1, <2>1, <2>2, <2>5 DEF PoolInv, WaitReturns, TypeOK
  <2>6. CASE Cancel(p)
    BY <1>1, <2>6 DEF PoolInv, Cancel, TypeOK
  <2> QED
    BY <2>3, <2>4, <2>5, <2>6
<1>4. HashedInv' /\ ManifestsComplete'
  BY <1>1 DEF IInv, HashedInv, ManifestsComplete, TypeOK, StartFails, FeederStops, WaitReturns, Cancel
<1>5. ASSUME Safe(setting) PROVE StoreInv'
  <2>1. \A q \in Procs : (pc'[q] # "idle" => pc[q] # "idle") /\ (run'[q] = 0 => run[q] = 0)
    BY <1>1 DEF StartFails, FeederStops, WaitReturns, Cancel, TypeOK
  <2> QED
    BY <1>1, <1>5, <2>1, StoreFrame, PublishedSame DEF IInv
<1> QED
  BY <1>1, <1>2, <1>3, <1>4, <1>5 DEF IInv

\* When the manifest is written, every piece it refers to is stored and intact, and no
\* worker is left that could write one in place.
LEMMA ReadyToPublish ==
  ASSUME TypeOK, PoolInv, Safe(setting), StoreInv, NEW p \in Procs,
         pc[p] \in {"publish", "write"}
  PROVE  /\ \A f \in calculated[p] : \A i \in 1..Len(Pieces[format][f]) :
              objects[Pieces[format][f][i]].there /\ Intact(Pieces[format][f][i])
         /\ Traits.inplace => \A w \in Workers : wst[w] \notin Live
<1>1. p \in setting.procs /\ ~firstErr[p]
  BY DEF PoolInv
<1>2. \A w \in Workers : w[1] = p => wst[w] \notin Live
  BY DEF PoolInv
<1>3. Traits.inplace => \A w \in Workers : wst[w] \notin Live
  <2> SUFFICES ASSUME Traits.inplace, NEW w \in Workers, wst[w] \in Live PROVE FALSE
    OBVIOUS
  <2>1. w[1] \in Procs /\ w[1] \in setting.procs
    BY WorkerFacts DEF PoolInv
  <2>2. w[1] = p
    BY <1>1, <2>1, TraitFacts DEF Safe, WholeObjects, InPlaceAlone
  <2> QED
    BY <1>2, <2>2
<1>4. attached = {}
  <2>1. \A w \in attached : w \in Workers /\ wst[w] \in Live /\ Traits.inplace
    BY DEF StoreInv, HandleInv, TypeOK, Live, Saving
  <2> QED
    BY <1>3, <2>1
<1>5. ~Spoiled
  BY <1>1, TraitFacts DEF Spoiled, Safe, WholeObjects, InPlaceAlone
<1>6. ASSUME NEW f \in calculated[p], NEW i \in 1..Len(Pieces[format][f])
      PROVE  objects[Pieces[format][f][i]].there /\ Intact(Pieces[format][f][i])
  <2> DEFINE h == Pieces[format][f][i]
  <2>1. f \in Files /\ h \in Hashes
    BY PieceFacts, SettingFacts DEF TypeOK, format
  <2>2. \A w \in Workers : w[1] = p => wst[w] \notin Saving
    BY <1>2 DEF Live
  <2>3. objects[h].there
    BY <1>1, <2>2 DEF StoreInv, DoneInv
  <2>4. objects[h].head \in Workers /\ objects[h].body \in Workers
    BY <1>4, <1>5, <2>1, <2>3 DEF StoreInv, PartInv
  <2> QED
    BY <2>1, <2>3, <2>4, IntactFacts DEF StoreInv
<1> QED
  BY <1>3, <1>6

\* The write begins, or ends, well or badly: whatever the manifest is now, it lists the
\* files hashed, which are all.
LEMMA ManifestStepInv ==
  ASSUME IInv, NEW p \in Procs, pc[p] \in {"publish", "write"}, calculated[p] = Files,
         NEW s \in {"none", "torn", "whole"}, NEW t \in {"write", "idle"},
         manifests' = [manifests EXCEPT ![p][run[p]] = [state |-> s, files |-> calculated[p]]],
         pc' = [pc EXCEPT ![p] = t],
         UNCHANGED <<setting, objects, run, feed, indexes, calculated, firstErr, ctxDone, workerVars>>
  PROVE  IInv'
<1> USE DEF workerVars
<1>1. /\ TypeOK /\ PoolInv /\ HashedInv /\ ManifestsComplete
      /\ run[p] \in Runs
  BY DEF IInv, PoolInv
<1>2. /\ manifests' \in [Procs -> [Runs -> [state : {"none", "torn", "whole"}, files : SUBSET Files]]]
      /\ manifests'[p][run[p]] = [state |-> s, files |-> calculated[p]]
      /\ \A q \in Procs : \A r \in Runs :
           ~(q = p /\ r = run[p]) => manifests'[q][r] = manifests[q][r]
  BY <1>1 DEF TypeOK
<1>3. TypeOK'
  BY <1>1, <1>2 DEF TypeOK, format
<1>4. PoolInv' /\ HashedInv'
  <2>1. \A w \in Workers : w[1] \in Procs
    BY DEF Workers
  <2>2. indexes[p] = "closed" /\ \A w \in Workers : w[1] = p => wst[w] \notin Live
    BY <1>1 DEF PoolInv
  <2> QED
    BY <1>1, <2>1, <2>2 DEF PoolInv, HashedInv, TypeOK
<1>5. ManifestsComplete'
  <2> SUFFICES ASSUME NEW q \in Procs, NEW r \in Runs, Whole(manifests[q][r])'
               PROVE  manifests'[q][r].files = Files
    BY DEF ManifestsComplete
  <2>1. CASE q = p /\ r = run[p]
    BY <1>1, <1>2, <2>1
  <2>2. CASE ~(q = p /\ r = run[p])
    BY <1>1, <1>2, <2>2 DEF ManifestsComplete, Whole
  <2> QED
    BY <2>1, <2>2
<1>6. ASSUME Safe(setting) PROVE StoreInv'
  <2>1. StoreInv
    BY <1>6 DEF IInv
  <2>2. Traits' = Traits /\ Faults' = Faults /\ format' = format /\ encrypted' = encrypted
    BY DEF Traits, Faults, format, backend, encrypted
  <2>3. \A w \in Workers : Hash(w)' = Hash(w)
    BY <2>2 DEF Hash
  <2>4. HandleInv' /\ PartInv' /\ WriterInv' /\ FreshInv'
    <3>1. attached \subseteq Workers
      BY <1>1 DEF TypeOK
    <3> QED
      BY <2>1, <2>2, <2>3, <3>1
         DEF StoreInv, HandleInv, PartInv, Spoiled, WriterInv, FreshInv
  <2>5. DoneInv'
    <3>1. \A q \in Procs : pc'[q] # "idle" => pc[q] # "idle"
      BY <1>1 DEF TypeOK
    <3> QED
      BY <2>1, <2>2, <3>1 DEF StoreInv, DoneInv
  <2>6. PublishedInv'
    <3>1. ASSUME NEW h \in Hashes, Published(h)'
          PROVE  \/ Published(h)
                 \/ \E f \in calculated[p] : \E i \in 1..Len(Pieces[format][f]) : Pieces[format][f][i] = h
      <4>1. PICK q \in Procs, r \in Runs : Whole(manifests[q][r])' /\
              \E f \in manifests'[q][r].files : \E i \in 1..Len(Pieces[format][f]) : Pieces[format][f][i] = h
        BY <2>2, <3>1 DEF Published
      <4>2. CASE q = p /\ r = run[p]
        BY <1>2, <4>1, <4>2
      <4>3. CASE ~(q = p /\ r = run[p])
        BY <1>2, <4>1, <4>3 DEF Published, Whole
      <4> QED
        BY <4>2, <4>3
    <3>2. /\ \A f \in calculated[p] : \A i \in 1..Len(Pieces[format][f]) :
              objects[Pieces[format][f][i]].there /\ Intact(Pieces[format][f][i])
          /\ Traits.inplace => \A w \in Workers : wst[w] \notin Live
      BY <1>1, <1>6, <2>1, ReadyToPublish
    <3>3. \A h \in Hashes : Published(h)' => objects[h].there /\ Intact(h)
      BY <2>1, <3>1, <3>2 DEF StoreInv, PublishedInv
    <3> QED
      BY <2>2, <3>2, <3>3 DEF PublishedInv, Intact, Live, Saving
  <2> QED
    BY <2>4, <2>5, <2>6 DEF StoreInv
<1> QED
  BY <1>1, <1>3, <1>4, <1>5, <1>6 DEF IInv

\* ManifestRepository.Save begins: every worker has returned on a live context, so every
\* file has its hash.
LEMMA PublishStartsInv == ASSUME IInv, NEW p \in Procs, PublishStarts(p) PROVE IInv'
<1>1. TypeOK /\ PoolInv /\ HashedInv /\ pc[p] = "publish" /\ ~ctxDone[p]
  BY DEF IInv, PublishStarts
<1>2. PICK s \in ManifestSaveOf(backend).open :
        manifests' = [manifests EXCEPT ![p][run[p]] = [state |-> s, files |-> calculated[p]]]
  BY DEF PublishStarts
<1>3. s \in {"none", "torn", "whole"}
  BY <1>1, <1>2, ManifestSaveFacts
<1>4. calculated[p] = Files
  <2>1. feed[p] = {} /\ ~firstErr[p]
    BY <1>1 DEF PoolInv, TypeOK
  <2>2. \A w \in Workers : w[1] = p => wst[w] # "hash"
    BY <1>1 DEF PoolInv, Live
  <2>3. \A f \in Files : f \in calculated[p]
    BY <1>1, <2>1, <2>2 DEF HashedInv
  <2> QED
    BY <1>1, <2>3 DEF TypeOK
<1> QED
  BY <1>1, <1>2, <1>3, <1>4, ManifestStepInv DEF PublishStarts

\* The manifest is there.
LEMMA PublishReturnsInv == ASSUME IInv, NEW p \in Procs, PublishReturns(p) PROVE IInv'
<1>1. pc[p] = "write" /\ calculated[p] = Files
  BY DEF IInv, HashedInv, PublishReturns
<1> QED
  BY <1>1, ManifestStepInv DEF PublishReturns

\* Save of the manifest fails, before it wrote anything or after.
LEMMA PublishFailsInv == ASSUME IInv, NEW p \in Procs, PublishFails(p) PROVE IInv'
<1> USE DEF workerVars
<1>1. CASE pc[p] = "publish"
  <2>1. /\ TypeOK /\ PoolInv /\ HashedInv
        /\ UNCHANGED <<setting, objects, manifests, run, feed, indexes, calculated, firstErr, ctxDone>>
        /\ UNCHANGED <<wst, wfile, wpiece, attached, edited>>
        /\ pc' = [pc EXCEPT ![p] = "idle"]
    BY <1>1 DEF IInv, PublishFails
  <2>2. TypeOK'
    BY <2>1 DEF TypeOK, format
  <2>3. PoolInv' /\ HashedInv' /\ ManifestsComplete'
    <3>1. \A w \in Workers : w[1] \in Procs
      BY DEF Workers
    <3>2. indexes[p] = "closed" /\ \A w \in Workers : w[1] = p => wst[w] \notin Live
      BY <1>1, <2>1 DEF PoolInv
    <3> QED
      BY <2>1, <3>1, <3>2 DEF IInv, PoolInv, HashedInv, ManifestsComplete, TypeOK
  <2>4. ASSUME Safe(setting) PROVE StoreInv'
    <3>1. \A q \in Procs : (pc'[q] # "idle" => pc[q] # "idle") /\ (run'[q] = 0 => run[q] = 0)
      BY <2>1 DEF TypeOK
    <3> QED
      BY <2>1, <2>4, <3>1, StoreFrame, PublishedSame DEF IInv
  <2> QED
    BY <2>1, <2>2, <2>3, <2>4 DEF IInv
<1>2. CASE pc[p] = "write"
  <2>1. PICK s \in ManifestSaveOf(backend).failed :
          manifests' = [manifests EXCEPT ![p][run[p]] = [state |-> s, files |-> calculated[p]]]
    BY <1>2 DEF PublishFails
  <2>2. s \in {"none", "torn", "whole"} /\ calculated[p] = Files
    BY <1>2, <2>1, ManifestSaveFacts DEF IInv, HashedInv
  <2> QED
    BY <1>2, <2>1, <2>2, ManifestStepInv DEF PublishFails
<1> QED
  BY <1>1, <1>2 DEF PublishFails

\* The process dies: only where objects appear whole is that among the safe settings.
LEMMA CrashInv == ASSUME IInv, NEW p \in Procs, Crash(p) PROVE IInv'
<1>1. /\ TypeOK /\ PoolInv /\ HashedInv /\ "crash" \in Faults
      /\ UNCHANGED <<setting, objects, manifests, run, feed, calculated, firstErr, ctxDone, wfile,
                     wpiece, edited>>
      /\ pc' = [pc EXCEPT ![p] = "idle"] /\ indexes' = [indexes EXCEPT ![p] = "closed"]
      /\ wst' = [w \in Workers |-> IF w[1] = p THEN "off" ELSE wst[w]]
      /\ attached' = {w \in attached : w[1] # p}
  BY DEF IInv, Crash
<1>2. TypeOK'
  BY <1>1 DEF TypeOK, format, WorkerStates
<1>3. PoolInv' /\ HashedInv' /\ ManifestsComplete'
  <2>1. \A w \in Workers : w[1] \in Procs
    BY DEF Workers
  <2>2. PoolInv'
    BY <1>1, <2>1 DEF PoolInv, Live, Saving, TypeOK
  <2>3. HashedInv'
    <3>1. \A q \in Procs : pc'[q] # "idle" => q # p /\ pc'[q] = pc[q]
      BY <1>1 DEF TypeOK
    <3>2. \A w \in Workers : w[1] # p => wst'[w] = wst[w]
      BY <1>1
    <3> QED
      BY <1>1, <3>1, <3>2 DEF HashedInv
  <2>4. ManifestsComplete'
    BY <1>1 DEF IInv, ManifestsComplete
  <2> QED
    BY <2>2, <2>3, <2>4
<1>4. ASSUME Safe(setting) PROVE StoreInv'
  <2>1. StoreInv /\ ~Traits.inplace
    BY <1>1, <1>4, TraitFacts DEF IInv, Safe, InPlaceAlone, WholeObjects, Faults
  <2>2. Traits' = Traits /\ Faults' = Faults /\ format' = format /\ encrypted' = encrypted
    BY <1>1 DEF Traits, Faults, format, backend, encrypted
  <2>3. attached = {} /\ attached' = {}
    BY <1>1, <2>1 DEF StoreInv, HandleInv, TypeOK
  <2>4. HandleInv'
    BY <1>1, <2>1, <2>2, <2>3 DEF StoreInv, HandleInv
  <2>5. PartInv' /\ WriterInv' /\ FreshInv'
    BY <1>1, <2>1, <2>2, <2>3 DEF StoreInv, PartInv, Spoiled, WriterInv, FreshInv
  <2>6. DoneInv'
    <3>1. \A q \in Procs : pc'[q] # "idle" => q # p /\ pc[q] # "idle"
      BY <1>1 DEF TypeOK
    <3>2. \A w \in Workers : w[1] # p => wst'[w] = wst[w]
      BY <1>1
    <3> QED
      BY <1>1, <2>1, <2>2, <3>1, <3>2 DEF StoreInv, DoneInv
  <2>7. PublishedInv'
    BY <1>1, <2>1, <2>2, PublishedSame DEF StoreInv, PublishedInv, Intact
  <2> QED
    BY <2>4, <2>5, <2>6, <2>7 DEF StoreInv
<1> QED
  BY <1>1, <1>2, <1>3, <1>4 DEF IInv

-----------------------------------------------------------------------------
(* The workers.                                                             *)

\* A step of one worker that is past hashing, and stays in its run, disturbs neither the
\* phases nor the bookkeeping of the hashes.
LEMMA PoolFrame ==
  ASSUME IInv, NEW w \in Workers, wst[w] \in Saving \cup {"ready"},
         UNCHANGED <<setting, manifests, procVars, wfile>>,
         wst'[w] \in Live \cup {"done"}, wst'[w] # "hash",
         \A v \in Workers : v # w => wst'[v] = wst[v] /\ wpiece'[v] = wpiece[v]
  PROVE  PoolInv' /\ HashedInv' /\ ManifestsComplete'
<1> USE DEF procVars
<1>1. PoolInv'
  BY DEF IInv, PoolInv, Live, Saving
<1>2. HashedInv'
  <2>1. \A v \in Workers : wst[v] = "hash" => wst'[v] = "hash"
    BY DEF Saving
  <2>2. \A v \in Workers : wst'[v] = "hash" => wst[v] = "hash" /\ wpiece'[v] = wpiece[v]
    OBVIOUS
  <2> QED
    BY <2>1, <2>2 DEF IInv, HashedInv
<1>3. ManifestsComplete'
  BY DEF IInv, ManifestsComplete
<1> QED
  BY <1>1, <1>2, <1>3

\* After a piece comes the next one, or the end of the file.
LEMMA NextPieceFacts ==
  ASSUME TypeOK, NEW w \in Workers, NextPieceOrFile(w), UNCHANGED <<setting, wfile>>
  PROVE  /\ wst' \in [Workers -> WorkerStates] /\ wpiece' \in [Workers -> Nat]
         /\ \A v \in Workers : wpiece'[v] \in 1..Len(Pieces[format][wfile[v]])
         /\ \A v \in Workers : v # w => wst'[v] = wst[v] /\ wpiece'[v] = wpiece[v]
         /\ \/ wst'[w] = "check" /\ wpiece'[w] = wpiece[w] + 1
            \/ wst'[w] = "ready" /\ wpiece[w] = Len(Pieces[format][wfile[w]])
<1>1. /\ wpiece[w] \in 1..Len(Pieces[format][wfile[w]])
      /\ Len(Pieces[format][wfile[w]]) \in Nat
  BY WorkerFacts
<1>2. /\ wst \in [Workers -> WorkerStates] /\ wpiece \in [Workers -> Nat]
      /\ \A v \in Workers : wpiece[v] \in 1..Len(Pieces[format][wfile[v]])
  BY DEF TypeOK
<1>3. CASE wpiece[w] < Len(Pieces[format][wfile[w]])
  <2>1. wpiece' = [wpiece EXCEPT ![w] = @ + 1] /\ wst' = [wst EXCEPT ![w] = "check"]
    BY <1>3 DEF NextPieceOrFile
  <2>2. wst' \in [Workers -> WorkerStates] /\ wst'[w] = "check"
    BY <1>2, <2>1 DEF WorkerStates
  <2>3. wpiece' \in [Workers -> Nat] /\ wpiece'[w] = wpiece[w] + 1
    BY <1>2, <2>1
  <2>4. wpiece'[w] \in 1..Len(Pieces[format][wfile[w]])
    BY <1>1, <1>3, <2>3
  <2>5. \A v \in Workers : v # w => wst'[v] = wst[v] /\ wpiece'[v] = wpiece[v]
    BY <1>2, <2>1
  <2> QED
    BY <1>2, <2>2, <2>3, <2>4, <2>5
<1>4. CASE ~(wpiece[w] < Len(Pieces[format][wfile[w]]))
  <2>1. wpiece' = wpiece /\ wst' = [wst EXCEPT ![w] = "ready"]
    BY <1>4 DEF NextPieceOrFile
  <2>2. wst' \in [Workers -> WorkerStates] /\ wst'[w] = "ready"
    BY <1>2, <2>1 DEF WorkerStates
  <2>3. wpiece[w] = Len(Pieces[format][wfile[w]])
    BY <1>1, <1>4
  <2>4. \A v \in Workers : v # w => wst'[v] = wst[v] /\ wpiece'[v] = wpiece[v]
    BY <1>2, <2>1
  <2> QED
    BY <1>2, <2>1, <2>2, <2>3, <2>4
<1> QED
  BY <1>3, <1>4

\* What a worker that saves is sure of in a safe setting: its run is under way, and where
\* it writes in place no other process is.
LEMMA SaverFacts ==
  ASSUME TypeOK, PoolInv, NEW w \in Workers, wst[w] \in Live
  PROVE  /\ w[1] \in Procs /\ w[1] \in setting.procs /\ pc[w[1]] = "running" /\ run[w[1]] # 0
         /\ Safe(setting) /\ Traits.inplace =>
              \A q \in Procs : pc[q] # "idle" \/ q \in setting.procs => q = w[1]
<1>1. w[1] \in Procs
  BY WorkerFacts
<1>2. w[1] \in setting.procs /\ pc[w[1]] = "running" /\ run[w[1]] \in Runs
  BY <1>1 DEF PoolInv
<1>3. run[w[1]] # 0
  BY <1>2, SettingsAssumption DEF Runs
<1>4. Safe(setting) /\ Traits.inplace => \A q \in setting.procs : q = w[1]
  BY <1>2, TraitFacts DEF Safe, WholeObjects, InPlaceAlone
<1> QED
  BY <1>1, <1>2, <1>3, <1>4 DEF PoolInv

\* A worker is done with its piece: the object is there, found or written.
LEMMA Advance ==
  ASSUME TypeOK, PoolInv, Safe(setting), StoreInv,
         NEW w \in Workers, wst[w] \in Saving, NextPieceOrFile(w),
         UNCHANGED <<setting, manifests, procVars, wfile, edited>>,
         attached' = attached \ {w}, DOMAIN objects' = Hashes,
         \A h \in Hashes : h # Hash(w) => objects'[h] = objects[h],
         firstErr[w[1]] \/ objects'[Hash(w)].there,
         \/ w \notin attached /\ objects'[Hash(w)] = objects[Hash(w)]
         \/ /\ w \in attached /\ wst[w] = "body"
            /\ objects'[Hash(w)] = [objects[Hash(w)] EXCEPT !.body = w]
         \/ wst[w] = "put" /\ objects'[Hash(w)] = Object(w, w)
  PROVE  StoreInv'
<1> USE DEF procVars
<1> DEFINE h0 == Hash(w)
<1>1. h0 \in Hashes /\ w[1] \in Procs
  BY WorkerFacts
<1>2. Traits' = Traits /\ Faults' = Faults /\ format' = format /\ encrypted' = encrypted
  BY DEF Traits, Faults, format, backend, encrypted
<1>3. /\ \A v \in Workers : v # w => wst'[v] = wst[v] /\ wpiece'[v] = wpiece[v]
      /\ \/ wst'[w] = "check" /\ wpiece'[w] = wpiece[w] + 1
         \/ wst'[w] = "ready" /\ wpiece[w] = Len(Pieces[format][wfile[w]])
  BY NextPieceFacts
<1>4. \A v \in Workers : v # w => Hash(v)' = Hash(v)
  BY <1>2, <1>3 DEF Hash
<1>5. objects[h0] \in [there : BOOLEAN, head : Parts, body : Parts]
  BY <1>1 DEF TypeOK
<1>6. /\ objects[h0].there => objects'[h0].there
      /\ objects'[h0].head \in {objects[h0].head, w}
      /\ objects'[h0].body \in {objects[h0].body, w}
      /\ w \in attached => objects'[h0].body = w /\ wst[w] = "body"
  BY <1>5 DEF StoreInv, HandleInv, Object
<1>7. \A h \in Hashes : objects[h].there => objects'[h].there
  BY <1>6
<1>8. HandleInv'
  <2>1. attached \subseteq Workers
    BY DEF TypeOK
  <2> QED
    BY <1>1, <1>2, <1>3, <1>4, <1>7, <2>1, WorkerFacts DEF StoreInv, HandleInv
<1>9. PartInv'
  <2> SUFFICES ASSUME ~Spoiled, NEW h \in Hashes, objects'[h].there
               PROVE  /\ \/ objects'[h].head \in Workers
                         \/ \E v \in attached' : wst'[v] = "head" /\ Hash(v)' = h
                      /\ \/ objects'[h].body \in Workers
                         \/ \E v \in attached' : Hash(v)' = h
    BY <1>2 DEF PartInv, Spoiled
  <2>1. \A v \in attached' : v \in attached /\ wst'[v] = wst[v] /\ Hash(v)' = Hash(v)
    BY <1>3, <1>4 DEF TypeOK
  <2>2. CASE objects[h].there
    <3>1. objects[h].head \in Workers \/ \E v \in attached : wst[v] = "head" /\ Hash(v) = h
      BY <2>2 DEF StoreInv, PartInv
    <3>2. objects[h].body \in Workers \/ \E v \in attached : Hash(v) = h
      BY <2>2 DEF StoreInv, PartInv
    <3>3. objects'[h].head \in Workers \/ \E v \in attached' : wst'[v] = "head" /\ Hash(v)' = h
      BY <1>6, <2>1, <3>1
    <3>4. objects'[h].body \in Workers \/ \E v \in attached' : Hash(v)' = h
      <4>1. CASE h = h0 /\ w \in attached
        BY <1>6, <4>1
      <4>2. CASE ~(h = h0 /\ w \in attached)
        BY <1>6, <2>1, <3>2, <4>2
      <4> QED
        BY <4>1, <4>2
    <3> QED
      BY <3>3, <3>4
  <2>3. CASE ~objects[h].there
    <3>1. h = h0 /\ objects'[h0] = Object(w, w)
      BY <1>5, <2>3 DEF StoreInv, HandleInv
    <3> QED
      BY <3>1 DEF Object
  <2> QED
    BY <2>2, <2>3
<1>10. WriterInv'
  <2>1. CASE Traits.inplace
    <3>1. w[1] \in setting.procs /\ w[2] \in setting.pool
      BY <1>1 DEF PoolInv, Live
    <3> QED
      BY <1>2, <1>6, <2>1, <3>1 DEF StoreInv, WriterInv
  <2>2. CASE ~Traits.inplace
    <3>1. wst[w] # "body" /\ w \notin attached
      BY <2>2 DEF StoreInv, HandleInv
    <3>2. objects'[h0].head = objects'[h0].body
      BY <1>1, <2>2, <3>1 DEF StoreInv, WriterInv, Object
    <3> QED
      BY <1>2, <2>2, <3>2 DEF StoreInv, WriterInv
  <2> QED
    BY <2>1, <2>2
<1>11. DoneInv'
  <2> SUFFICES ASSUME NEW p \in Procs, pc[p] # "idle", ~firstErr[p],
                      NEW f \in calculated[p], NEW i \in 1..Len(Pieces[format][f])
               PROVE  \/ objects'[Pieces[format][f][i]].there
                      \/ \E v \in Workers :
                           v[1] = p /\ wst'[v] \in Saving /\ wfile[v] = f /\ wpiece'[v] <= i
    BY <1>2 DEF DoneInv
  <2>1. f \in Files /\ Pieces[format][f][i] \in Hashes /\ Len(Pieces[format][f]) \in Nat
    BY PieceFacts, SettingFacts DEF TypeOK, format
  <2>2. CASE objects[Pieces[format][f][i]].there
    BY <1>7, <2>1, <2>2
  <2>3. CASE ~objects[Pieces[format][f][i]].there
    <3>1. PICK v \in Workers : v[1] = p /\ wst[v] \in Saving /\ wfile[v] = f /\ wpiece[v] <= i
      BY <2>3 DEF StoreInv, DoneInv
    <3>2. CASE v # w
      BY <1>3, <3>1, <3>2
    <3>3. CASE v = w /\ wpiece[w] = i
      BY <3>1, <3>3 DEF Hash
    <3>4. CASE v = w /\ wpiece[w] # i
      <4>1. wpiece[w] < i /\ wpiece[w] \in Nat /\ i <= Len(Pieces[format][wfile[w]])
        BY <3>1, <3>4 DEF TypeOK
      <4>2. wst'[w] = "check" /\ wpiece'[w] = wpiece[w] + 1
        BY <1>3, <2>1, <3>1, <3>4, <4>1
      <4>3. wpiece'[w] <= i
        BY <4>1, <4>2
      <4> QED
        BY <3>1, <3>4, <4>2, <4>3 DEF Saving
    <3> QED
      BY <3>2, <3>3, <3>4
  <2> QED
    BY <2>2, <2>3
<1>12. PublishedInv'
  <2>1. \A h \in Hashes : Published(h)' <=> Published(h)
    BY PublishedSame
  <2>2. ASSUME NEW h \in Hashes, Published(h) PROVE objects'[h].there /\ Intact(h)'
    <3>1. objects[h].there /\ Intact(h)
      BY <2>2 DEF StoreInv, PublishedInv
    <3>2. CASE h # h0
      BY <1>2, <3>1, <3>2 DEF Intact
    <3>3. CASE h = h0 /\ w \in attached
      <4>1. wst[w] = "body" /\ Traits.inplace
        BY <1>6, <3>3 DEF StoreInv, HandleInv
      <4> QED
        BY <2>2, <3>3, <4>1 DEF StoreInv, PublishedInv
    <3>4. CASE h = h0 /\ w \notin attached
      BY <1>2, <3>1, <3>4 DEF Intact, Object
    <3> QED
      BY <3>2, <3>3, <3>4
  <2> QED
    BY <1>2, <1>3, <1>4, <2>1, <2>2 DEF StoreInv, PublishedInv
<1>13. FreshInv'
  <2>1. run[w[1]] # 0 /\ (Traits.inplace => \A q \in setting.procs : q = w[1])
    BY SaverFacts, SettingFacts DEF Live
  <2> QED
    BY <1>2, <2>1 DEF FreshInv
<1> QED
  BY <1>8, <1>9, <1>10, <1>11, <1>12, <1>13 DEF StoreInv

\* A worker gets a file, or finds the channel closed and returns.
LEMMA ChannelInv ==
  ASSUME IInv, NEW w \in Workers, HandOver(w) \/ WorkerReturns(w)
  PROVE  IInv'
<1>1. /\ TypeOK /\ PoolInv /\ HashedInv /\ wst[w] = "ready" /\ w[1] \in Procs
      /\ UNCHANGED <<setting, objects, manifests, pc, run, indexes, calculated, firstErr, ctxDone,
                     attached>>
      /\ edited' \subseteq edited
      /\ wst' = [wst EXCEPT ![w] = IF HandOver(w) THEN "hash" ELSE "done"]
  BY WorkerFacts DEF IInv, HandOver, WorkerReturns, procVars
<1>2. /\ \A v \in Workers : v # w =>
           wst'[v] = wst[v] /\ wfile'[v] = wfile[v] /\ wpiece'[v] = wpiece[v]
      /\ wst'[w] \in {"hash", "done"} /\ wst' \in [Workers -> WorkerStates]
      /\ wst'[w] = "hash" => wpiece'[w] = 1
  <2>1. /\ wst'[w] \in {"hash", "done"} /\ wst' \in [Workers -> WorkerStates]
        /\ \A v \in Workers : v # w => wst'[v] = wst[v]
    BY <1>1 DEF TypeOK, WorkerStates
  <2>2. CASE HandOver(w)
    <3>1. PICK f \in feed[w[1]] : wfile' = [wfile EXCEPT ![w] = f]
      BY <2>2 DEF HandOver
    <3>2. wpiece' = [wpiece EXCEPT ![w] = 1]
      BY <2>2 DEF HandOver
    <3> QED
      BY <1>1, <2>1, <3>1, <3>2 DEF TypeOK
  <2>3. CASE WorkerReturns(w)
    <3>1. wst'[w] = "done" /\ wfile' = wfile /\ wpiece' = wpiece
      BY <1>1, <2>3 DEF WorkerReturns, TypeOK
    <3> QED
      BY <2>1, <3>1
  <2> QED
    BY <1>1, <2>2, <2>3
<1>3. TypeOK'
  <2>1. CASE HandOver(w)
    <3>1. PICK f \in feed[w[1]] :
            feed' = [feed EXCEPT ![w[1]] = @ \ {f}] /\ wfile' = [wfile EXCEPT ![w] = f]
      BY <2>1 DEF HandOver
    <3>2. f \in Files /\ wfile' \in [Workers -> Files] /\ feed' \in [Procs -> SUBSET Files]
      BY <1>1, <3>1 DEF TypeOK
    <3>3. wpiece' = [wpiece EXCEPT ![w] = 1] /\ wpiece' \in [Workers -> Nat]
      BY <1>1, <2>1 DEF HandOver, TypeOK
    <3>4. \A v \in Workers : wpiece'[v] \in 1..Len(Pieces[format'][wfile'[v]])
      BY <1>1, <1>2, <3>1, <3>2, <3>3, PieceFacts, SettingFacts DEF TypeOK, format
    <3> QED
      BY <1>1, <1>2, <3>2, <3>3, <3>4 DEF TypeOK
  <2>2. CASE WorkerReturns(w)
    BY <1>1, <1>2, <2>2 DEF WorkerReturns, TypeOK, procVars, format
  <2> QED
    BY <1>1, <2>1, <2>2
<1>4. PoolInv'
  <2>1. WorkerReturns(w) => feed' = feed
    BY DEF WorkerReturns, procVars
  <2>2. HandOver(w) => indexes[w[1]] = "open" /\ \A q \in Procs : q # w[1] => feed'[q] = feed[q]
    BY <1>1 DEF HandOver, TypeOK
  <2> QED
    BY <1>1, <1>2, <2>1, <2>2, WorkerFacts DEF PoolInv, Live, Saving, HandOver, WorkerReturns
<1>5. HashedInv'
  <2>1. \A v \in Workers : wst[v] = "hash" => wst'[v] = "hash" /\ wfile'[v] = wfile[v]
    BY <1>1, <1>2
  <2>2. CASE HandOver(w)
    <3>1. PICK f \in feed[w[1]] :
            feed' = [feed EXCEPT ![w[1]] = @ \ {f}] /\ wfile' = [wfile EXCEPT ![w] = f]
      BY <2>2 DEF HandOver
    <3>2. wst'[w] = "hash" /\ wfile'[w] = f
      BY <1>1, <2>2, <3>1 DEF TypeOK
    <3>3. \A q \in Procs : \A g \in feed[q] : g \in feed'[q] \/ (q = w[1] /\ g = f)
      BY <1>1, <3>1 DEF TypeOK
    <3>4. \A v \in Workers : wst'[v] = "hash" => wpiece'[v] = 1
      BY <1>1, <1>2 DEF HashedInv
    <3> QED
      BY <1>1, <2>1, <3>2, <3>3, <3>4 DEF HashedInv
  <2>3. CASE WorkerReturns(w)
    BY <1>1, <2>1, <2>3 DEF HashedInv, WorkerReturns, procVars
  <2> QED
    BY <2>2, <2>3
<1>6. ManifestsComplete'
  BY <1>1 DEF IInv, ManifestsComplete
<1>7. ASSUME Safe(setting) PROVE StoreInv'
  BY <1>1, <1>2, <1>7, StoreFrame, PublishedSame DEF IInv, Saving
<1> QED
  BY <1>1, <1>3, <1>4, <1>5, <1>6, <1>7 DEF IInv

\* The file gets its hash; all its pieces are still to be looked for.
LEMMA CalculateInv == ASSUME IInv, NEW w \in Workers, Calculate(w) PROVE IInv'
<1>1. /\ TypeOK /\ PoolInv /\ HashedInv /\ wst[w] = "hash" /\ w[1] \in Procs
      /\ UNCHANGED <<setting, objects, manifests, pc, run, feed, indexes, firstErr, ctxDone>>
      /\ UNCHANGED <<wfile, wpiece, attached, edited>>
      /\ wst' = [wst EXCEPT ![w] = "check"]
      /\ calculated' = [calculated EXCEPT ![w[1]] = @ \cup {wfile[w]}]
  BY WorkerFacts DEF IInv, Calculate
<1>2. /\ \A v \in Workers : v # w => wst'[v] = wst[v]
      /\ wst'[w] = "check" /\ wst' \in [Workers -> WorkerStates]
      /\ \A q \in Procs : q # w[1] => calculated'[q] = calculated[q]
      /\ calculated'[w[1]] = calculated[w[1]] \cup {wfile[w]}
      /\ wfile[w] \in Files
  BY <1>1 DEF TypeOK, WorkerStates
<1>3. TypeOK'
  BY <1>1, <1>2 DEF TypeOK, format
<1>4. PoolInv'
  BY <1>1, <1>2 DEF PoolInv, Live, Saving
<1>5. HashedInv' /\ ManifestsComplete'
  <2>1. pc[w[1]] = "running"
    BY <1>1 DEF PoolInv, Live
  <2>2. HashedInv'
    <3>1. \A q \in Procs : calculated[q] \subseteq calculated'[q]
      BY <1>2
    <3>2. \A v \in Workers : wst[v] = "hash" => wst'[v] = "hash" \/ wfile[v] \in calculated'[v[1]]
      BY <1>2
    <3> QED
      BY <1>1, <1>2, <2>1, <3>1, <3>2 DEF HashedInv
  <2>3. ManifestsComplete'
    BY <1>1 DEF IInv, ManifestsComplete
  <2> QED
    BY <2>2, <2>3
<1>6. ASSUME Safe(setting) PROVE StoreInv'
  <2>1. StoreInv
    BY <1>6 DEF IInv
  <2>2. Traits' = Traits /\ Faults' = Faults /\ format' = format /\ encrypted' = encrypted
    BY <1>1 DEF Traits, Faults, format, backend, encrypted
  <2>3. \A v \in Workers : Hash(v)' = Hash(v)
    BY <1>1, <2>2 DEF Hash
  <2>4. attached \subseteq Workers /\ w \notin attached
    BY <1>1, <2>1 DEF TypeOK, StoreInv, HandleInv
  <2>5. HandleInv'
    BY <1>1, <1>2, <2>1, <2>2, <2>3, <2>4 DEF StoreInv, HandleInv
  <2>6. PartInv' /\ WriterInv' /\ FreshInv'
    BY <1>1, <1>2, <2>1, <2>2, <2>3, <2>4 DEF StoreInv, PartInv, Spoiled, WriterInv, FreshInv
  <2>7. DoneInv'
    <3> SUFFICES ASSUME NEW p \in Procs, pc[p] # "idle", ~firstErr[p],
                        NEW f \in calculated'[p], NEW i \in 1..Len(Pieces[format][f])
                 PROVE  \/ objects[Pieces[format][f][i]].there
                        \/ \E v \in Workers :
                             v[1] = p /\ wst'[v] \in Saving /\ wfile[v] = f /\ wpiece[v] <= i
      BY <1>1, <2>2 DEF DoneInv
    <3>1. CASE f \in calculated[p]
      <4>1. \A v \in Workers : wst[v] \in Saving => wst'[v] \in Saving
        BY <1>2 DEF Saving
      <4> QED
        BY <2>1, <3>1, <4>1 DEF StoreInv, DoneInv
    <3>2. CASE f \notin calculated[p]
      <4>1. p = w[1] /\ f = wfile[w]
        BY <1>2, <3>2
      <4>2. wpiece[w] = 1
        BY <1>1 DEF IInv, HashedInv
      <4> QED
        BY <1>2, <4>1, <4>2 DEF Saving
    <3> QED
      BY <3>1, <3>2
  <2>8. PublishedInv'
    BY <1>1, <1>2, <2>1, <2>2, <2>3, PublishedSame DEF StoreInv, PublishedInv, Intact
  <2> QED
    BY <2>5, <2>6, <2>7, <2>8 DEF StoreInv
<1> QED
  BY <1>1, <1>3, <1>4, <1>5, <1>6 DEF IInv

\* A worker goes on with its piece without having touched the store yet; where it is about
\* to write in place, nothing is published under its hash.
LEMMA MoveFrame ==
  ASSUME TypeOK, StoreInv, NEW w \in Workers, wst[w] \in {"check", "save"},
         wst'[w] \in {"save", "put"},
         wst'[w] = "save" => ~Published(Hash(w)),
         wst'[w] = "put" => ~Traits.inplace,
         \A v \in Workers : v # w => wst'[v] = wst[v],
         UNCHANGED <<setting, objects, manifests, procVars, wfile, wpiece, attached, edited>>
  PROVE  StoreInv'
<1> USE DEF procVars
<1>1. Traits' = Traits /\ Faults' = Faults /\ format' = format /\ encrypted' = encrypted
  BY DEF Traits, Faults, format, backend, encrypted
<1>2. \A v \in Workers : Hash(v)' = Hash(v)
  BY <1>1 DEF Hash
<1>3. attached \subseteq Workers /\ w \notin attached
  BY DEF TypeOK, StoreInv, HandleInv
<1>4. HandleInv'
  BY <1>1, <1>2, <1>3 DEF StoreInv, HandleInv
<1>5. PartInv' /\ WriterInv' /\ FreshInv'
  BY <1>1, <1>2, <1>3 DEF StoreInv, PartInv, Spoiled, WriterInv, FreshInv
<1>6. DoneInv'
  <2>1. \A v \in Workers : wst[v] \in Saving => wst'[v] \in Saving
    BY DEF Saving
  <2> QED
    BY <1>1, <2>1 DEF StoreInv, DoneInv
<1>7. PublishedInv'
  BY <1>1, <1>2, PublishedSame DEF StoreInv, PublishedInv, Intact
<1> QED
  BY <1>4, <1>5, <1>6, <1>7 DEF StoreInv

\* Whatever lies at the path counts as the object: the worker goes on to the next piece.
\* Otherwise it will save this one.
LEMMA AlreadyExistsInv == ASSUME IInv, NEW w \in Workers, AlreadyExists(w) PROVE IInv'
<1> USE DEF procVars
<1>1. /\ TypeOK /\ PoolInv /\ wst[w] = "check" /\ wst[w] \in Saving
      /\ UNCHANGED <<setting, objects, manifests, procVars, wfile, attached, edited>>
  BY DEF IInv, AlreadyExists, Saving
<1>2. Hash(w) \in Hashes
  BY <1>1, WorkerFacts
<1>3. CASE objects[Hash(w)].there
  <2>1. NextPieceOrFile(w)
    BY <1>3 DEF AlreadyExists
  <2>2. /\ wst' \in [Workers -> WorkerStates] /\ wpiece' \in [Workers -> Nat]
        /\ \A v \in Workers : wpiece'[v] \in 1..Len(Pieces[format][wfile[v]])
        /\ \A v \in Workers : v # w => wst'[v] = wst[v] /\ wpiece'[v] = wpiece[v]
        /\ wst'[w] \in {"check", "ready"}
    BY <1>1, <2>1, NextPieceFacts
  <2>3. TypeOK'
    BY <1>1, <2>2 DEF TypeOK, format
  <2>4. PoolInv' /\ HashedInv' /\ ManifestsComplete'
    BY <1>1, <2>2, PoolFrame DEF Live, Saving
  <2>5. ASSUME Safe(setting) PROVE StoreInv'
    <3>1. StoreInv /\ w \notin attached
      BY <1>1, <2>5 DEF IInv, StoreInv, HandleInv
    <3> QED
      BY <1>1, <1>3, <2>1, <2>5, <3>1, Advance DEF TypeOK
  <2> QED
    BY <1>1, <2>3, <2>4, <2>5 DEF IInv
<1>4. CASE ~objects[Hash(w)].there
  <2>1. wst' = [wst EXCEPT ![w] = "save"] /\ wpiece' = wpiece
    BY <1>4 DEF AlreadyExists
  <2>2. /\ wst' \in [Workers -> WorkerStates] /\ wst'[w] = "save"
        /\ \A v \in Workers : v # w => wst'[v] = wst[v]
    BY <1>1, <2>1 DEF TypeOK, WorkerStates
  <2>3. TypeOK'
    BY <1>1, <2>1, <2>2 DEF TypeOK, format
  <2>4. PoolInv' /\ HashedInv' /\ ManifestsComplete'
    BY <1>1, <2>1, <2>2, PoolFrame DEF Live, Saving
  <2>5. ASSUME Safe(setting) PROVE StoreInv'
    <3>1. StoreInv /\ ~Published(Hash(w))
      BY <1>2, <1>4, <2>5 DEF IInv, StoreInv, PublishedInv
    <3> QED
      BY <1>1, <2>1, <2>2, <3>1, MoveFrame
  <2> QED
    BY <1>1, <2>3, <2>4, <2>5 DEF IInv
<1> QED
  BY <1>3, <1>4

\* The object is encoded for one request.
LEMMA EncodeToPutInv == ASSUME IInv, NEW w \in Workers, EncodeToPut(w) PROVE IInv'
<1>1. /\ TypeOK /\ PoolInv /\ wst[w] = "save" /\ ~Traits.inplace
      /\ UNCHANGED <<setting, objects, manifests, procVars, wfile, wpiece, attached, edited>>
      /\ wst' = [wst EXCEPT ![w] = "put"]
  BY DEF IInv, EncodeToPut
<1>2. /\ wst' \in [Workers -> WorkerStates] /\ wst'[w] = "put"
      /\ \A v \in Workers : v # w => wst'[v] = wst[v]
  BY <1>1 DEF TypeOK, WorkerStates
<1>3. TypeOK'
  BY <1>1, <1>2 DEF TypeOK, format, procVars
<1>4. PoolInv' /\ HashedInv' /\ ManifestsComplete'
  BY <1>1, <1>2, PoolFrame DEF Live, Saving
<1>5. ASSUME Safe(setting) PROVE StoreInv'
  BY <1>1, <1>2, <1>5, MoveFrame DEF IInv
<1> QED
  BY <1>1, <1>3, <1>4, <1>5 DEF IInv

\* The object is created or truncated at its path: nothing published lies there, and the
\* worker still has to write both parts.
LEMMA OpenInPlaceInv == ASSUME IInv, NEW w \in Workers, OpenInPlace(w) PROVE IInv'
<1> USE DEF procVars
<1> DEFINE h0 == Hash(w)
<1>1. /\ TypeOK /\ PoolInv /\ wst[w] = "save" /\ Traits.inplace
      /\ UNCHANGED <<setting, manifests, procVars, wfile, edited>>
  BY DEF IInv, OpenInPlace
<1>2. h0 \in Hashes /\ objects \in [Hashes -> [there : BOOLEAN, head : Parts, body : Parts]]
  BY <1>1, WorkerFacts DEF TypeOK
<1>3. CASE Traits.exclusive /\ objects[h0].there
  <2>1. NextPieceOrFile(w) /\ UNCHANGED <<objects, attached>>
    BY <1>3 DEF OpenInPlace
  <2>2. /\ wst' \in [Workers -> WorkerStates] /\ wpiece' \in [Workers -> Nat]
        /\ \A v \in Workers : wpiece'[v] \in 1..Len(Pieces[format][wfile[v]])
        /\ \A v \in Workers : v # w => wst'[v] = wst[v] /\ wpiece'[v] = wpiece[v]
        /\ wst'[w] \in {"check", "ready"}
    BY <1>1, <2>1, NextPieceFacts
  <2>3. TypeOK'
    BY <1>1, <2>1, <2>2 DEF TypeOK, format
  <2>4. PoolInv' /\ HashedInv' /\ ManifestsComplete'
    BY <1>1, <2>2, PoolFrame DEF Live, Saving
  <2>5. ASSUME Safe(setting) PROVE StoreInv'
    <3>1. StoreInv /\ w \notin attached
      BY <1>1, <2>5 DEF IInv, StoreInv, HandleInv
    <3> QED
      BY <1>1, <1>2, <1>3, <2>1, <2>5, <3>1, Advance DEF Saving
  <2> QED
    BY <1>1, <2>3, <2>4, <2>5 DEF IInv
<1>4. CASE ~(Traits.exclusive /\ objects[h0].there)
  <2>1. /\ objects' = [objects EXCEPT ![h0] = Object(Missing, Missing)]
        /\ attached' = attached \cup {w} /\ wst' = [wst EXCEPT ![w] = "head"]
        /\ wpiece' = wpiece
    BY <1>4 DEF OpenInPlace
  <2>2. /\ wst' \in [Workers -> WorkerStates] /\ wst'[w] = "head"
        /\ \A v \in Workers : v # w => wst'[v] = wst[v]
    BY <1>1, <2>1 DEF TypeOK, WorkerStates
  <2>3. /\ objects' \in [Hashes -> [there : BOOLEAN, head : Parts, body : Parts]]
        /\ objects'[h0] = Object(Missing, Missing)
        /\ \A h \in Hashes : h # h0 => objects'[h] = objects[h]
    BY <1>2, <2>1 DEF Object, Parts
  <2>4. TypeOK'
    BY <1>1, <2>1, <2>2, <2>3 DEF TypeOK, format
  <2>5. PoolInv' /\ HashedInv' /\ ManifestsComplete'
    BY <1>1, <2>1, <2>2, PoolFrame DEF Live, Saving
  <2>6. ASSUME Safe(setting) PROVE StoreInv'
    <3>1. StoreInv /\ w \notin attached /\ attached \subseteq Workers
      BY <1>1, <2>6 DEF IInv, StoreInv, HandleInv, TypeOK
    <3>2. Traits' = Traits /\ Faults' = Faults /\ format' = format /\ encrypted' = encrypted
      BY <1>1 DEF Traits, Faults, format, backend, encrypted
    <3>3. \A v \in Workers : Hash(v)' = Hash(v)
      BY <1>1, <2>1, <3>2 DEF Hash
    <3>4. \A h \in Hashes : objects[h].there => objects'[h].there
      BY <2>3 DEF Object
    <3>5. HandleInv'
      <4>1. \A v \in attached' : wst'[v] \in {"head", "body"} /\ objects'[Hash(v)].there
        <5>1. objects'[Hash(w)].there
          BY <2>3 DEF Object
        <5> QED
          BY <1>1, <2>1, <2>2, <3>1, <3>4, <5>1, WorkerFacts DEF StoreInv, HandleInv
      <4> QED
        BY <1>1, <2>1, <2>2, <3>1, <3>2, <3>3, <4>1 DEF StoreInv, HandleInv
    <3>6. PartInv'
      <4>1. \A v \in attached : v \in attached' /\ wst'[v] = wst[v] /\ Hash(v)' = Hash(v)
        BY <2>1, <2>2, <3>1, <3>3
      <4>2. w \in attached' /\ wst'[w] = "head" /\ Hash(w)' = h0
        BY <2>1, <2>2, <3>3
      <4> QED
        BY <1>1, <2>3, <3>1, <3>2, <4>1, <4>2 DEF StoreInv, PartInv, Spoiled
    <3>7. WriterInv'
      <4>1. Missing \notin Workers
        BY DEF Missing, Workers
      <4> QED
        BY <1>1, <2>3, <3>1, <3>2, <4>1 DEF StoreInv, WriterInv, Object
    <3>8. DoneInv'
      <4>1. \A v \in Workers : wst[v] \in Saving => wst'[v] \in Saving
        BY <2>2 DEF Saving
      <4>2. \A f \in Files : \A i \in 1..Len(Pieces[format][f]) : Pieces[format][f][i] \in Hashes
        BY <1>1, PieceFacts, SettingFacts DEF format
      <4>3. \A p \in Procs : calculated[p] \subseteq Files
        BY <1>1 DEF TypeOK
      <4> QED
        BY <1>1, <2>1, <3>1, <3>2, <3>4, <4>1, <4>2, <4>3 DEF StoreInv, DoneInv
    <3>9. PublishedInv'
      <4>1. ~Published(h0)
        BY <1>1, <1>2, <3>1 DEF StoreInv, PublishedInv
      <4> QED
        BY <1>1, <2>2, <2>3, <3>1, <3>2, <3>3, <4>1, PublishedSame
           DEF StoreInv, PublishedInv, Intact
    <3>10. FreshInv'
      BY <1>1, <2>6, <3>2, SaverFacts, SettingFacts DEF FreshInv, Live, Saving
    <3> QED
      BY <3>5, <3>6, <3>7, <3>8, <3>9, <3>10 DEF StoreInv
  <2> QED
    BY <1>1, <2>4, <2>5, <2>6 DEF IInv
<1> QED
  BY <1>3, <1>4

\* The first part is written, unless somebody has removed the file the handle refers to.
LEMMA WriteHeadInv == ASSUME IInv, NEW w \in Workers, WriteHead(w) PROVE IInv'
<1> USE DEF procVars
<1> DEFINE h0 == Hash(w)
<1>1. /\ TypeOK /\ PoolInv /\ wst[w] = "head"
      /\ UNCHANGED <<setting, manifests, procVars, wfile, wpiece, attached, edited>>
      /\ wst' = [wst EXCEPT ![w] = "body"]
  BY DEF IInv, WriteHead
<1>2. h0 \in Hashes /\ objects \in [Hashes -> [there : BOOLEAN, head : Parts, body : Parts]]
  BY <1>1, WorkerFacts DEF TypeOK
<1>3. /\ wst' \in [Workers -> WorkerStates] /\ wst'[w] = "body"
      /\ \A v \in Workers : v # w => wst'[v] = wst[v]
  BY <1>1 DEF TypeOK, WorkerStates
<1>4. /\ objects' \in [Hashes -> [there : BOOLEAN, head : Parts, body : Parts]]
      /\ \A h \in Hashes : h # h0 => objects'[h] = objects[h]
      /\ w \in attached => objects'[h0] = [objects[h0] EXCEPT !.head = Content(w)]
      /\ w \notin attached => objects' = objects
  <2>1. Content(w) \in Parts
    BY DEF Content, Parts
  <2>2. CASE w \in attached
    <3> DEFINE o == [objects[h0] EXCEPT !.head = Content(w)]
    <3>1. objects' = [objects EXCEPT ![h0] = o]
      BY <2>2 DEF WriteHead
    <3>2. o \in [there : BOOLEAN, head : Parts, body : Parts]
      BY <1>2, <2>1
    <3> HIDE DEF o
    <3>3. objects'[h0] = o /\ \A h \in Hashes : h # h0 => objects'[h] = objects[h]
      BY <1>2, <3>1
    <3> QED
      BY <1>2, <2>2, <3>1, <3>2, <3>3 DEF o
  <2>3. CASE w \notin attached
    BY <1>2, <2>3 DEF WriteHead
  <2> QED
    BY <2>2, <2>3
<1>5. TypeOK'
  BY <1>1, <1>3, <1>4 DEF TypeOK, format
<1>6. PoolInv' /\ HashedInv' /\ ManifestsComplete'
  BY <1>1, <1>3, PoolFrame DEF Live, Saving
<1>7. ASSUME Safe(setting) PROVE StoreInv'
  <2>1. StoreInv /\ Traits.inplace /\ attached \subseteq Workers
    BY <1>1, <1>7 DEF IInv, StoreInv, HandleInv, TypeOK
  <2>2. Traits' = Traits /\ Faults' = Faults /\ format' = format /\ encrypted' = encrypted
    BY <1>1 DEF Traits, Faults, format, backend, encrypted
  <2>3. \A v \in Workers : Hash(v)' = Hash(v)
    BY <1>1, <2>2 DEF Hash
  <2>4. Content(w) = w
    BY <1>1, <1>7, <2>1, ContentFacts DEF StoreInv
  <2>5. /\ \A h \in Hashes : objects'[h].there = objects[h].there /\ objects'[h].body = objects[h].body
        /\ w \in attached => objects'[h0].head = w
        /\ \A h \in Hashes : objects'[h].head \in {objects[h].head, w}
    BY <1>2, <1>4, <2>4
  <2>6. HandleInv'
    BY <1>1, <1>3, <2>1, <2>2, <2>3, <2>5, WorkerFacts DEF StoreInv, HandleInv
  <2>7. PartInv'
    <3> SUFFICES ASSUME ~Spoiled, NEW h \in Hashes, objects[h].there
                 PROVE  /\ \/ objects'[h].head \in Workers
                           \/ \E v \in attached : wst'[v] = "head" /\ Hash(v) = h
                        /\ \/ objects'[h].body \in Workers
                           \/ \E v \in attached : Hash(v) = h
      BY <1>1, <2>1, <2>2, <2>3, <2>5 DEF PartInv, Spoiled
    <3>1. objects[h].head \in Workers \/ \E v \in attached : wst[v] = "head" /\ Hash(v) = h
      BY <2>1 DEF StoreInv, PartInv
    <3>2. objects[h].body \in Workers \/ \E v \in attached : Hash(v) = h
      BY <2>1 DEF StoreInv, PartInv
    <3>3. objects'[h].head \in Workers \/ \E v \in attached : wst'[v] = "head" /\ Hash(v) = h
      BY <1>3, <2>1, <2>5, <3>1
    <3> QED
      BY <2>5, <3>2, <3>3
  <2>8. WriterInv'
    <3>1. w[1] \in setting.procs /\ w[2] \in setting.pool
      BY <1>1, SaverFacts DEF PoolInv, Live, Saving
    <3> QED
      BY <1>1, <2>1, <2>2, <2>5, <3>1 DEF StoreInv, WriterInv
  <2>9. DoneInv'
    <3>1. \A v \in Workers : wst[v] \in Saving => wst'[v] \in Saving
      BY <1>3 DEF Saving
    <3>2. \A f \in Files : \A i \in 1..Len(Pieces[format][f]) : Pieces[format][f][i] \in Hashes
      BY <1>1, PieceFacts, SettingFacts DEF format
    <3> QED
      BY <1>1, <2>1, <2>2, <2>5, <3>1, <3>2 DEF StoreInv, DoneInv, TypeOK
  <2>10. PublishedInv'
    <3>1. ~Published(h0)
      BY <1>1, <1>2, <2>1 DEF StoreInv, PublishedInv
    <3> QED
      BY <1>1, <1>3, <1>4, <2>1, <2>2, <2>3, <3>1, PublishedSame
         DEF StoreInv, PublishedInv, Intact
  <2>11. FreshInv'
    BY <1>1, <2>1, <2>2, <2>5 DEF StoreInv, FreshInv
  <2> QED
    BY <2>6, <2>7, <2>8, <2>9, <2>10, <2>11 DEF StoreInv
<1> QED
  BY <1>1, <1>5, <1>6, <1>7 DEF IInv

\* A worker that saves goes on after its piece: types, phases and hashes.
LEMMA SavedFrame ==
  ASSUME IInv, NEW w \in Workers, wst[w] \in Saving, NextPieceOrFile(w),
         UNCHANGED <<setting, manifests, procVars, wfile, edited>>,
         objects' \in [Hashes -> [there : BOOLEAN, head : Parts, body : Parts]],
         attached' \subseteq attached
  PROVE  TypeOK' /\ PoolInv' /\ HashedInv' /\ ManifestsComplete'
<1>1. TypeOK
  BY DEF IInv
<1>2. /\ wst' \in [Workers -> WorkerStates] /\ wpiece' \in [Workers -> Nat]
      /\ \A v \in Workers : wpiece'[v] \in 1..Len(Pieces[format][wfile[v]])
      /\ \A v \in Workers : v # w => wst'[v] = wst[v] /\ wpiece'[v] = wpiece[v]
      /\ wst'[w] \in {"check", "ready"}
  BY <1>1, NextPieceFacts
<1>3. TypeOK'
  BY <1>1, <1>2 DEF TypeOK, format, procVars
<1>4. PoolInv' /\ HashedInv' /\ ManifestsComplete'
  BY <1>2, PoolFrame DEF Live, Saving
<1> QED
  BY <1>3, <1>4

\* The last part is written and the save returns nil.
LEMMA WriteBodyInv == ASSUME IInv, NEW w \in Workers, WriteBody(w) PROVE IInv'
<1> DEFINE h0 == Hash(w)
<1>1. /\ TypeOK /\ PoolInv /\ wst[w] = "body" /\ wst[w] \in Saving /\ NextPieceOrFile(w)
      /\ UNCHANGED <<setting, manifests, procVars, wfile, edited>>
      /\ attached' = attached \ {w}
  BY DEF IInv, WriteBody, Saving
<1>2. h0 \in Hashes /\ objects \in [Hashes -> [there : BOOLEAN, head : Parts, body : Parts]]
  BY <1>1, WorkerFacts DEF TypeOK
<1>3. /\ objects' \in [Hashes -> [there : BOOLEAN, head : Parts, body : Parts]]
      /\ \A h \in Hashes : h # h0 => objects'[h] = objects[h]
      /\ w \in attached => objects'[h0] = [objects[h0] EXCEPT !.body = Content(w)]
      /\ w \notin attached => objects' = objects
  <2>1. Content(w) \in Parts
    BY DEF Content, Parts
  <2>2. CASE w \in attached
    <3> DEFINE o == [objects[h0] EXCEPT !.body = Content(w)]
    <3>1. objects' = [objects EXCEPT ![h0] = o]
      BY <2>2 DEF WriteBody
    <3>2. o \in [there : BOOLEAN, head : Parts, body : Parts]
      BY <1>2, <2>1
    <3> HIDE DEF o
    <3>3. objects'[h0] = o /\ \A h \in Hashes : h # h0 => objects'[h] = objects[h]
      BY <1>2, <3>1
    <3> QED
      BY <1>2, <2>2, <3>1, <3>2, <3>3 DEF o
  <2>3. CASE w \notin attached
    BY <1>2, <2>3 DEF WriteBody
  <2> QED
    BY <2>2, <2>3
<1>4. ASSUME Safe(setting) PROVE StoreInv'
  <2>1. StoreInv /\ Content(w) = w
    BY <1>1, <1>4, ContentFacts DEF IInv, StoreInv
  <2>2. firstErr[w[1]] \/ objects'[h0].there
    <3>1. CASE w \in attached
      <4>1. objects[h0].there
        BY <2>1, <3>1 DEF StoreInv, HandleInv
      <4> QED
        BY <1>2, <1>3, <3>1, <4>1
    <3>2. CASE w \notin attached
      BY <1>1, <2>1, <3>2 DEF StoreInv, HandleInv
    <3> QED
      BY <3>1, <3>2
  <2>3. \/ w \notin attached /\ objects'[h0] = objects[h0]
        \/ /\ w \in attached /\ wst[w] = "body"
           /\ objects'[h0] = [objects[h0] EXCEPT !.body = w]
    BY <1>1, <1>3, <2>1
  <2> QED
    BY <1>1, <1>3, <1>4, <2>1, <2>2, <2>3, Advance
<1> QED
  BY <1>1, <1>3, <1>4, SavedFrame DEF IInv

\* One request writes the object, or finds that it is there.
LEMMA PutInv == ASSUME IInv, NEW w \in Workers, Put(w) PROVE IInv'
<1> DEFINE h0 == Hash(w)
<1>1. /\ TypeOK /\ PoolInv /\ wst[w] = "put" /\ wst[w] \in Saving /\ NextPieceOrFile(w)
      /\ UNCHANGED <<setting, manifests, procVars, wfile, attached, edited>>
  BY DEF IInv, Put, Saving
<1>2. h0 \in Hashes /\ objects \in [Hashes -> [there : BOOLEAN, head : Parts, body : Parts]]
  BY <1>1, WorkerFacts DEF TypeOK
<1>3. /\ objects' \in [Hashes -> [there : BOOLEAN, head : Parts, body : Parts]]
      /\ \A h \in Hashes : h # h0 => objects'[h] = objects[h]
      /\ objects'[h0].there
      /\ objects'[h0] = objects[h0] \/ objects'[h0] = Object(Content(w), Content(w))
  <2>1. Content(w) \in Parts
    BY DEF Content, Parts
  <2>2. CASE Traits.exclusive /\ objects[h0].there
    BY <1>2, <2>2 DEF Put
  <2>3. CASE ~(Traits.exclusive /\ objects[h0].there)
    <3>1. objects' = [objects EXCEPT ![h0] = Object(Content(w), Content(w))]
      BY <2>3 DEF Put
    <3> QED
      BY <1>2, <2>1, <3>1 DEF Object
  <2> QED
    BY <2>2, <2>3
<1>4. ASSUME Safe(setting) PROVE StoreInv'
  <2>1. StoreInv /\ Content(w) = w
    BY <1>1, <1>4, ContentFacts DEF IInv, StoreInv
  <2>2. w \notin attached /\ attached' = attached \ {w}
    BY <1>1, <2>1 DEF StoreInv, HandleInv
  <2> QED
    BY <1>1, <1>3, <1>4, <2>1, <2>2, Advance
<1> QED
  BY <1>1, <1>3, <1>4, SavedFrame DEF IInv

\* A save that returns nil although writing the ciphertext failed: not in a safe setting.
LEMMA SaveSwallowsErrorInv == ASSUME IInv, NEW w \in Workers, SaveSwallowsError(w) PROVE IInv'
<1> DEFINE h0 == Hash(w)
<1>1. /\ TypeOK /\ PoolInv /\ wst[w] \in Saving /\ NextPieceOrFile(w)
      /\ UNCHANGED <<setting, manifests, procVars, wfile, edited>>
      /\ "error" \in Faults /\ encrypted /\ Traits.swallows /\ attached' \subseteq attached
  BY DEF IInv, SaveSwallowsError, Saving
<1>2. h0 \in Hashes /\ objects \in [Hashes -> [there : BOOLEAN, head : Parts, body : Parts]]
  BY <1>1, WorkerFacts DEF TypeOK
<1>3. objects' \in [Hashes -> [there : BOOLEAN, head : Parts, body : Parts]]
  <2>1. Content(w) \in Parts /\ Missing \in Parts
    BY DEF Content, Parts
  <2>2. objects' = objects \/ objects' = [objects EXCEPT ![h0] = Object(Content(w), Missing)]
    BY DEF SaveSwallowsError
  <2>3. Object(Content(w), Missing) \in [there : BOOLEAN, head : Parts, body : Parts]
    BY <2>1 DEF Object
  <2> QED
    BY <1>2, <2>2, <2>3
<1>4. ~Safe(setting)
  BY <1>1, TraitFacts DEF Safe, WholeObjects, InPlaceAlone, Faithful, Faults, encrypted
<1> QED
  BY <1>1, <1>3, <1>4, SavedFrame DEF IInv

\* The file a worker has hashed changes.
LEMMA EditInv == ASSUME IInv, NEW w \in Workers, Edit(w) PROVE IInv'
<1> USE DEF procVars
<1>1. /\ TypeOK /\ "edit" \in Faults /\ edited' = edited \cup {w}
      /\ UNCHANGED <<setting, objects, manifests, pc, run, feed, indexes, calculated, firstErr, ctxDone>>
      /\ UNCHANGED <<wst, wfile, wpiece, attached>>
  BY DEF IInv, Edit
<1>2. TypeOK'
  BY <1>1 DEF TypeOK, format
<1>3. PoolInv' /\ HashedInv' /\ ManifestsComplete'
  BY <1>1 DEF IInv, PoolInv, HashedInv, ManifestsComplete
<1>4. ASSUME StoreInv PROVE StoreInv'
  <2>1. Traits' = Traits /\ Faults' = Faults /\ format' = format /\ encrypted' = encrypted
    BY <1>1 DEF Traits, Faults, format, backend, encrypted
  <2>2. \A v \in Workers : Hash(v)' = Hash(v)
    BY <1>1, <2>1 DEF Hash
  <2>3. attached \subseteq Workers
    BY <1>1 DEF TypeOK
  <2>4. HandleInv'
    BY <1>1, <1>4, <2>1, <2>2, <2>3 DEF StoreInv, HandleInv
  <2>5. PartInv' /\ WriterInv' /\ DoneInv' /\ FreshInv'
    BY <1>1, <1>4, <2>1, <2>2, <2>3
       DEF StoreInv, PartInv, Spoiled, WriterInv, DoneInv, FreshInv
  <2>6. PublishedInv'
    BY <1>1, <1>4, <2>1, <2>2, PublishedSame DEF StoreInv, PublishedInv, Intact
  <2> QED
    BY <2>4, <2>5, <2>6 DEF StoreInv
<1> QED
  BY <1>1, <1>2, <1>3, <1>4 DEF IInv

\* What a failed save in place may leave at the path: nothing, what was there, or both
\* parts of this worker.
LEMMA FailedSaveFacts ==
  ASSUME TypeOK, NEW w \in Workers, NEW o \in AfterFailedSave(w)
  PROVE  /\ o \in [there : BOOLEAN, head : Parts, body : Parts]
         /\ \/ o = NoObject
            \/ o = objects[Hash(w)] /\ (w \in attached /\ Traits.cleans => "unremoved" \in Faults)
            \/ w \in attached /\ o = Object(Content(w), Content(w))
<1>1. objects[Hash(w)] \in [there : BOOLEAN, head : Parts, body : Parts]
  BY WorkerFacts DEF TypeOK
<1>2. /\ NoObject \in [there : BOOLEAN, head : Parts, body : Parts]
      /\ Object(Content(w), Content(w)) \in [there : BOOLEAN, head : Parts, body : Parts]
  BY DEF NoObject, Object, Content, Parts
<1>3. \/ o = NoObject
      \/ o = objects[Hash(w)] /\ (w \in attached /\ Traits.cleans => "unremoved" \in Faults)
      \/ w \in attached /\ o = Object(Content(w), Content(w))
  BY TraitFacts DEF AfterFailedSave
<1> QED
  BY <1>1, <1>2, <1>3

\* How a failure of a worker affects the store: not at all, by a save in place, or by a
\* request that took effect all the same.
LEMMA WorkerFailsCases ==
  ASSUME TypeOK, NEW w \in Workers, WorkerFails(w)
  PROVE  \/ wst[w] \in {"hash", "check", "save", "put"} /\ UNCHANGED <<objects, attached>>
         \/ /\ wst[w] \in {"head", "body"}
            /\ objects' \in [Hashes -> [there : BOOLEAN, head : Parts, body : Parts]]
            /\ \A h \in Hashes : h # Hash(w) => objects'[h] = objects[h]
            /\ attached' = {x \in attached \ {w} : objects'[Hash(w)].there \/ Hash(x) # Hash(w)}
            /\ objects'[Hash(w)] \in AfterFailedSave(w)
         \/ /\ wst[w] = "put" /\ attached' = attached
            /\ objects' \in [Hashes -> [there : BOOLEAN, head : Parts, body : Parts]]
            /\ \A h \in Hashes : h # Hash(w) => objects'[h] = objects[h]
            /\ objects'[Hash(w)] = Object(Content(w), Content(w))
<1>1. Hash(w) \in Hashes /\ objects \in [Hashes -> [there : BOOLEAN, head : Parts, body : Parts]]
  BY WorkerFacts DEF TypeOK
<1>2. CASE wst[w] \in {"hash", "check", "save", "put"} /\ UNCHANGED <<objects, attached>>
  BY <1>2
<1>3. CASE /\ wst[w] \in {"head", "body"}
           /\ \E o \in AfterFailedSave(w) :
                /\ objects' = [objects EXCEPT ![Hash(w)] = o]
                /\ attached' = {x \in attached \ {w} : o.there \/ Hash(x) # Hash(w)}
  <2>1. PICK o \in AfterFailedSave(w) :
                /\ objects' = [objects EXCEPT ![Hash(w)] = o]
                /\ attached' = {x \in attached \ {w} : o.there \/ Hash(x) # Hash(w)}
    BY <1>3
  <2>2. o \in [there : BOOLEAN, head : Parts, body : Parts]
    BY FailedSaveFacts
  <2>3. /\ objects' \in [Hashes -> [there : BOOLEAN, head : Parts, body : Parts]]
        /\ objects'[Hash(w)] = o
        /\ \A h \in Hashes : h # Hash(w) => objects'[h] = objects[h]
    BY <1>1, <2>1, <2>2
  <2> QED
    BY <1>3, <2>1, <2>3
<1>4. CASE /\ wst[w] = "put" /\ attached' = attached
           /\ objects' = [objects EXCEPT ![Hash(w)] = Object(Content(w), Content(w))]
  <2>1. Object(Content(w), Content(w)) \in [there : BOOLEAN, head : Parts, body : Parts]
    BY DEF Object, Content, Parts
  <2> QED
    BY <1>1, <1>4, <2>1
<1> QED
  BY <1>2, <1>3, <1>4 DEF WorkerFails

\* Any call of a worker fails: the run will publish nothing, and what the worker leaves
\* behind is whole, gone, or in a repository that no later run of a safe setting trusts.
LEMMA WorkerFailsInv == ASSUME IInv, NEW w \in Workers, WorkerFails(w) PROVE IInv'
<1> DEFINE h0 == Hash(w)
<1>1. /\ TypeOK /\ PoolInv /\ HashedInv /\ wst[w] \in Saving \cup {"hash"}
      /\ UNCHANGED <<setting, manifests, pc, run, feed, indexes, calculated, wfile, wpiece, edited>>
      /\ firstErr' = [firstErr EXCEPT ![w[1]] = TRUE]
      /\ ctxDone' = [ctxDone EXCEPT ![w[1]] = TRUE]
      /\ wst' = [wst EXCEPT ![w] = "ready"]
  BY DEF IInv, WorkerFails, Saving
<1>2. /\ h0 \in Hashes /\ objects \in [Hashes -> [there : BOOLEAN, head : Parts, body : Parts]]
      /\ attached \subseteq Workers /\ w[1] \in Procs
  BY <1>1, WorkerFacts DEF TypeOK
<1>3. /\ wst' \in [Workers -> WorkerStates] /\ wst'[w] = "ready"
      /\ \A v \in Workers : v # w => wst'[v] = wst[v]
      /\ firstErr' \in [Procs -> BOOLEAN] /\ firstErr'[w[1]]
      /\ ctxDone' \in [Procs -> BOOLEAN] /\ ctxDone'[w[1]]
      /\ \A q \in Procs : q # w[1] => firstErr'[q] = firstErr[q] /\ ctxDone'[q] = ctxDone[q]
  BY <1>1, <1>2 DEF TypeOK, WorkerStates
<1>4. /\ w[1] \in setting.procs /\ pc[w[1]] = "running" /\ run[w[1]] # 0
      /\ Safe(setting) /\ Traits.inplace =>
           \A q \in Procs : pc[q] # "idle" \/ q \in setting.procs => q = w[1]
  BY <1>1, SaverFacts DEF Live, Saving
<1>5. /\ objects' \in [Hashes -> [there : BOOLEAN, head : Parts, body : Parts]]
      /\ attached' \subseteq attached
      /\ \A h \in Hashes : h # h0 => objects'[h] = objects[h]
  BY <1>1, <1>2, WorkerFailsCases
<1>6. TypeOK'
  BY <1>1, <1>2, <1>3, <1>5 DEF TypeOK, format
<1>7. PoolInv' /\ HashedInv' /\ ManifestsComplete'
  <2>1. PoolInv'
    <3>1. \A v \in Workers : wst'[v] \in Live => pc[v[1]] = "running" /\ v[2] \in setting.pool
      BY <1>1, <1>3 DEF PoolInv, Live
    <3>2. \A q \in Procs :
       /\ pc[q] # "idle" /\ indexes[q] = "closed" => feed[q] = {} \/ ctxDone'[q]
       /\ pc[q] \in {"publish", "write"} => ~firstErr'[q] /\ indexes[q] = "closed"
      BY <1>1, <1>3, <1>4 DEF PoolInv
    <3> QED
      BY <1>1, <3>1, <3>2 DEF PoolInv
  <2>2. HashedInv'
    <3>1. \A v \in Workers : v[1] # w[1] => wst'[v] = wst[v]
      BY <1>3
    <3>2. \A v \in Workers : wst'[v] = "hash" => wst[v] = "hash"
      BY <1>3
    <3> QED
      BY <1>1, <1>3, <1>4, <3>1, <3>2 DEF HashedInv
  <2>3. ManifestsComplete'
    BY <1>1 DEF IInv, ManifestsComplete
  <2> QED
    BY <2>1, <2>2, <2>3
<1>8. ASSUME Safe(setting) PROVE StoreInv'
  <2>1. StoreInv /\ Content(w) = w
    BY <1>1, <1>2, <1>8, ContentFacts DEF IInv, StoreInv
  <2>2. Traits' = Traits /\ Faults' = Faults /\ format' = format /\ encrypted' = encrypted
    BY <1>1 DEF Traits, Faults, format, backend, encrypted
  <2>3. \A v \in Workers : Hash(v)' = Hash(v)
    BY <1>1, <2>2 DEF Hash
  <2>4. \/ /\ wst[w] \in {"hash", "check", "save", "put"} /\ UNCHANGED <<objects, attached>>
           /\ w \notin attached
        \/ /\ wst[w] \in {"head", "body"} /\ Traits.inplace
           /\ attached' = {x \in attached \ {w} : objects'[h0].there \/ Hash(x) # h0}
           /\ objects'[h0] \in AfterFailedSave(w)
        \/ /\ wst[w] = "put" /\ ~Traits.inplace /\ attached' = attached /\ w \notin attached
           /\ objects'[h0] = Object(w, w)
    BY <1>1, <1>2, <2>1, WorkerFailsCases DEF StoreInv, HandleInv
  <2>5. ASSUME objects'[h0] \in AfterFailedSave(w)
        PROVE  \/ objects'[h0] = NoObject
               \/ objects'[h0] = objects[h0] /\ (w \in attached => ~Traits.cleans \/ ~Traits.inplace)
               \/ w \in attached /\ objects'[h0] = Object(w, w)
    <3>1. Traits.inplace => "unremoved" \notin Faults
      BY <1>1, <1>8, TraitFacts DEF Safe, WholeObjects, InPlaceAlone, Faults
    <3> QED
      BY <1>1, <2>1, <2>5, <3>1, FailedSaveFacts, TraitFacts
  <2>6. HandleInv'
    <3>1. \A v \in attached' : wst'[v] \in {"head", "body"} /\ objects'[Hash(v)].there
      <4> SUFFICES ASSUME NEW v \in attached'
                   PROVE  wst'[v] \in {"head", "body"} /\ objects'[Hash(v)].there
        OBVIOUS
      <4>1. v \in attached /\ v \in Workers /\ v # w /\ Hash(v) \in Hashes
        BY <1>1, <1>2, <1>5, <2>4, WorkerFacts
      <4>2. wst[v] \in {"head", "body"} /\ objects[Hash(v)].there
        BY <2>1, <4>1 DEF StoreInv, HandleInv
      <4>3. objects'[Hash(v)].there
        BY <1>5, <2>4, <4>1, <4>2 DEF Object
      <4> QED
        BY <1>3, <4>1, <4>2, <4>3
    <3>2. ASSUME NEW v \in Workers, wst'[v] \in {"head", "body"}
          PROVE  Traits.inplace /\ (firstErr'[v[1]] \/ v \in attached')
      <4>1. wst[v] \in {"head", "body"} /\ Traits.inplace
        BY <1>3, <2>1, <3>2 DEF StoreInv, HandleInv
      <4>2. v[1] \in Procs /\ pc[v[1]] = "running"
        BY <1>1, <4>1, WorkerFacts DEF PoolInv, Live, Saving
      <4>3. v[1] = w[1]
        BY <1>4, <1>8, <4>1, <4>2
      <4> QED
        BY <1>3, <4>1, <4>3
    <3>3. \A v \in Workers : wst'[v] = "put" => ~Traits.inplace
      BY <1>3, <2>1 DEF StoreInv, HandleInv
    <3>4. "edit" \notin Faults => edited = {}
      BY <2>1 DEF StoreInv, HandleInv
    <3> QED
      BY <1>1, <1>2, <1>5, <2>2, <2>3, <3>1, <3>2, <3>3, <3>4 DEF HandleInv
  <2>7. PartInv'
    <3> SUFFICES ASSUME ~Spoiled', NEW h \in Hashes, objects'[h].there
                 PROVE  /\ \/ objects'[h].head \in Workers
                           \/ \E v \in attached' : wst'[v] = "head" /\ Hash(v) = h
                        /\ \/ objects'[h].body \in Workers
                           \/ \E v \in attached' : Hash(v) = h
      BY <1>2, <1>5, <2>3 DEF PartInv
    <3>1. ~Traits.inplace \/ Traits.cleans
      BY <1>1, <1>3, <1>4, <2>2 DEF Spoiled
    <3>2. CASE objects'[h] = objects[h] /\ \A v \in attached : Hash(v) = h => v \in attached'
      <4>1. ~Spoiled /\ objects[h].there
        BY <3>1, <3>2 DEF Spoiled
      <4>2. \A v \in attached' : v \in attached /\ wst'[v] = wst[v]
        BY <1>2, <1>3, <1>5, <2>4
      <4> QED
        BY <2>1, <3>2, <4>1, <4>2 DEF StoreInv, PartInv
    <3>3. CASE h = h0 /\ objects'[h0] = Object(w, w)
      BY <3>3 DEF Object
    <3>4. CASE h = h0 /\ objects'[h0] = NoObject
      BY <3>4 DEF NoObject
    <3>5. \/ objects'[h] = objects[h] /\ \A v \in attached : Hash(v) = h => v \in attached'
          \/ h = h0 /\ objects'[h0] \in {Object(w, w), NoObject}
      <4>1. CASE h # h0
        BY <1>5, <2>4, <4>1
      <4>2. CASE h = h0
        BY <2>4, <2>5, <3>1, <4>2
      <4> QED
        BY <4>1, <4>2
    <3> QED
      BY <3>2, <3>3, <3>4, <3>5
  <2>8. WriterInv'
    <3>1. CASE Traits.inplace
      <4>1. w[1] \in setting.procs /\ w[2] \in setting.pool /\ Missing \notin Workers
        BY <1>1, <1>4 DEF PoolInv, Live, Missing, Workers
      <4>2. \A part \in {objects'[h0].head, objects'[h0].body} :
              part \in {objects[h0].head, objects[h0].body, Missing, w}
        BY <2>4, <2>5, <3>1 DEF Object, NoObject
      <4> QED
        BY <1>1, <1>2, <1>5, <2>1, <2>2, <3>1, <4>1, <4>2 DEF StoreInv, WriterInv
    <3>2. CASE ~Traits.inplace
      <4>1. objects'[h0].head = objects'[h0].body
        BY <1>2, <2>1, <2>4, <3>2 DEF StoreInv, WriterInv, Object
      <4> QED
        BY <1>5, <2>1, <2>2, <3>2, <4>1 DEF StoreInv, WriterInv
    <3> QED
      BY <3>1, <3>2
  <2>9. DoneInv'
    <3>1. CASE Traits.inplace
      BY <1>1, <1>3, <1>4, <1>8, <2>2, <3>1 DEF DoneInv
    <3>2. CASE ~Traits.inplace
      <4>1. \A h \in Hashes : objects[h].there => objects'[h].there
        BY <1>5, <2>4, <3>2 DEF Object
      <4>2. \A q \in Procs : ~firstErr'[q] => q # w[1] /\ ~firstErr[q]
        BY <1>3
      <4>3. \A v \in Workers : v[1] # w[1] => wst'[v] = wst[v]
        BY <1>3
      <4>4. \A f \in Files : \A i \in 1..Len(Pieces[format][f]) : Pieces[format][f][i] \in Hashes
        BY <1>1, PieceFacts, SettingFacts DEF format
      <4>5. \A q \in Procs : calculated[q] \subseteq Files
        BY <1>1 DEF TypeOK
      <4> QED
        BY <1>1, <2>1, <2>2, <4>1, <4>2, <4>3, <4>4, <4>5 DEF StoreInv, DoneInv
    <3> QED
      BY <3>1, <3>2
  <2>10. PublishedInv'
    <3>1. ASSUME NEW h \in Hashes, Published(h) PROVE objects'[h].there /\ Intact(h)'
      <4>1. objects[h].there /\ Intact(h)
        BY <2>1, <3>1 DEF StoreInv, PublishedInv
      <4>2. CASE objects'[h] = objects[h]
        BY <2>2, <4>1, <4>2 DEF Intact
      <4>3. CASE h = h0 /\ objects'[h0] = Object(w, w)
        BY <4>3 DEF Intact, Object
      <4>4. CASE h = h0 /\ wst[w] \in {"head", "body"} /\ Traits.inplace
        BY <1>2, <2>1, <3>1, <4>4 DEF StoreInv, PublishedInv
      <4> QED
        BY <1>5, <2>4, <4>2, <4>3, <4>4
    <3> QED
      BY <1>1, <1>3, <2>1, <2>2, <2>3, <3>1, PublishedSame DEF StoreInv, PublishedInv
  <2>11. FreshInv'
    BY <1>1, <1>4, <1>8, <2>2, SettingFacts DEF FreshInv
  <2> QED
    BY <2>6, <2>7, <2>8, <2>9, <2>10, <2>11 DEF StoreInv
<1> QED
  BY <1>1, <1>6, <1>7, <1>8 DEF IInv

\* A step that changes nothing.
LEMMA StutterInv == IInv /\ UNCHANGED vars => IInv'
<1> SUFFICES ASSUME IInv, UNCHANGED vars PROVE IInv'
  OBVIOUS
<1> USE DEF vars, procVars, workerVars
<1>1. TypeOK' /\ PoolInv' /\ HashedInv' /\ ManifestsComplete'
  BY DEF IInv, TypeOK, PoolInv, HashedInv, ManifestsComplete, format
<1>2. ASSUME Safe(setting) PROVE StoreInv'
  BY <1>2, StoreFrame, PublishedSame DEF IInv, TypeOK
<1> QED
  BY <1>1, <1>2 DEF IInv

-----------------------------------------------------------------------------
(* The theorems.                                                            *)

\* IInv is inductive, and holds in every state of every behaviour.
THEOREM Inductive == Spec => []IInv
<1>1. IInv /\ [Next]_vars => IInv'
  <2> SUFFICES ASSUME IInv, [Next]_vars PROVE IInv'
    OBVIOUS
  <2>1. ASSUME NEW p \in Procs,
               Start(p) \/ StartFails(p) \/ ProcStep(p) \/ Cancel(p) \/ Crash(p)
        PROVE  IInv'
    BY <2>1, StartInv, ProcessInv, PublishStartsInv, PublishReturnsInv, PublishFailsInv, CrashInv
       DEF ProcStep
  <2>2. ASSUME NEW w \in Workers, WorkerStep(w) \/ Edit(w) PROVE IInv'
    BY <2>2, ChannelInv, CalculateInv, AlreadyExistsInv, EncodeToPutInv, OpenInPlaceInv,
       WriteHeadInv, WriteBodyInv, PutInv, SaveSwallowsErrorInv, WorkerFailsInv, EditInv
       DEF WorkerStep
  <2>3. CASE UNCHANGED vars
    BY <2>3, StutterInv
  <2> QED
    BY <2>1, <2>2, <2>3 DEF Next
<1> QED
  BY <1>1, InitInv, PTL DEF Spec

\* Types; a busy worker is at a piece its file has.
THEOREM TypeCorrect == Spec => []TypeOK
<1>1. IInv => TypeOK
  BY DEF IInv
<1> QED
  BY <1>1, Inductive, PTL

\* On every back end, in every setting and under every fault modelled, a manifest that can
\* be read lists every file of the source with its hash: the feeder that stops on a
\* cancelled context reports nothing, but Save of the manifest looks at that context.
THEOREM ManifestsAreComplete == Spec => []ManifestsComplete
<1>1. IInv => ManifestsComplete
  BY DEF IInv
<1> QED
  BY <1>1, Inductive, PTL

\* In a safe setting every object a manifest refers to is stored and is what its hash says,
\* from the moment the manifest can be read and for ever: with any number of processes and
\* any fault where objects appear whole, and for one process that does not die where they
\* are written in place.
THEOREM PublishedStaysIntact == Spec => [](Safe(setting) => PublishedIntact)
<1>1. ASSUME IInv, Safe(setting) PROVE PublishedIntact
  <2> SUFFICES ASSUME NEW p \in Procs, NEW r \in Runs, Whole(manifests[p][r]),
                      NEW f \in manifests[p][r].files, NEW i \in DOMAIN Pieces[format][f]
               PROVE  Intact(Pieces[format][f][i])
    BY DEF PublishedIntact
  <2>1. f \in Files
    BY <1>1 DEF IInv, TypeOK
  <2>2. i \in 1..Len(Pieces[format][f]) /\ Pieces[format][f][i] \in Hashes
    BY <1>1, <2>1, PieceFacts, SettingFacts DEF IInv, format
  <2>3. Published(Pieces[format][f][i])
    BY <2>2 DEF Published
  <2> QED
    BY <1>1, <2>2, <2>3 DEF IInv, StoreInv, PublishedInv
<1> QED
  BY <1>1, Inductive, PTL

=============================================================================
