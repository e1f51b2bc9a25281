--------------------------- MODULE RekeyRefinement ---------------------------
(***************************************************************************)
(* Rekey implements KeyRotation: seen through config.json a rekey is one   *)
(* atomic rotation, on the back ends that replace config.json in one step. *)
(* The argument needs more than RekeyProofs: that exactly the live objects *)
(* are readable, which rests on every attempt's key being fresh.           *)
(***************************************************************************)
EXTENDS RekeyProofs

\* config.json is replaced in one step, and an error means it was not replaced.
AtomicSwitch ==
  /\ Backends \subseteq {"ssh", "s3", "gcs"}
  /\ AmbiguousErrors = {}

\* No cell holds a key that was not generated yet, and the key of the running
\* attempt is only under objects that were readable.
FreshKeys ==
  /\ \A g \in Gens : \A h \in Hashes : store[g][h] <= attempt + 1
  /\ config.key <= attempt + 1
  /\ pc # "idle" =>
       /\ old.key <= attempt
       /\ \A g \in Gens : \A h \in Hashes : store[g][h] = NewKey => h \in live
  /\ \A w \in Workers : wst[w] = "saving" => wjob[w][1] \in live

\* config.json is always readable, and exactly the live objects are readable
\* through it.
ExactInv ==
  /\ config # Unreadable
  /\ Complete(config.gen, config.key) = live

RInv == IInv /\ FreshKeys /\ ExactInv

-----------------------------------------------------------------------------
\* The assumption is stronger than the one of RekeyProofs.
LEMMA AtomicIsSafe == AtomicSwitch => CleanupIsSafe
BY DEF AtomicSwitch, CleanupIsSafe

\* SaveRekeyedObject leaves the cell it found, nothing, a torn object or one
\* under the new key.
LEMMA SavedKeys ==
  ASSUME NEW b \in AllBackends, NEW c, NEW k
  PROVE  /\ SaveRekeyedObjectOf(b, c, k).open \subseteq {c, Torn}
         /\ SaveRekeyedObjectOf(b, c, k).failed \subseteq {c, Absent, Torn, k}
<1>1. CASE b = "disk"
  BY <1>1 DEF SaveRekeyedObjectOf, DiskSaveRekeyedObject
<1>2. CASE b = "ssh"
  BY <1>2 DEF SaveRekeyedObjectOf, SshSaveRekeyedObject
<1>3. CASE b = "smb"
  BY <1>3 DEF SaveRekeyedObjectOf, SmbSaveRekeyedObject
<1>4. CASE b = "s3"
  BY <1>4 DEF SaveRekeyedObjectOf, S3SaveRekeyedObject
<1>5. CASE b = "gcs"
  BY <1>5 DEF SaveRekeyedObjectOf, GcsSaveRekeyedObject
<1>6. CASE b = "webdav"
  BY <1>6 DEF SaveRekeyedObjectOf, WebdavSaveRekeyedObject
<1> QED
  BY <1>1, <1>2, <1>3, <1>4, <1>5, <1>6 DEF AllBackends

\* Under AtomicSwitch the middle of CreateConfig still shows the old document.
LEMMA AtomicMidState ==
  ASSUME AtomicSwitch, backend \in Backends, NEW o, NEW n
  PROVE  /\ CreateConfigOf(backend, o, n) = {o}
         /\ FailedConfigs(n) = {config}
<1>1. backend \in {"ssh", "s3", "gcs"}
  BY DEF AtomicSwitch
<1>2. CreateConfigOf(backend, o, n) = {o}
  BY <1>1 DEF CreateConfigOf, SshCreateConfig, S3CreateConfig, GcsCreateConfig
<1>3. FailedConfigs(n) = {config}
  BY DEF AtomicSwitch, FailedConfigs
<1> QED
  BY <1>2, <1>3

\* A step of a deletion leaves each object as it is or removes it.
LEMMA RemoveFromCells ==
  ASSUME StoreTypeOK, NEW g \in Gens, RemoveFrom(g)
  PROVE  \A x \in Gens : \A h \in Hashes : store'[x][h] \in {store[x][h], Absent}
<1>1. PICK gone \in DeleteEncryptedGenerationOf(backend, g) :
        store' = [store EXCEPT ![g] =
                   [h \in Hashes |-> IF <<h, 0>> \in gone THEN Absent ELSE store[g][h]]]
  BY DEF RemoveFrom
<1>2. \A x \in Gens : x # g => store'[x] = store[x]
  BY <1>1 DEF StoreTypeOK
<1>3. store'[g] = [h \in Hashes |-> IF <<h, 0>> \in gone THEN Absent ELSE store[g][h]]
  BY <1>1 DEF StoreTypeOK
<1>4. \A h \in Hashes : store'[g][h] \in {store[g][h], Absent}
  BY <1>3
<1> QED
  BY <1>2, <1>4

\* The only step that changes config.json is the return of CreateConfig.
LEMMA OneSwitch ==
  ASSUME AtomicSwitch, IInv, [Next]_vars
  PROVE  /\ live' = live
         /\ config' = config \/ CreateConfigReturns
<1>1. backend \in Backends
  BY DEF IInv, TypeOK, StoreTypeOK
<1>2. CASE Begin \/ BeginFails \/ Cancel \/ Crash \/ UNCHANGED vars
  BY <1>2 DEF Begin, BeginFails, Cancel, Crash, vars, procVars, storeVars
<1>3. CASE \E w \in Workers : WorkerStep(w)
  BY <1>3 DEF WorkerStep, HandOver, WorkerReturns, OpenObject, SaveObject, WorkerFails, storeVars
<1>4. CASE CreateConfigStarts \/ CreateConfigFails
  BY <1>1, <1>4, AtomicMidState DEF CreateConfigStarts, CreateConfigFails
<1>5. CASE \/ FeederReturns \/ GroupWait \/ CreateConfigRefused \/ CreateConfigReturns
           \/ DeleteOld \/ DeleteOldReturns \/ Abort \/ AbortReturns
  BY <1>5 DEF FeederReturns, GroupWait, CreateConfigRefused, CreateConfigReturns,
     DeleteOld, DeleteOldReturns, Abort, AbortReturns, procVars, storeVars
<1> QED
  BY <1>2, <1>3, <1>4, <1>5 DEF Next, MainStep

\* What a step may do to a cell: leave it, empty or tear it, or, if a worker saves
\* a readable object in the new generation, fill it with the attempt's key.
CellStep(g, h) ==
  \/ store'[g][h] = store[g][h]
  \/ store'[g][h] \in {Absent, Torn}
  \/ pc = "rekey" /\ g = NewGen /\ h \in live /\ store'[g][h] = NewKey

\* What a worker does to the cells of the store is such a step.
LEMMA WorkerCells ==
  ASSUME RInv, NEW w \in Workers, OpenObject(w) \/ SaveObject(w) \/ WorkerFails(w)
  PROVE  \A g \in Gens : \A h \in Hashes : CellStep(g, h)
<1> DEFINE x == wjob[w][1]
<1>1. pc = "rekey" /\ x \in Hashes
  BY DEF RInv, IInv, PoolInv, OpenObject, SaveObject, WorkerFails, Names
<1>2. NewGen \in Gens /\ backend \in AllBackends
  BY <1>1, NewNumbers, BackendsAssumption DEF RInv, IInv, TypeOK, StoreTypeOK
<1>3. store \in [Gens -> [Hashes -> Cells]]
  BY DEF RInv, IInv, TypeOK, StoreTypeOK
<1>4. ASSUME NEW c, store' = [store EXCEPT ![NewGen][x] = c],
             c \in {store[NewGen][x], Absent, Torn, NewKey},
             c = NewKey => x \in live \/ c = store[NewGen][x]
      PROVE  \A g \in Gens : \A h \in Hashes : CellStep(g, h)
  <2>1. \A g \in Gens : g # NewGen => store'[g] = store[g]
    BY <1>3, <1>4
  <2>2. store'[NewGen] = [store[NewGen] EXCEPT ![x] = c]
    BY <1>2, <1>3, <1>4
  <2>3. store[NewGen] \in [Hashes -> Cells]
    BY <1>2, <1>3
  <2>4. \A h \in Hashes : h # x => store'[NewGen][h] = store[NewGen][h]
    BY <2>2, <2>3
  <2>5. store'[NewGen][x] = c
    BY <1>1, <2>2, <2>3
  <2> QED
    BY <1>1, <1>4, <2>1, <2>4, <2>5 DEF CellStep
<1>5. CASE OpenObject(w)
  <2>1. PICK c \in SaveRekeyedObjectOf(backend, store[NewGen][x], NewKey).open :
          store' = [store EXCEPT ![NewGen][x] = c]
    BY <1>5 DEF OpenObject
  <2>2. c \in {store[NewGen][x], Torn}
    BY <1>2, <2>1, SavedKeys
  <2>3. Torn # NewKey
    BY AttemptsAssumption DEF Torn, NewKey, RInv, IInv, TypeOK
  <2> QED
    BY <1>4, <2>1, <2>2, <2>3
<1>6. CASE SaveObject(w)
  <2>1. x \in live /\ store' = [store EXCEPT ![NewGen][x] = NewKey]
    BY <1>6 DEF SaveObject, RInv, FreshKeys
  <2> QED
    BY <1>4, <2>1
<1>7. CASE WorkerFails(w)
  <2>1. CASE wst[w] = "read"
    BY <1>7, <2>1 DEF WorkerFails, CellStep
  <2>2. CASE wst[w] = "saving"
    <3>1. PICK c \in SaveRekeyedObjectOf(backend, store[NewGen][x], NewKey).failed :
            store' = [store EXCEPT ![NewGen][x] = c]
      BY <1>7, <2>2 DEF WorkerFails
    <3>2. c \in {store[NewGen][x], Absent, Torn, NewKey}
      BY <1>2, <3>1, SavedKeys
    <3>3. x \in live
      BY <2>2 DEF RInv, FreshKeys
    <3> QED
      BY <1>4, <3>1, <3>2, <3>3
  <2> QED
    BY <1>7, <2>1, <2>2 DEF WorkerFails
<1> QED
  BY <1>5, <1>6, <1>7

\* So is what any step of the specification does to them.
LEMMA EveryCell ==
  ASSUME RInv, [Next]_vars
  PROVE  \A g \in Gens : \A h \in Hashes : CellStep(g, h)
<1>1. CASE \E w \in Workers : OpenObject(w) \/ SaveObject(w) \/ WorkerFails(w)
  BY <1>1, WorkerCells
<1>2. CASE DeleteOld \/ Abort
  <2>1. old.gen \in Gens /\ NewGen \in Gens /\ StoreTypeOK
    BY <1>2, NewNumbers DEF RInv, IInv, TypeOK, DeleteOld, Abort
  <2>2. PICK g \in Gens : RemoveFrom(g)
    BY <1>2, <2>1 DEF DeleteOld, Abort
  <2> QED
    BY <2>1, <2>2, RemoveFromCells DEF CellStep
<1>3. CASE store' = store
  BY <1>3 DEF CellStep
<1>4. \/ \E w \in Workers : OpenObject(w) \/ SaveObject(w) \/ WorkerFails(w)
      \/ DeleteOld \/ Abort
      \/ store' = store
  <2>1. CASE \E w \in Workers : WorkerStep(w)
    BY <2>1 DEF WorkerStep, HandOver, WorkerReturns, storeVars
  <2>2. CASE MainStep
    BY <2>2 DEF MainStep, FeederReturns, GroupWait, CreateConfigRefused, CreateConfigStarts,
       CreateConfigReturns, CreateConfigFails, DeleteOldReturns, AbortReturns, storeVars
  <2>3. CASE Begin \/ BeginFails \/ Cancel \/ Crash \/ UNCHANGED vars
    BY <2>3 DEF Begin, BeginFails, Cancel, Crash, vars, storeVars
  <2> QED
    BY <2>1, <2>2, <2>3 DEF Next
<1> QED
  BY <1>1, <1>2, <1>3, <1>4

\* How a step moves the attempt counter and the configuration read at its start.
LEMMA AttemptStep ==
  ASSUME [Next]_vars
  PROVE  \/ attempt' = attempt /\ old' = old /\ (pc' # "idle" => pc # "idle")
         \/ attempt' = attempt + 1 /\ pc = "idle" /\ old' = config
         \/ attempt' = attempt + 1 /\ pc' = "idle"
<1>1. CASE \E w \in Workers : WorkerStep(w)
  BY <1>1 DEF WorkerStep, HandOver, WorkerReturns, OpenObject, SaveObject, WorkerFails
<1>2. CASE MainStep
  BY <1>2 DEF MainStep, FeederReturns, GroupWait, CreateConfigRefused, CreateConfigStarts,
     CreateConfigReturns, CreateConfigFails, DeleteOld, DeleteOldReturns, Abort,
     AbortReturns, procVars
<1>3. CASE Begin \/ BeginFails \/ Cancel \/ Crash \/ UNCHANGED vars
  BY <1>3 DEF Begin, BeginFails, Cancel, Crash, vars, procVars
<1> QED
  BY <1>1, <1>2, <1>3 DEF Next

\* Whatever a worker is saving was readable when it was read.
LEMMA SavingLive ==
  ASSUME RInv, [Next]_vars, live' = live
  PROVE  \A x \in Workers : wst'[x] = "saving" => wjob'[x][1] \in live
<1>0. /\ wst \in [Workers -> WorkerStates] /\ wjob \in [Workers -> Names \cup {NoJob}]
      /\ \A x \in Workers : wst[x] = "saving" => wjob[x][1] \in live
      /\ \A x \in Workers : wst[x] = "saving" => pc = "rekey"
  BY DEF RInv, IInv, TypeOK, FreshKeys, PoolInv
<1>1. CASE \E w \in Workers : OpenObject(w)
  <2>1. PICK w \in Workers : OpenObject(w)
    BY <1>1
  <2>2. config = old /\ wjob[w][1] \in Hashes
    BY <2>1 DEF OpenObject, RInv, IInv, PoolInv, PhaseInv, Names
  <2>3. wjob[w][1] \in live
    BY <2>1, <2>2 DEF OpenObject, ReadEncryptedObject, RInv, ExactInv, Complete
  <2>4. wst' = [wst EXCEPT ![w] = "saving"] /\ wjob' = wjob
    BY <2>1 DEF OpenObject
  <2> QED
    BY <1>0, <2>3, <2>4
<1>2. CASE \E w \in Workers : HandOver(w) \/ WorkerReturns(w) \/ SaveObject(w) \/ WorkerFails(w)
  BY <1>0, <1>2 DEF HandOver, WorkerReturns, SaveObject, WorkerFails
<1>3. CASE MainStep
  BY <1>0, <1>3 DEF MainStep, FeederReturns, GroupWait, CreateConfigRefused,
     CreateConfigStarts, CreateConfigReturns, CreateConfigFails, DeleteOld,
     DeleteOldReturns, Abort, AbortReturns, procVars
<1>4. CASE Begin
  <2>1. pc = "idle"
    BY <1>4 DEF Begin
  <2>2. \A x \in Workers : wst[x] # "saving"
    BY <1>0, <2>1
  <2> QED
    BY <1>4, <2>2 DEF Begin
<1>5. CASE BeginFails \/ Cancel \/ Crash \/ UNCHANGED vars
  BY <1>0, <1>5 DEF BeginFails, Cancel, Crash, vars, procVars
<1> QED
  BY <1>1, <1>2, <1>3, <1>4, <1>5 DEF Next, WorkerStep

\* Every step preserves the invariant the refinement rests on.
LEMMA NextRInv ==
  ASSUME AtomicSwitch, RInv, [Next]_vars
  PROVE  RInv'
<1>1. IInv'
  BY AtomicIsSafe, NextIInv DEF RInv
<1>2. live' = live /\ (config' = config \/ CreateConfigReturns)
  BY OneSwitch DEF RInv
<1>3. \A g \in Gens : \A h \in Hashes : CellStep(g, h)
  BY EveryCell
<1>4. /\ attempt \in Nat /\ old.key \in Int /\ config.key \in Nat \ {0} /\ config.gen \in Gens
      /\ \A g \in Gens : \A h \in Hashes : store[g][h] \in Int
  BY AttemptsAssumption
  DEF RInv, IInv, TypeOK, StoreTypeOK, ExactInv, Gens, Keys, Cells, Absent, Torn
<1>5. attempt' = attempt \/ attempt' = attempt + 1
  BY AttemptStep
<1>6. CreateConfigReturns =>
        /\ pc = "write" /\ config' = NewConfig /\ store' = store /\ attempt' = attempt
        /\ NewGen \in Gens
  BY NewNumbers DEF CreateConfigReturns, RInv, IInv
<1>7. FreshKeys'
  <2>1. \A g \in Gens : \A h \in Hashes : store'[g][h] <= attempt' + 1
    BY <1>3, <1>4, <1>5 DEF RInv, FreshKeys, CellStep, Absent, Torn, NewKey
  <2>2. config'.key <= attempt' + 1
    BY <1>2, <1>4, <1>5, <1>6 DEF RInv, FreshKeys, NewConfig, NewKey
  <2>3. ASSUME pc' # "idle"
        PROVE  /\ old'.key <= attempt'
               /\ \A g \in Gens : \A h \in Hashes : store'[g][h] = attempt' + 1 => h \in live
    <3>1. CASE attempt' = attempt /\ old' = old /\ pc # "idle"
      BY <1>3, <1>4, <3>1 DEF RInv, FreshKeys, CellStep, Absent, Torn, NewKey
    <3>2. CASE attempt' = attempt + 1 /\ pc = "idle" /\ old' = config
      BY <1>3, <1>4, <3>2 DEF RInv, FreshKeys, CellStep, Absent, Torn, NewKey
    <3> QED
      BY <2>3, <3>1, <3>2, AttemptStep
  <2>4. \A w \in Workers : wst'[w] = "saving" => wjob'[w][1] \in live
    BY <1>2, SavingLive
  <2> QED
    BY <1>2, <2>1, <2>2, <2>3, <2>4 DEF FreshKeys, NewKey
<1>8. config' # Unreadable
  BY <1>2, <1>4, <1>6 DEF RInv, ExactInv, NewConfig, NewKey, Unreadable
<1>9. Complete(config.gen, config.key)' = live
  <2>1. live \subseteq Complete(config.gen, config.key)'
    BY <1>1, <1>2, <1>8 DEF IInv, ReadableConfigComplete, ConfigReadable
  <2>2. CASE CreateConfigReturns
    <3>1. \A h \in Hashes : store'[config'.gen][h] = config'.key => h \in live
      BY <1>6, <2>2 DEF RInv, FreshKeys, NewConfig
    <3> QED
      BY <2>1, <3>1 DEF Complete
  <2>3. CASE config' = config
    <3>1. pc = "rekey" => NewGen # config.gen
      BY NewNumbers DEF RInv, IInv, PhaseInv
    <3>2. \A h \in Hashes : store'[config.gen][h] = config.key => store[config.gen][h] = config.key
      BY <1>3, <1>4, <3>1 DEF CellStep, Absent, Torn
    <3> QED
      BY <2>1, <2>3, <3>2 DEF RInv, ExactInv, Complete
  <2> QED
    BY <1>2, <2>2, <2>3
<1> QED
  BY <1>1, <1>2, <1>7, <1>8, <1>9 DEF RInv, ExactInv

\* The initial repository satisfies it.
LEMMA InitRInv == Init => RInv
<1> SUFFICES ASSUME Init PROVE RInv
  OBVIOUS
<1>1. IInv
  BY InitIInv
<1>2. PICK first \in [Hashes -> {Absent, Torn, 1}] :
         store = [g \in Gens |-> IF g = 1 THEN first ELSE [h \in Hashes |-> Absent]]
  BY DEF Init
<1>3. \A g \in Gens : \A h \in Hashes : store[g][h] \in {Absent, Torn, 1}
  BY <1>2
<1>4. FreshKeys
  BY <1>3 DEF Init, FreshKeys, Absent, Torn
<1>5. ExactInv
  BY DEF Init, ExactInv, Unreadable
<1> QED
  BY <1>1, <1>4, <1>5 DEF RInv

\* Every rekey is, seen through config.json, one atomic rotation to the next
\* generation under a fresh key with the same readable objects (rekey.go:93-112).
THEOREM Refinement ==
  ASSUME AtomicSwitch
  PROVE  Spec => RotatesAtomically
<1>1. Init => Rotation!Init
  BY DEF Init, Rotation!Init, Complete
<1>2. RInv /\ [Next]_vars =>
        [Rotation!Rotate]_<<config.gen, config.key, Complete(config.gen, config.key)>>
  <2> SUFFICES ASSUME RInv, [Next]_vars
               PROVE  \/ Rotation!Rotate
                      \/ UNCHANGED <<config.gen, config.key, Complete(config.gen, config.key)>>
    OBVIOUS
  <2>1. RInv'
    BY NextRInv
  <2>2. live' = live /\ (config' = config \/ CreateConfigReturns)
    BY OneSwitch DEF RInv
  <2>3. UNCHANGED Complete(config.gen, config.key)
    BY <2>1, <2>2 DEF RInv, ExactInv
  <2>4. CASE config' = config
    BY <2>3, <2>4
  <2>5. CASE CreateConfigReturns
    <3>1. /\ pc = "write" /\ config' = NewConfig /\ NewConfig.gen = NewGen
          /\ NewConfig.key = NewKey /\ backend \in Backends
      BY <2>5, NewNumbers DEF CreateConfigReturns, RInv, IInv, TypeOK, StoreTypeOK
    <3>2. config = old
      BY <3>1 DEF RInv, IInv, PhaseInv, ExactInv, AtomicSwitch
    <3>3. attempt \in Nat /\ old.key \in Int /\ old.key <= attempt
      BY <3>1, AttemptsAssumption DEF RInv, IInv, TypeOK, FreshKeys, Keys
    <3>4. config'.gen = config.gen + 1 /\ config'.key \in Nat /\ config'.key > config.key
      BY <3>1, <3>2, <3>3 DEF NewGen, NewKey
    <3> QED
      BY <2>3, <3>4 DEF Rotation!Rotate
  <2> QED
    BY <2>2, <2>4, <2>5
<1>3. Init => RInv
  BY InitRInv
<1>4. RInv /\ [Next]_vars => RInv'
  BY NextRInv
<1> QED
  BY <1>1, <1>2, <1>3, <1>4, PTL DEF Spec, RotatesAtomically, Rotation!Spec

=============================================================================
