-------------------------------- MODULE Rekey --------------------------------
(***************************************************************************)
(* Key rotation: ReKey.Do of internal/domain/snapshot/rekey.go.  A rekey   *)
(* re-encrypts every object of the active generation into the next one     *)
(* with a pool of workers, switches config.json to it and deletes the old  *)
(* generation; on any error a deferred call deletes the new one instead.   *)
(*                                                                         *)
(* The model interleaves the feeder, the workers and the caller's context  *)
(* (which may be cancelled at any moment), lets every call into the        *)
(* repository fail, and lets the process die between any two steps and be  *)
(* started again.  As the README demands, no other operation runs at the   *)
(* same time.                                                              *)
(***************************************************************************)
EXTENDS GenerationStore

CONSTANT Workers   \* the pool of maxRekeyWorkers goroutines

ASSUME WorkersAssumption == IsFiniteSet(Workers) /\ Workers # {}
ASSUME HashesAssumption == IsFiniteSet(Hashes)

VARIABLES
  pc,       \* where Do is
  attempt,  \* number of rekeys started
  old,      \* the configuration Do read (generation and key)
  queue,    \* names the feeder has not handed over yet
  jobs,     \* the jobs channel: "open" or "closed"
  wst,      \* state of each worker goroutine
  wjob,     \* the name each worker is rekeying
  groupErr, \* some worker returned an error: the group context is cancelled
  ctxDone,  \* the caller's context is cancelled
  outcome,  \* how the last Do ended
  live      \* history: hashes readable through config.json at the start

procVars == <<pc, attempt, old, queue, jobs, wst, wjob, groupErr, ctxDone,
              outcome, live>>
vars == <<storeVars, procVars>>

NoJob == <<>>

NewKey == attempt + 1
NewGen == old.gen + 1
NewConfig == [gen |-> NewGen, key |-> NewKey]

GroupDone == groupErr \/ ctxDone

PcStates == {"idle", "rekey", "commit", "write", "delete", "abort"}
WorkerStates == {"off", "ready", "read", "saving", "done"}
Outcomes == {"none", "running", "refused", "ok", "committed_error", "aborted",
             "abort_failed", "crashed"}

\* Every variable has its type, generations and keys stay within the attempts
\* made so far.
TypeOK ==
  /\ StoreTypeOK
  /\ pc \in PcStates
  /\ attempt \in 0..MaxAttempts
  /\ old \in [gen : Gens, key : Keys]
  /\ queue \subseteq Names
  /\ jobs \in {"open", "closed"}
  /\ wst \in [Workers -> WorkerStates]
  /\ wjob \in [Workers -> Names \cup {NoJob}]
  /\ groupErr \in BOOLEAN
  /\ ctxDone \in BOOLEAN
  /\ outcome \in Outcomes
  /\ live \subseteq Hashes

\* A repository after init and any number of snapshots.  An object a crashed
\* snapshot creation left incomplete is Torn.
Init ==
  /\ backend \in Backends
  /\ config = [gen |-> 1, key |-> 1]
  /\ \E first \in [Hashes -> {Absent, Torn, 1}] :
       store = [g \in Gens |-> IF g = 1 THEN first ELSE [h \in Hashes |-> Absent]]
  /\ temps = {}
  /\ pc = "idle" /\ attempt = 0 /\ old = config
  /\ queue = {} /\ jobs = "closed"
  /\ wst = [w \in Workers |-> "off"]
  /\ wjob = [w \in Workers |-> NoJob]
  /\ groupErr = FALSE /\ ctxDone = FALSE
  /\ outcome = "none"
  /\ live = Complete(1, 1)

-----------------------------------------------------------------------------
(* ReKey.Do up to the deferred clean-up.                                    *)

\* GetConfig, the keys, ListEncryptedObjects, and the start of the pool.  With
\* nothing listed rekeyObjects returns at once.
Begin ==
  /\ pc = "idle"
  /\ attempt < MaxAttempts
  /\ ConfigReadable
  /\ attempt' = attempt + 1
  /\ old' = config
  /\ queue' = ListEncryptedObjects(config.gen)
  /\ groupErr' = FALSE /\ ctxDone' = FALSE
  /\ outcome' = "running"
  /\ wjob' = [w \in Workers |-> NoJob]
  /\ IF queue' = {}
       THEN pc' = "commit" /\ jobs' = "closed" /\ UNCHANGED wst
       ELSE /\ pc' = "rekey" /\ jobs' = "open"
            /\ \E pool \in SUBSET Workers :
                 /\ Cardinality(pool) =
                      IF Cardinality(queue') < Cardinality(Workers)
                        THEN Cardinality(queue') ELSE Cardinality(Workers)
                 /\ wst' = [w \in Workers |-> IF w \in pool THEN "ready" ELSE "off"]
  /\ UNCHANGED <<storeVars, live>>

\* Any of those calls fails, or config.json cannot be read: Do returns before
\* the clean-up is deferred.
BeginFails ==
  /\ pc = "idle"
  /\ attempt < MaxAttempts
  /\ attempt' = attempt + 1
  /\ outcome' = "refused"
  /\ UNCHANGED <<storeVars, pc, old, queue, jobs, wst, wjob, groupErr, ctxDone, live>>

-----------------------------------------------------------------------------
(* rekeyObjects: one feeder, a pool of workers, an errgroup.                *)

\* The unbuffered channel: the feeder sends exactly when a worker receives.
\* Go's select may choose this case although the group is already cancelled.
HandOver(w) ==
  /\ jobs = "open"
  /\ wst[w] = "ready"
  /\ \E n \in queue :
       /\ queue' = queue \ {n}
       /\ wjob' = [wjob EXCEPT ![w] = n]
  /\ wst' = [wst EXCEPT ![w] = "read"]
  /\ UNCHANGED <<storeVars, pc, attempt, old, jobs, groupErr, ctxDone, outcome, live>>

\* Mutant: the feeder does not watch the group's context.
FeederStuckAfterError ==
  /\ jobs = "open"
  /\ queue = {}
  /\ jobs' = "closed"
  /\ UNCHANGED <<storeVars, pc, attempt, old, queue, wst, wjob, groupErr, ctxDone,
                 outcome, live>>

\* Everything sent, or the group is cancelled: the feeder closes the channel.
FeederReturns ==
  /\ jobs = "open"
  /\ queue = {} \/ GroupDone
  /\ jobs' = "closed"
  /\ UNCHANGED <<storeVars, pc, attempt, old, queue, wst, wjob, groupErr, ctxDone,
                 outcome, live>>

\* The channel is closed and drained, or the group is cancelled: nil either way.
WorkerReturns(w) ==
  /\ wst[w] = "ready"
  /\ jobs = "closed" \/ GroupDone
  /\ wst' = [wst EXCEPT ![w] = "done"]
  /\ UNCHANGED <<storeVars, pc, attempt, old, queue, jobs, wjob, groupErr, ctxDone,
                 outcome, live>>

\* rekeyObject: ReadEncryptedObject decrypted the object, SaveRekeyedObject
\* opened its destination.  Both refuse a cancelled context.
OpenObject(w) ==
  /\ wst[w] = "read"
  /\ ~GroupDone
  /\ ReadEncryptedObject(wjob[w], old.gen, old.key)
  /\ LET h == wjob[w][1] IN
       /\ \E c \in SaveRekeyedObjectOf(backend, store[NewGen][h], NewKey).open :
            store' = [store EXCEPT ![NewGen][h] = c]
       /\ temps' = IF backend = "disk" THEN temps \cup {<<NewGen, h, NewKey>>} ELSE temps
  /\ wst' = [wst EXCEPT ![w] = "saving"]
  /\ UNCHANGED <<backend, config, pc, attempt, old, queue, jobs, wjob, groupErr,
                 ctxDone, outcome, live>>

\* SaveRekeyedObject returns nil: the object is in place under the new key.  The
\* context was last checked some time before, so it may be cancelled by now.
SaveObject(w) ==
  /\ wst[w] = "saving"
  /\ LET h == wjob[w][1] IN
       /\ store' = [store EXCEPT ![NewGen][h] = NewKey]
       /\ temps' = temps \ {<<NewGen, h, NewKey>>}
  /\ wst' = [wst EXCEPT ![w] = "ready"]
  /\ UNCHANGED <<backend, config, pc, attempt, old, queue, jobs, wjob, groupErr,
                 ctxDone, outcome, live>>

\* Reading, decrypting or saving failed: the goroutine returns the error, which
\* cancels the group.
WorkerFails(w) ==
  /\ \/ /\ wst[w] = "read"
        /\ UNCHANGED <<store, temps>>
     \/ /\ wst[w] = "saving"
        /\ LET h == wjob[w][1] IN
             /\ \E c \in SaveRekeyedObjectOf(backend, store[NewGen][h], NewKey).failed :
                  store' = [store EXCEPT ![NewGen][h] = c]
             /\ temps' \in {temps, temps \ {<<NewGen, h, NewKey>>}}
  /\ groupErr' = TRUE
  /\ wst' = [wst EXCEPT ![w] = "done"]
  /\ UNCHANGED <<backend, config, pc, attempt, old, queue, jobs, wjob, ctxDone,
                 outcome, live>>

\* Mutant: Wait returns at the first error, not when all have returned.
WaitForFirstError ==
  /\ pc = "rekey"
  /\ groupErr \/ (jobs = "closed" /\ \A w \in Workers : wst[w] \in {"off", "done"})
  /\ pc' = IF groupErr THEN "abort" ELSE "commit"
  /\ UNCHANGED <<storeVars, attempt, old, queue, jobs, wst, wjob, groupErr, ctxDone,
                 outcome, live>>

\* group.Wait: every goroutine has returned.  A cancelled caller is no error here.
GroupWait ==
  /\ pc = "rekey"
  /\ jobs = "closed"
  /\ \A w \in Workers : wst[w] \in {"off", "done"}
  /\ pc' = IF groupErr THEN "abort" ELSE "commit"
  /\ UNCHANGED <<storeVars, attempt, old, queue, jobs, wst, wjob, groupErr, ctxDone,
                 outcome, live>>

-----------------------------------------------------------------------------
(* The switch of config.json and what follows it.                           *)

\* MarshalConfig refuses a cancelled context; any other error before the first
\* write of config.json ends here too.
CreateConfigRefused ==
  /\ pc = "commit"
  /\ pc' = "abort"
  /\ UNCHANGED <<storeVars, attempt, old, queue, jobs, wst, wjob, groupErr, ctxDone,
                 outcome, live>>

\* Mutant: config.json is written without a look at the context.
CommitAfterCancel ==
  /\ pc = "commit"
  /\ config' \in CreateConfigOf(backend, config, NewConfig)
  /\ pc' = "write"
  /\ UNCHANGED <<backend, store, temps, attempt, old, queue, jobs, wst, wjob, groupErr,
                 ctxDone, outcome, live>>

CreateConfigStarts ==
  /\ pc = "commit"
  /\ ~ctxDone
  /\ config' \in CreateConfigOf(backend, config, NewConfig)
  /\ pc' = "write"
  /\ UNCHANGED <<backend, store, temps, attempt, old, queue, jobs, wst, wjob, groupErr,
                 ctxDone, outcome, live>>

\* CreateConfig returns nil: committed.
CreateConfigReturns ==
  /\ pc = "write"
  /\ config' = NewConfig
  /\ pc' = "delete"
  /\ UNCHANGED <<backend, store, temps, attempt, old, queue, jobs, wst, wjob, groupErr,
                 ctxDone, outcome, live>>

CreateConfigFails ==
  /\ pc = "write"
  /\ config' \in FailedConfigs(NewConfig)
  /\ pc' = "abort"
  /\ UNCHANGED <<backend, store, temps, attempt, old, queue, jobs, wst, wjob, groupErr,
                 ctxDone, outcome, live>>

\* DeleteEncryptedGeneration of the generation that was current.
DeleteOld ==
  /\ pc = "delete"
  /\ ~ctxDone
  /\ RemoveFrom(old.gen)
  /\ UNCHANGED <<backend, config, procVars>>

\* Mutant: success is reported before the deletion is complete.
DeleteOldUnfinished ==
  /\ pc = "delete"
  /\ outcome' = "ok"
  /\ pc' = "idle"
  /\ UNCHANGED <<storeVars, attempt, old, queue, jobs, wst, wjob, groupErr, ctxDone, live>>

DeleteOldReturns ==
  /\ pc = "delete"
  /\ \/ ~ctxDone /\ DeletionComplete(old.gen) /\ outcome' = "ok"
     \/ outcome' = "committed_error"
  /\ pc' = "idle"
  /\ UNCHANGED <<storeVars, attempt, old, queue, jobs, wst, wjob, groupErr, ctxDone, live>>

\* Mutant: the clean-up takes the generation Do read for the one it wrote.
AbortsCurrentGeneration ==
  /\ pc = "abort"
  /\ RemoveFrom(old.gen)
  /\ UNCHANGED <<backend, config, procVars>>

\* The deferred AbortRekey runs on a context of its own, so a cancelled caller
\* does not stop it; the 30 s timeout or an error may.
Abort ==
  /\ pc = "abort"
  /\ RemoveFrom(NewGen)
  /\ UNCHANGED <<backend, config, procVars>>

AbortReturns ==
  /\ pc = "abort"
  /\ \/ DeletionComplete(NewGen) /\ outcome' = "aborted"
     \/ outcome' = "abort_failed"
  /\ pc' = "idle"
  /\ UNCHANGED <<storeVars, attempt, old, queue, jobs, wst, wjob, groupErr, ctxDone, live>>

-----------------------------------------------------------------------------
(* The environment.                                                         *)

\* The caller cancels the context it passed to Do.
Cancel ==
  /\ pc # "idle"
  /\ ~ctxDone
  /\ ctxDone' = TRUE
  /\ UNCHANGED <<storeVars, pc, attempt, old, queue, jobs, wst, wjob, groupErr,
                 outcome, live>>

\* The process dies (or loses its only connection): memory is gone, the
\* repository stays as it is, no deferred call runs.
Crash ==
  /\ pc # "idle"
  /\ pc' = "idle"
  /\ outcome' = "crashed"
  /\ queue' = {} /\ jobs' = "closed"
  /\ wst' = [w \in Workers |-> "off"]
  /\ wjob' = [w \in Workers |-> NoJob]
  /\ UNCHANGED <<storeVars, attempt, old, groupErr, ctxDone, live>>

-----------------------------------------------------------------------------
WorkerStep(w) ==
  HandOver(w) \/ WorkerReturns(w) \/ OpenObject(w) \/ SaveObject(w) \/ WorkerFails(w)

MainStep ==
  \/ FeederReturns \/ GroupWait
  \/ CreateConfigRefused \/ CreateConfigStarts \/ CreateConfigReturns \/ CreateConfigFails
  \/ DeleteOld \/ DeleteOldReturns
  \/ Abort \/ AbortReturns

Next ==
  \/ Begin \/ BeginFails
  \/ \E w \in Workers : WorkerStep(w)
  \/ MainStep
  \/ Cancel \/ Crash

\* Goroutines that can run are scheduled, and a call into the repository
\* returns, well or badly.  Starting a rekey, cancelling it and crashing are
\* left to the environment.
Fairness ==
  /\ \A w \in Workers : WF_vars(WorkerStep(w))
  /\ WF_vars(MainStep)

Spec == Init /\ [][Next]_vars
FairSpec == Spec /\ Fairness

-----------------------------------------------------------------------------
(* What the rotation promises.                                              *)

\* Whenever config.json can be read, the generation it names holds every object
\* that was readable before, complete and under the key it wraps: through worker
\* errors, cancellation, crashes and retries over what an earlier attempt left.
ReadableConfigComplete == ConfigReadable => live \subseteq Complete(config.gen, config.key)

\* An attempt in which an object failed and whose clean-up succeeded leaves the
\* configuration it found and no trace of the new generation: no worker still
\* writes when AbortRekey runs.  (The SMB back end deletes nothing.)
FailedObjectRollsBack ==
  outcome = "aborted" /\ groupErr /\ backend # "smb" =>
    config = old /\ GenerationEmpty(NewGen)

\* A rekey that reports success has removed every object under the old key,
\* leftover temporary files included.  (The SMB back end deletes nothing.)
SuccessRetiresOldGeneration ==
  outcome = "ok" /\ backend # "smb" => GenerationEmpty(old.gen) /\ config = NewConfig

\* Every rekey ends: the feeder, the workers and Wait never block each other.
EveryAttemptReturns == pc # "idle" ~> pc = "idle"

\* Seen through config.json a rekey is one atomic rotation, whatever happens in
\* between (back ends that replace config.json in one step).
Rotation == INSTANCE KeyRotation WITH
  gen <- config.gen,
  key <- config.key,
  readable <- Complete(config.gen, config.key)

RotatesAtomically == Rotation!Spec

=============================================================================
