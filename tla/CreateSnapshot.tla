---------------------------- MODULE CreateSnapshot ----------------------------
(***************************************************************************)
(* Snapshot creation: Create.Do of internal/domain/snapshot/create.go, on  *)
(* any back end.  A pool of workers hashes the files of a directory and    *)
(* saves each object that AlreadyExists does not find; a manifest that     *)
(* refers to all of them is written when every worker has returned.        *)
(*                                                                         *)
(* The model interleaves the feeder and the workers of one or more         *)
(* processes, the pieces of an object written in place, and the faults of  *)
(* the environment: an error from any call, a cancelled context, a source  *)
(* file that changes while it is backed up, the death of the process.      *)
(***************************************************************************)
EXTENDS Naturals, Sequences, FiniteSets, ObjectStore

CONSTANTS
  Procs,     \* processes that run "stowmark snapshot create"
  PoolIds,   \* the workers of one process
  Files,     \* the files of the source directory
  Hashes,    \* hashes of encoded content
  Pieces,    \* Pieces[format][file]: the hashes the file is stored under
  Settings,  \* the settings under study: a set of records, see SettingType
  MaxRuns    \* bound: how many times a process is run

\* An error from any call; a cancelled context; a source file that changes; the death
\* of the process; the removal after a failed save failing too, which goes unnoticed.
AllFaults == {"error", "cancel", "edit", "crash", "unremoved"}

\* A repository (back end, format, with encryption or not), the faults of the
\* environment, which processes run how often, and the size of their pools.
SettingType ==
  [backend : AllBackends, format : {1, 2}, encrypted : BOOLEAN,
   faults : SUBSET AllFaults, procs : SUBSET Procs, runs : 0..MaxRuns,
   pool : SUBSET PoolIds \ {{}}]

ASSUME PiecesAssumption ==
  /\ Pieces \in [{1, 2} -> [Files -> Seq(Hashes) \ {<<>>}]]
  /\ \A f \in Files : Len(Pieces[1][f]) = 1
\* Do starts at most one worker per file.
ASSUME PoolAssumption ==
  /\ IsFiniteSet(Files) /\ IsFiniteSet(PoolIds)
  /\ Cardinality(PoolIds) <= Cardinality(Files)
ASSUME SettingsAssumption == MaxRuns \in Nat /\ Settings \subseteq SettingType

Workers == Procs \X PoolIds
Runs == 1..MaxRuns

VARIABLES
  setting,   \* never changes
  objects,   \* what lies at each hash's path
  manifests, \* the manifest of each run of each process
  pc,        \* where each process is in Do
  run,       \* how many runs each process has started
  feed,      \* files not handed to a worker yet
  indexes,   \* the channel: "open" or "closed"
  calculated,\* files whose hash is known
  firstErr,  \* some worker failed
  ctxDone,   \* the context Do works with is cancelled
  wst,       \* what each worker is doing
  wfile,     \* the file it works on
  wpiece,    \* which piece of it
  attached,  \* workers whose open handle still refers to the object's path
  edited     \* workers whose file changed after it was hashed

procVars == <<pc, run, feed, indexes, calculated, firstErr, ctxDone>>
workerVars == <<wst, wfile, wpiece, attached, edited>>
vars == <<setting, objects, manifests, procVars, workerVars>>

backend == setting.backend
format == setting.format
encrypted == setting.encrypted
Faults == setting.faults

-----------------------------------------------------------------------------
(* An object is two parts in a row (for an encrypted one, nonce and        *)
(* ciphertext), each tagged by the worker that wrote it.                   *)

Missing == <<"missing">>      \* a part not written yet
Foreign == <<"foreign">>      \* a part that is not the content hashed
Parts == Workers \cup {Missing, Foreign}

Object(head, body) == [there |-> TRUE, head |-> head, body |-> body]
NoObject == [there |-> FALSE, head |-> Missing, body |-> Missing]

\* The bytes at the path hash to h, after decryption where there is one: every
\* encryption of the same content has a nonce of its own.
Intact(h) ==
  /\ objects[h].head \in Workers
  /\ objects[h].body \in Workers
  /\ encrypted => objects[h].head = objects[h].body

NoManifest == [state |-> "none", files |-> {}]
Whole(m) == m.state = "whole"

WorkerStates == {"off", "ready", "hash", "check", "save", "head", "body", "put", "done"}

\* Types; a busy worker is at a piece its file has.
TypeOK ==
  /\ setting \in Settings
  /\ objects \in [Hashes -> [there : BOOLEAN, head : Parts, body : Parts]]
  /\ manifests \in [Procs -> [Runs -> [state : {"none", "torn", "whole"}, files : SUBSET Files]]]
  /\ pc \in [Procs -> {"idle", "running", "publish", "write"}]
  /\ run \in [Procs -> 0..MaxRuns]
  /\ feed \in [Procs -> SUBSET Files]
  /\ indexes \in [Procs -> {"open", "closed"}]
  /\ calculated \in [Procs -> SUBSET Files]
  /\ firstErr \in [Procs -> BOOLEAN]
  /\ ctxDone \in [Procs -> BOOLEAN]
  /\ wst \in [Workers -> WorkerStates]
  /\ wfile \in [Workers -> Files]
  /\ wpiece \in [Workers -> Nat]
  /\ \A w \in Workers : wpiece[w] \in 1..Len(Pieces[format][wfile[w]])
  /\ attached \subseteq Workers
  /\ edited \subseteq Workers

Init ==
  /\ setting \in Settings
  /\ objects = [h \in Hashes |-> NoObject]
  /\ manifests = [p \in Procs |-> [r \in Runs |-> NoManifest]]
  /\ pc = [p \in Procs |-> "idle"]
  /\ run = [p \in Procs |-> 0]
  /\ feed = [p \in Procs |-> {}]
  /\ indexes = [p \in Procs |-> "closed"]
  /\ calculated = [p \in Procs |-> {}]
  /\ firstErr = [p \in Procs |-> FALSE]
  /\ ctxDone = [p \in Procs |-> FALSE]
  /\ wst = [w \in Workers |-> "off"]
  /\ \E f \in Files : wfile = [w \in Workers |-> f]
  /\ wpiece = [w \in Workers |-> 1]
  /\ attached = {} /\ edited = {}

-----------------------------------------------------------------------------
(* Create.Do: the process.                                                  *)

\* GetConfig, the calculator, Explore, the symmetric key, the pool.
Start(p) ==
  /\ p \in setting.procs /\ pc[p] = "idle" /\ run[p] < setting.runs
  /\ run' = [run EXCEPT ![p] = @ + 1]
  /\ pc' = [pc EXCEPT ![p] = "running"]
  /\ feed' = [feed EXCEPT ![p] = Files]
  /\ indexes' = [indexes EXCEPT ![p] = "open"]
  /\ calculated' = [calculated EXCEPT ![p] = {}]
  /\ firstErr' = [firstErr EXCEPT ![p] = FALSE]
  /\ ctxDone' = [ctxDone EXCEPT ![p] = FALSE]
  /\ wst' = [w \in Workers |->
               IF w[1] # p THEN wst[w] ELSE IF w[2] \in setting.pool THEN "ready" ELSE "off"]
  /\ UNCHANGED <<setting, objects, manifests, wfile, wpiece, attached, edited>>

\* One of those calls fails: Do returns the error.
StartFails(p) ==
  /\ p \in setting.procs /\ pc[p] = "idle" /\ run[p] < setting.runs
  /\ "error" \in Faults
  /\ run' = [run EXCEPT ![p] = @ + 1]
  /\ UNCHANGED <<setting, objects, manifests, pc, feed, indexes, calculated, firstErr,
                 ctxDone, workerVars>>

\* The feeder stops when all is sent or the context is done, and closes indexes.
FeederStops(p) ==
  /\ indexes[p] = "open"
  /\ feed[p] = {} \/ ctxDone[p]
  /\ indexes' = [indexes EXCEPT ![p] = "closed"]
  /\ UNCHANGED <<setting, objects, manifests, pc, run, feed, calculated, firstErr, ctxDone,
                 workerVars>>

\* Mutant: goes on when the channel is closed, whatever the workers still do.
WaitSkipsWorkers(p) ==
  /\ pc[p] = "running" /\ indexes[p] = "closed"
  /\ pc' = [pc EXCEPT ![p] = IF firstErr[p] THEN "idle" ELSE "publish"]
  /\ UNCHANGED <<setting, objects, manifests, run, feed, indexes, calculated, firstErr,
                 ctxDone, workerVars>>

\* wg.Wait, then the test of firstErr.
WaitReturns(p) ==
  /\ pc[p] = "running" /\ indexes[p] = "closed"
  /\ \A w \in Workers : w[1] = p => wst[w] \in {"off", "done"}
  /\ pc' = [pc EXCEPT ![p] = IF firstErr[p] THEN "idle" ELSE "publish"]
  /\ UNCHANGED <<setting, objects, manifests, run, feed, indexes, calculated, firstErr,
                 ctxDone, workerVars>>

\* Mutant: the manifest is written without a look at the context.
PublishAfterCancel(p) ==
  /\ pc[p] = "publish"
  /\ pc' = [pc EXCEPT ![p] = "write"]
  /\ \E s \in ManifestSaveOf(backend).open :
       manifests' = [manifests EXCEPT ![p][run[p]] = [state |-> s, files |-> calculated[p]]]
  /\ UNCHANGED <<setting, objects, run, feed, indexes, calculated, firstErr, ctxDone,
                 workerVars>>

\* ManifestRepository.Save checks the context, then begins to write.  The manifest lists
\* every file of the source; files never hashed have no hash.
PublishStarts(p) ==
  /\ pc[p] = "publish"
  /\ ~ctxDone[p]
  /\ pc' = [pc EXCEPT ![p] = "write"]
  /\ \E s \in ManifestSaveOf(backend).open :
       manifests' = [manifests EXCEPT ![p][run[p]] = [state |-> s, files |-> calculated[p]]]
  /\ UNCHANGED <<setting, objects, run, feed, indexes, calculated, firstErr, ctxDone,
                 workerVars>>

PublishReturns(p) ==
  /\ pc[p] = "write"
  /\ pc' = [pc EXCEPT ![p] = "idle"]
  /\ manifests' = [manifests EXCEPT ![p][run[p]] =
                     [state |-> "whole", files |-> calculated[p]]]
  /\ UNCHANGED <<setting, objects, run, feed, indexes, calculated, firstErr, ctxDone,
                 workerVars>>

PublishFails(p) ==
  /\ \/ /\ pc[p] = "publish"
        /\ ctxDone[p] \/ "error" \in Faults
        /\ UNCHANGED manifests
     \/ /\ pc[p] = "write"
        /\ ctxDone[p] \/ "error" \in Faults
        /\ \E s \in ManifestSaveOf(backend).failed :
             /\ Whole(manifests[p][run[p]]) => s # "torn"
             /\ manifests' = [manifests EXCEPT ![p][run[p]] =
                                [state |-> s, files |-> calculated[p]]]
  /\ pc' = [pc EXCEPT ![p] = "idle"]
  /\ UNCHANGED <<setting, objects, run, feed, indexes, calculated, firstErr, ctxDone,
                 workerVars>>

-----------------------------------------------------------------------------
(* A worker: hash the file, then for each piece AlreadyExists and Save or  *)
(* SaveChunk.                                                               *)

Hash(w) == Pieces[format][wfile[w]][wpiece[w]]

Traits == IF format = 1 THEN SaveOf(backend) ELSE SaveChunkOf(backend)

\* Mutant: off by one at the last piece.
SkipsFinalCheck(w) ==
  IF wpiece[w] <= Len(Pieces[format][wfile[w]])
    THEN /\ wpiece' = [wpiece EXCEPT ![w] = @ + 1]
         /\ wst' = [wst EXCEPT ![w] = "check"]
    ELSE /\ wst' = [wst EXCEPT ![w] = "ready"]
         /\ UNCHANGED wpiece

\* The piece is done: on to the next one, or back to the channel.
NextPieceOrFile(w) ==
  IF wpiece[w] < Len(Pieces[format][wfile[w]])
    THEN /\ wpiece' = [wpiece EXCEPT ![w] = @ + 1]
         /\ wst' = [wst EXCEPT ![w] = "check"]
    ELSE /\ wst' = [wst EXCEPT ![w] = "ready"]
         /\ UNCHANGED wpiece

HandOver(w) ==
  /\ indexes[w[1]] = "open" /\ wst[w] = "ready"
  /\ \E f \in feed[w[1]] :
       /\ feed' = [feed EXCEPT ![w[1]] = @ \ {f}]
       /\ wfile' = [wfile EXCEPT ![w] = f]
  /\ wpiece' = [wpiece EXCEPT ![w] = 1]
  /\ wst' = [wst EXCEPT ![w] = "hash"]
  /\ edited' = edited \ {w}
  /\ UNCHANGED <<setting, objects, manifests, pc, run, indexes, calculated, firstErr,
                 ctxDone, attached>>

\* The channel is closed and drained.
WorkerReturns(w) ==
  /\ indexes[w[1]] = "closed" /\ wst[w] = "ready"
  /\ wst' = [wst EXCEPT ![w] = "done"]
  /\ UNCHANGED <<setting, objects, manifests, procVars, wfile, wpiece, attached, edited>>

\* Calculate records the hash, or the chunks, in the file the manifest will list.
Calculate(w) ==
  /\ wst[w] = "hash" /\ ~ctxDone[w[1]]
  /\ calculated' = [calculated EXCEPT ![w[1]] = @ \cup {wfile[w]}]
  /\ wst' = [wst EXCEPT ![w] = "check"]
  /\ UNCHANGED <<setting, objects, manifests, pc, run, feed, indexes, firstErr, ctxDone,
                 wfile, wpiece, attached, edited>>

\* Whatever lies at the path counts as the object.
AlreadyExists(w) ==
  /\ wst[w] = "check" /\ ~ctxDone[w[1]]
  /\ IF objects[Hash(w)].there
       THEN NextPieceOrFile(w)
       ELSE wst' = [wst EXCEPT ![w] = "save"] /\ UNCHANGED wpiece
  /\ UNCHANGED <<setting, objects, manifests, procVars, wfile, attached, edited>>

\* Encoding for a back end that takes whole objects.
EncodeToPut(w) ==
  /\ wst[w] = "save" /\ ~ctxDone[w[1]]
  /\ ~Traits.inplace
  /\ Traits.validates => w \notin edited
  /\ wst' = [wst EXCEPT ![w] = "put"]
  /\ UNCHANGED <<setting, objects, manifests, procVars, wfile, wpiece, attached, edited>>

\* The object is created or truncated at its path; or found, where that is enough.
OpenInPlace(w) ==
  /\ wst[w] = "save" /\ ~ctxDone[w[1]]
  /\ Traits.inplace
  /\ Traits.validates => w \notin edited
  /\ IF Traits.exclusive /\ objects[Hash(w)].there
       THEN NextPieceOrFile(w) /\ UNCHANGED <<objects, attached>>
       ELSE /\ objects' = [objects EXCEPT ![Hash(w)] = Object(Missing, Missing)]
            /\ attached' = attached \cup {w}
            /\ wst' = [wst EXCEPT ![w] = "head"]
            /\ UNCHANGED wpiece
  /\ UNCHANGED <<setting, manifests, procVars, wfile, edited>>

\* What the worker writes: what it validated in memory, or what the source holds now.
Content(w) == IF w \in edited /\ ~Traits.validates THEN Foreign ELSE w

WriteHead(w) ==
  /\ wst[w] = "head"
  /\ objects' = IF w \in attached
                  THEN [objects EXCEPT ![Hash(w)].head = Content(w)] ELSE objects
  /\ wst' = [wst EXCEPT ![w] = "body"]
  /\ UNCHANGED <<setting, manifests, procVars, wfile, wpiece, attached, edited>>

\* The last write and the close: the save returns nil.
WriteBody(w) ==
  /\ wst[w] = "body"
  /\ objects' = IF w \in attached
                  THEN [objects EXCEPT ![Hash(w)].body = Content(w)] ELSE objects
  /\ attached' = attached \ {w}
  /\ NextPieceOrFile(w)
  /\ UNCHANGED <<setting, manifests, procVars, wfile, edited>>

\* One conditional or unconditional request.
Put(w) ==
  /\ wst[w] = "put" /\ ~ctxDone[w[1]]
  /\ objects' = IF Traits.exclusive /\ objects[Hash(w)].there THEN objects
                ELSE [objects EXCEPT ![Hash(w)] = Object(Content(w), Content(w))]
  /\ NextPieceOrFile(w)
  /\ UNCHANGED <<setting, manifests, procVars, wfile, attached, edited>>

\* Writing the ciphertext fails, at the destination or in the temporary file, and
\* the save returns nil all the same.
SaveSwallowsError(w) ==
  /\ "error" \in Faults /\ encrypted /\ Traits.swallows
  /\ \/ wst[w] = "body" /\ UNCHANGED objects
     \/ /\ wst[w] = "put" /\ ~objects[Hash(w)].there
        /\ objects' = [objects EXCEPT ![Hash(w)] = Object(Content(w), Missing)]
  /\ attached' = attached \ {w}
  /\ NextPieceOrFile(w)
  /\ UNCHANGED <<setting, manifests, procVars, wfile, edited>>

\* What may lie at the path once a save in place returned an error, which may come
\* before, between or after its writes.  An incomplete chunk that the error path
\* still encrypts counts as incomplete.  SaveChunk over WebDAV removes the object if the
\* PUT fails, and leaves what it finds there, incomplete or not, if a check after the
\* PUT does (the context, the Stat, the size).
AfterFailedSave(w) ==
  LET here == objects[Hash(w)]
      all  == IF w \in attached THEN Object(Content(w), Content(w)) ELSE here
  IN  (IF Traits.cleans \/ (backend = "webdav" /\ format = 2) THEN {NoObject} ELSE {})
        \cup (IF ~Traits.cleans \/ "unremoved" \in Faults THEN {here, all} ELSE {})

\* Mutant: the worker returns on an error and cancels nothing.
WorkerQuits(w) ==
  /\ wst[w] \in {"hash", "check", "save"}
  /\ "error" \in Faults
  /\ firstErr' = [firstErr EXCEPT ![w[1]] = TRUE]
  /\ wst' = [wst EXCEPT ![w] = "done"]
  /\ UNCHANGED <<setting, objects, manifests, pc, run, feed, indexes, calculated, ctxDone,
                 wfile, wpiece, attached, edited>>

\* Any of the calls fails, by itself, because the context is done or because the
\* source is not what was hashed.  The first error cancels the context; the worker
\* goes back to the channel.
WorkerFails(w) ==
  /\ wst[w] \in {"hash", "check", "save", "head", "body", "put"}
  /\ \/ "error" \in Faults \/ ctxDone[w[1]]
     \/ wst[w] = "save" /\ Traits.validates /\ w \in edited
  /\ \/ wst[w] \in {"hash", "check", "save", "put"} /\ UNCHANGED <<objects, attached>>
     \/ /\ wst[w] \in {"head", "body"}
        /\ \E o \in AfterFailedSave(w) :
             /\ objects' = [objects EXCEPT ![Hash(w)] = o]
             /\ attached' = {x \in attached \ {w} : o.there \/ Hash(x) # Hash(w)}
     \/ \* the request took effect although it failed
        /\ wst[w] = "put"
        /\ ~(Traits.exclusive /\ objects[Hash(w)].there)
        /\ objects' = [objects EXCEPT ![Hash(w)] = Object(Content(w), Content(w))]
        /\ UNCHANGED attached
  /\ firstErr' = [firstErr EXCEPT ![w[1]] = TRUE]
  /\ ctxDone' = [ctxDone EXCEPT ![w[1]] = TRUE]
  /\ wst' = [wst EXCEPT ![w] = "ready"]
  /\ UNCHANGED <<setting, manifests, pc, run, feed, indexes, calculated, wfile, wpiece, edited>>

-----------------------------------------------------------------------------
(* The environment.                                                         *)

Cancel(p) ==
  /\ "cancel" \in Faults
  /\ pc[p] # "idle" /\ ~ctxDone[p]
  /\ ctxDone' = [ctxDone EXCEPT ![p] = TRUE]
  /\ UNCHANGED <<setting, objects, manifests, pc, run, feed, indexes, calculated, firstErr,
                 workerVars>>

\* The file a worker has hashed changes.
Edit(w) ==
  /\ "edit" \in Faults
  /\ wst[w] \in {"check", "save", "head", "body", "put"} /\ w \notin edited
  /\ edited' = edited \cup {w}
  /\ UNCHANGED <<setting, objects, manifests, procVars, wst, wfile, wpiece, attached>>

\* The process dies; the repository stays as it is.
Crash(p) ==
  /\ "crash" \in Faults
  /\ pc[p] # "idle"
  /\ pc' = [pc EXCEPT ![p] = "idle"]
  /\ indexes' = [indexes EXCEPT ![p] = "closed"]
  /\ wst' = [w \in Workers |-> IF w[1] = p THEN "off" ELSE wst[w]]
  /\ attached' = {w \in attached : w[1] # p}
  /\ UNCHANGED <<setting, objects, manifests, run, feed, calculated, firstErr, ctxDone, wfile,
                 wpiece, edited>>

-----------------------------------------------------------------------------
ProcStep(p) ==
  \/ FeederStops(p) \/ WaitReturns(p)
  \/ PublishStarts(p) \/ PublishReturns(p) \/ PublishFails(p)

WorkerStep(w) ==
  \/ HandOver(w) \/ WorkerReturns(w) \/ Calculate(w) \/ AlreadyExists(w)
  \/ EncodeToPut(w) \/ OpenInPlace(w) \/ WriteHead(w) \/ WriteBody(w) \/ Put(w)
  \/ SaveSwallowsError(w) \/ WorkerFails(w)

Next ==
  \/ \E p \in Procs : Start(p) \/ StartFails(p) \/ ProcStep(p) \/ Cancel(p) \/ Crash(p)
  \/ \E w \in Workers : WorkerStep(w) \/ Edit(w)

\* A goroutine that can run does, and a call into the repository returns.
Fairness ==
  /\ \A p \in Procs : WF_vars(ProcStep(p))
  /\ \A w \in Workers : WF_vars(WorkerStep(w))

Spec == Init /\ [][Next]_vars
FairSpec == Spec /\ Fairness

-----------------------------------------------------------------------------
(* What a snapshot promises.                                                *)

\* The README's word on objects: whatever a manifest refers to is stored, and is
\* what its hash says, from the moment the manifest can be read and for ever.
PublishedIntact ==
  \A p \in Procs : \A r \in Runs : Whole(manifests[p][r]) =>
    \A f \in manifests[p][r].files : \A i \in DOMAIN Pieces[format][f] :
      Intact(Pieces[format][f][i])

\* No file of the source is missing a hash in a manifest: the feeder that stops on
\* a cancelled context sets no error, so only the manifest's save stands in the way.
ManifestsComplete ==
  \A p \in Procs : \A r \in Runs : Whole(manifests[p][r]) => manifests[p][r].files = Files

\* Every run ends: feeder, workers and Wait never block each other.
EveryCreateReturns == \A p \in Procs : pc[p] # "idle" ~> pc[p] = "idle"

=============================================================================
