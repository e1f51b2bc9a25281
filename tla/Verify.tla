-------------------------------- MODULE Verify --------------------------------
(***************************************************************************)
(* Verification of a snapshot: Verifier.Verify of                          *)
(* internal/domain/snapshot/verifier.go, on any back end.  A feeder hands  *)
(* the files of the manifest to a pool of workers; each reads the objects  *)
(* of its file in order and records, under one mutex, success, a reason    *)
(* for which the file failed, or an error that ends the verification.      *)
(*                                                                         *)
(* The repository does not change while it is verified (README.md:607).    *)
(* Any call may fail, and the caller's context may be cancelled any time.  *)
(***************************************************************************)
EXTENDS Naturals, Sequences, FiniteSets, FiniteSetsExt, ObjectStore

CONSTANTS
  Files,      \* files a manifest may hold
  Hashes,     \* hashes of encoded content
  NoHash,     \* the empty hash of a manifest written by hand or damaged
  Pieces,     \* Pieces[file]: the hashes its objects are stored under
  MaxWorkers, \* Verifier.workers
  Settings    \* the settings under study: a set of records, see SettingType

\* A repository (back end, with encryption or not), the private key given, the
\* files of the manifest, and the faults of the environment.
SettingType ==
  [backend : AllBackends, encrypted : BOOLEAN, key : {"none", "right", "wrong"},
   files : SUBSET Files, faults : SUBSET {"error", "cancel"}]

ASSUME VerifyPiecesAssumption ==
  /\ NoHash \notin Hashes
  /\ Pieces \in [Files -> Seq(Hashes \cup {NoHash}) \ {<<>>}]
ASSUME VerifyPoolAssumption ==
  IsFiniteSet(Files) /\ Files # {} /\ MaxWorkers \in Nat \ {0}
ASSUME VerifySettingsAssumption == Settings \subseteq SettingType

PoolIds == 1..MaxWorkers

VARIABLES
  setting,   \* never changes
  stored,    \* what lies at each hash's path in the namespace read; never changes
  pc,        \* where Verify is
  feed,      \* files not handed to a worker yet
  jobs,      \* the channel: "open" or "closed"
  firstErr,  \* some worker met an error
  ctxDone,   \* the context Verify works with is cancelled
  cancelled, \* the caller cancelled
  total,     \* Result.totalFiles
  failed,    \* Result.failed
  wst,       \* what each worker is doing
  wfile,     \* the file it works on
  wpiece     \* which piece of it

poolVars == <<feed, jobs, firstErr, ctxDone, total, failed>>
workerVars == <<wst, wfile, wpiece>>
vars == <<setting, stored, pc, cancelled, poolVars, workerVars>>

Manifest == setting.files
Faults == setting.faults

\* GetObjectsPath: a key selects objects/encrypted/<generation>, no key objects/, also
\* where the snapshot was made with one: its objects are then absent.
Encrypted == setting.key # "none"

\* The hashes of a file: its chunks in order, or its only object.
Piece(w) == Pieces[wfile[w]][wpiece[w]]

\* Types; a worker reads a piece its file has, and no file is counted twice.
TypeOK ==
  /\ setting \in Settings
  /\ stored \in [Hashes -> {"intact", "altered", "absent"}]
  /\ pc \in {"start", "running", "wait", "error", "result"}
  /\ feed \subseteq Manifest
  /\ jobs \in {"open", "closed"}
  /\ firstErr \in BOOLEAN /\ ctxDone \in BOOLEAN /\ cancelled \in BOOLEAN
  /\ total \in 0..Cardinality(Manifest)
  /\ failed \subseteq Manifest
  /\ wst \in [PoolIds -> {"off", "ready", "read", "ok", "reason", "err", "done"}]
  /\ wfile \in [PoolIds -> Files]
  /\ wpiece \in [PoolIds -> Nat]
  /\ \A w \in PoolIds : wpiece[w] \in 1..Len(Pieces[wfile[w]])

Init ==
  /\ setting \in Settings
  /\ stored \in [Hashes -> {"intact", "altered", "absent"}]
  /\ pc = "start" /\ feed = {} /\ jobs = "closed"
  /\ firstErr = FALSE /\ ctxDone = FALSE /\ cancelled = FALSE
  /\ total = 0 /\ failed = {}
  /\ wst = [w \in PoolIds |-> "off"]
  /\ wfile = [w \in PoolIds |-> CHOOSE f \in Files : TRUE]
  /\ wpiece = [w \in PoolIds |-> 1]

-----------------------------------------------------------------------------
(* Verify: the calling goroutine.                                           *)

\* SymmetricKeyHandler.Handle: without a private key config.json is not even read;
\* with one the repository must have encryption and the key must unwrap.
Handle == setting.key = "none" \/ (setting.key = "right" /\ setting.encrypted)

\* As many workers as there are files, at least one, at most v.workers.
PoolOf(files) == 1..Max({1, Min({MaxWorkers, Cardinality(files)})})

\* The key, the manifest, the pool.
Start ==
  /\ pc = "start" /\ Handle /\ ~ctxDone
  /\ pc' = "running" /\ feed' = Manifest /\ jobs' = "open"
  /\ wst' = [w \in PoolIds |-> IF w \in PoolOf(Manifest) THEN "ready" ELSE "off"]
  /\ UNCHANGED <<setting, stored, cancelled, firstErr, ctxDone, total, failed, wfile, wpiece>>

\* Handle or manifestRepo.Get fails.
StartFails ==
  /\ pc = "start"
  /\ ~Handle \/ ctxDone \/ "error" \in Faults
  /\ pc' = "error"
  /\ UNCHANGED <<setting, stored, cancelled, poolVars, workerVars>>

\* jobs <- file; when the context is done too, select takes either branch.
HandOver(w) ==
  /\ pc = "running" /\ wst[w] = "ready"
  /\ \E f \in feed :
       /\ feed' = feed \ {f}
       /\ wfile' = [wfile EXCEPT ![w] = f]
  /\ wpiece' = [wpiece EXCEPT ![w] = 1]
  /\ wst' = [wst EXCEPT ![w] = "read"]
  /\ UNCHANGED <<setting, stored, pc, cancelled, jobs, firstErr, ctxDone, total, failed>>

\* All files are handed over, or ctx.Done(): close(jobs).
FeederStops ==
  /\ pc = "running" /\ (feed = {} \/ ctxDone)
  /\ jobs' = "closed" /\ pc' = "wait"
  /\ UNCHANGED <<setting, stored, cancelled, feed, firstErr, ctxDone, total, failed, workerVars>>

\* wg.Wait() returns: the first error, else the result.
WaitReturns ==
  /\ pc = "wait" /\ \A w \in PoolIds : wst[w] \in {"off", "done"}
  /\ pc' = IF firstErr THEN "error" ELSE "result"
  /\ UNCHANGED <<setting, stored, cancelled, poolVars, workerVars>>

-----------------------------------------------------------------------------
(* The workers: verifyFile, verifyObject, and the critical section.         *)

WorkerReturns(w) ==
  /\ wst[w] = "ready" /\ jobs = "closed"
  /\ wst' = [wst EXCEPT ![w] = "done"]
  /\ UNCHANGED <<setting, stored, pc, cancelled, poolVars, wfile, wpiece>>

\* verifyObject: what reading the object and hashing it tells.  An altered encrypted
\* object fails to decrypt, which is an error; an altered plain one does not hash to h.
ObjectVerdict(h) ==
  LET content == stored[h]
      read == ReadObjectOf(setting.backend)
  IN  CASE h = NoHash -> "reason"
        [] h # NoHash /\ ctxDone -> "err"
        [] h # NoHash /\ ~ctxDone /\ content = "absent" ->
             IF read.absent = "not found" THEN "reason" ELSE "err"
        [] h # NoHash /\ ~ctxDone /\ content = "altered" ->
             IF read.decrypts /\ Encrypted THEN "err" ELSE "reason"
        [] OTHER -> "ok"

\* Mutant: the loop over the chunks runs one too far.
ReadsPastLastChunk(w) ==
  /\ wst[w] = "read"
  /\ \E verdict \in {ObjectVerdict(Piece(w))} :
       IF verdict = "ok" /\ wpiece[w] <= Len(Pieces[wfile[w]])
       THEN wpiece' = [wpiece EXCEPT ![w] = @ + 1] /\ wst' = wst
       ELSE wpiece' = wpiece /\ wst' = [wst EXCEPT ![w] = verdict]
  /\ UNCHANGED <<setting, stored, pc, cancelled, poolVars, wfile>>

\* The next object of the file: the first error or reason ends the file.
VerifyPiece(w) ==
  /\ wst[w] = "read"
  /\ \E verdict \in {ObjectVerdict(Piece(w))}
                    \cup (IF "error" \in Faults /\ Piece(w) # NoHash THEN {"err"} ELSE {}) :
       IF verdict = "ok" /\ wpiece[w] < Len(Pieces[wfile[w]])
       THEN wpiece' = [wpiece EXCEPT ![w] = @ + 1] /\ wst' = wst
       ELSE wpiece' = wpiece /\ wst' = [wst EXCEPT ![w] = verdict]
  /\ UNCHANGED <<setting, stored, pc, cancelled, poolVars, wfile>>

\* Mutant: an error that the cancelled context caused is not reported.
IgnoresCancellation(w) ==
  /\ wst[w] \in {"ok", "reason", "err"}
  /\ wst' = [wst EXCEPT ![w] = "ready"]
  /\ firstErr' = (firstErr \/ (wst[w] = "err" /\ ~ctxDone))
  /\ ctxDone' = (ctxDone \/ wst[w] = "err")
  /\ failed' = IF wst[w] = "reason" THEN failed \cup {wfile[w]} ELSE failed
  /\ total' = IF wst[w] = "err" THEN total ELSE total + 1
  /\ UNCHANGED <<setting, stored, pc, cancelled, feed, jobs, wfile, wpiece>>

\* Mutant: an error counts against the file alone.
ErrorFailsFile(w) ==
  /\ wst[w] \in {"ok", "reason", "err"}
  /\ wst' = [wst EXCEPT ![w] = "ready"]
  /\ failed' = IF wst[w] \in {"reason", "err"} THEN failed \cup {wfile[w]} ELSE failed
  /\ total' = total + 1
  /\ UNCHANGED <<setting, stored, pc, cancelled, feed, jobs, firstErr, ctxDone, wfile, wpiece>>

\* Mutant: a worker leaves its loop on an error and cancels nothing.
WorkerQuits(w) ==
  /\ wst[w] \in {"ok", "reason", "err"}
  /\ wst' = [wst EXCEPT ![w] = IF @ = "err" THEN "done" ELSE "ready"]
  /\ firstErr' = (firstErr \/ wst[w] = "err")
  /\ failed' = IF wst[w] = "reason" THEN failed \cup {wfile[w]} ELSE failed
  /\ total' = IF wst[w] = "err" THEN total ELSE total + 1
  /\ UNCHANGED <<setting, stored, pc, cancelled, feed, jobs, ctxDone, wfile, wpiece>>

\* mu.Lock() ... mu.Unlock(): firstErr and cancel(), AddFailed or AddSuccess.
Record(w) ==
  /\ wst[w] \in {"ok", "reason", "err"}
  /\ wst' = [wst EXCEPT ![w] = "ready"]
  /\ firstErr' = (firstErr \/ wst[w] = "err")
  /\ ctxDone' = (ctxDone \/ wst[w] = "err")
  /\ failed' = IF wst[w] = "reason" THEN failed \cup {wfile[w]} ELSE failed
  /\ total' = IF wst[w] = "err" THEN total ELSE total + 1
  /\ UNCHANGED <<setting, stored, pc, cancelled, feed, jobs, wfile, wpiece>>

\* The caller cancels, at any time.
Cancel ==
  /\ "cancel" \in Faults /\ ~cancelled /\ pc \notin {"error", "result"}
  /\ cancelled' = TRUE /\ ctxDone' = TRUE
  /\ UNCHANGED <<setting, stored, pc, feed, jobs, firstErr, total, failed, workerVars>>

WorkerStep(w) == HandOver(w) \/ WorkerReturns(w) \/ VerifyPiece(w) \/ Record(w)

CallerStep == Start \/ StartFails \/ FeederStops \/ WaitReturns

Next == CallerStep \/ Cancel \/ \E w \in PoolIds : WorkerStep(w)

\* Goroutines are scheduled, and every call on the repository returns.
Fairness == WF_vars(CallerStep) /\ \A w \in PoolIds : WF_vars(WorkerStep(w))

Spec == Init /\ [][Next]_vars /\ Fairness

-----------------------------------------------------------------------------
(* Properties.                                                              *)

Good(f) ==
  \A i \in 1..Len(Pieces[f]) :
    Pieces[f][i] # NoHash /\ stored[Pieces[f][i]] = "intact"

Bad(f) == ~Good(f)

\* A result accounts for every file handed to a worker, each exactly once: the failed
\* ones are the bad ones, one bad file hides no other, and none is lost with its worker.
\* It covers the whole manifest unless the caller cancelled.  (A cancelled verification
\* whose workers are idle when the feeder sees it returns the files done so far as a
\* result, with no error.)  README.md:141, 704-711; verifier.go:70-111.
ExactReport ==
  pc = "result" =>
    LET seen == Manifest \ feed IN
    /\ failed = {f \in seen : Bad(f)}
    /\ total = Cardinality(seen)
    /\ cancelled \/ seen = Manifest

\* A file is reported as failed only if one of its objects really is absent or altered:
\* neither an error of the back end nor a cancellation is taken for damage.
NoFalseAlarm == \A f \in failed : Bad(f)

\* The verification as a whole fails only for a reason: the key, a failing call, the
\* caller, or an encrypted object that does not authenticate.  An absent object alone
\* never keeps the other files from being verified (verifier.go:143).
ErrorHasCause ==
  pc = "error" =>
    \/ ~Handle \/ cancelled \/ "error" \in Faults
    \/ /\ Encrypted
       /\ \E f \in Manifest : \E i \in 1..Len(Pieces[f]) :
            Pieces[f][i] \in {h \in Hashes : stored[h] = "altered"}

\* Feeder, workers and WaitGroup never block each other: Verify returns.
EveryVerifyReturns == <>(pc \in {"error", "result"})

=============================================================================
