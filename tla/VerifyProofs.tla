----------------------------- MODULE VerifyProofs -----------------------------
(***************************************************************************)
(* Machine-checked proofs about Verify, for any finite set of files, any   *)
(* number of objects per file, any pool of workers, and every back end,    *)
(* key and state of the objects.                                           *)
(***************************************************************************)
EXTENDS Verify, FiniteSetTheorems, TLAPS

-----------------------------------------------------------------------------
(* The inductive invariant.                                                 *)

Busy(w) == wst[w] \in {"read", "ok", "reason", "err"}

\* The files whose outcome some worker has recorded, once the pool runs.
Recorded ==
  {f \in Manifest : f \notin feed /\ \A w \in PoolIds : Busy(w) => wfile[w] # f}

GoodPiece(f, i) == Pieces[f][i] # NoHash /\ stored[Pieces[f][i]] = "intact"

\* Why a verification as a whole may fail once the key is accepted.
Cause ==
  \/ cancelled \/ "error" \in Faults
  \/ /\ Encrypted
     /\ \E f \in Manifest : \E i \in 1..Len(Pieces[f]) :
          Pieces[f][i] \in {h \in Hashes : stored[h] = "altered"}

\* What each phase of the calling goroutine takes for granted.
PhaseInv ==
  /\ pc = "start" => /\ total = 0 /\ failed = {} /\ ~firstErr
                     /\ \A w \in PoolIds : wst[w] = "off"
  /\ pc \in {"error", "result"} => \A w \in PoolIds : ~Busy(w)
  /\ pc \in {"wait", "result"} => feed = {} \/ ctxDone
  /\ pc = "result" => ~firstErr
  /\ ctxDone => cancelled \/ firstErr

\* A file is in the feed, in the hands of one worker, or done.
HandInv ==
  /\ \A w \in PoolIds : Busy(w) => wfile[w] \in Manifest \ feed
  /\ \A v, w \in PoolIds : v # w /\ Busy(v) /\ Busy(w) => wfile[v] # wfile[w]
  /\ failed \cap feed = {}

\* What a worker knows of its file.
VerdictInv ==
  \A w \in PoolIds :
    /\ wst[w] = "read" => \A i \in 1..(wpiece[w] - 1) : GoodPiece(wfile[w], i)
    /\ wst[w] = "ok" => Good(wfile[w])
    /\ wst[w] = "reason" => Bad(wfile[w])
    /\ wst[w] = "err" => Cause

\* An error recorded has a cause.
ErrorInv ==
  /\ firstErr => Cause
  /\ pc = "error" => ~Handle \/ Cause

\* Every recorded file is counted once, and is in the report if it is bad, unless an
\* error was recorded for some file.
CountInv ==
  /\ total <= Cardinality(Recorded)
  /\ pc \in {"running", "wait", "result"} /\ ~firstErr =>
       /\ total = Cardinality(Recorded)
       /\ \A f \in Recorded : Bad(f) => f \in failed

IInv ==
  TypeOK /\ PhaseInv /\ HandInv /\ VerdictInv /\ ErrorInv /\ NoFalseAlarm /\ CountInv

-----------------------------------------------------------------------------
(* Facts about the constants and the operators.                             *)

\* Every file has at least one piece, and every piece is a hash or the empty hash.
LEMMA PieceFacts ==
  ASSUME NEW f \in Files
  PROVE  /\ Len(Pieces[f]) \in Nat \ {0}
         /\ \A i \in 1..Len(Pieces[f]) : Pieces[f][i] \in Hashes \cup {NoHash}
<1>1. Pieces[f] \in Seq(Hashes \cup {NoHash}) /\ Pieces[f] # <<>>
  BY VerifyPiecesAssumption
<1> QED
  BY <1>1

\* A manifest is a finite set of files, on one of the back ends.
LEMMA ManifestFacts ==
  ASSUME TypeOK
  PROVE  Manifest \subseteq Files /\ IsFiniteSet(Manifest) /\ setting.backend \in AllBackends
<1>1. setting \in SettingType
  BY VerifySettingsAssumption DEF TypeOK
<1>2. Manifest \subseteq Files /\ setting.backend \in AllBackends
  BY <1>1 DEF SettingType, Manifest
<1> QED
  BY <1>2, VerifyPoolAssumption, FS_Subset

\* Every back end tells a missing object from an error.
LEMMA AbsentIsReported ==
  ASSUME NEW b \in AllBackends
  PROVE  ReadObjectOf(b).absent = "not found"
BY DEF AllBackends, ReadObjectOf, DiskReadObject, SshReadObject, SmbReadObject,
       S3ReadObject, GcsReadObject, WebdavReadObject

\* What verifyObject's verdict says about the object: "ok" and "reason" are about its
\* content alone; "err" means a cancelled context or a ciphertext that does not
\* authenticate.
LEMMA VerdictMeaning ==
  ASSUME TypeOK, NEW h \in Hashes \cup {NoHash}
  PROVE  LET v == ObjectVerdict(h)
             good == h # NoHash /\ stored[h] = "intact"
         IN  /\ v \in {"ok", "reason", "err"}
             /\ v = "ok" => good
             /\ v = "reason" => ~good
             /\ v = "err" => ctxDone \/ (Encrypted /\ h \in Hashes /\ stored[h] = "altered")
<1>1. ReadObjectOf(setting.backend).absent = "not found"
  BY ManifestFacts, AbsentIsReported
<1>2. CASE h = NoHash
  BY <1>2 DEF ObjectVerdict
<1>3. CASE h # NoHash /\ ctxDone
  BY <1>3 DEF ObjectVerdict
<1>4. CASE h # NoHash /\ ~ctxDone
  <2>1. h \in Hashes /\ stored[h] \in {"intact", "altered", "absent"}
    BY <1>4 DEF TypeOK
  <2>2. CASE stored[h] = "absent"
    BY <1>1, <1>4, <2>1, <2>2 DEF ObjectVerdict
  <2>3. CASE stored[h] = "altered"
    BY <1>4, <2>1, <2>3 DEF ObjectVerdict
  <2>4. CASE stored[h] = "intact"
    BY <1>4, <2>1, <2>4 DEF ObjectVerdict
  <2> QED
    BY <2>1, <2>2, <2>3, <2>4
<1> QED
  BY <1>2, <1>3, <1>4

\* A file all of whose pieces are good is good, and one with another piece is bad.
LEMMA GoodByPieces ==
  ASSUME NEW f
  PROVE  /\ (\A i \in 1..Len(Pieces[f]) : GoodPiece(f, i)) => Good(f)
         /\ \A i \in 1..Len(Pieces[f]) : ~GoodPiece(f, i) => Bad(f)
BY DEF Good, Bad, GoodPiece

\* The number of recorded files is a natural number within the manifest's.
LEMMA RecordedFinite ==
  ASSUME TypeOK
  PROVE  /\ IsFiniteSet(Recorded)
         /\ Cardinality(Recorded) \in Nat /\ Cardinality(Manifest) \in Nat
         /\ Cardinality(Recorded) <= Cardinality(Manifest)
<1>1. Recorded \in SUBSET Manifest
  BY DEF Recorded
<1> QED
  BY <1>1, ManifestFacts, FS_Subset, FS_CardinalityType

-----------------------------------------------------------------------------
(* The invariant holds initially and every action preserves it.             *)

\* Init: every file is in the feed, no worker has one, nothing is recorded.
LEMMA InitInv == Init => IInv
<1> SUFFICES ASSUME Init PROVE IInv
  OBVIOUS
<1>1. Manifest \subseteq Files /\ IsFiniteSet(Manifest)
  <2>1. setting \in SettingType
    BY VerifySettingsAssumption DEF Init
  <2>2. Manifest \subseteq Files
    BY <2>1 DEF SettingType, Manifest
  <2> QED
    BY <2>2, VerifyPoolAssumption, FS_Subset
<1>2. (CHOOSE f \in Files : TRUE) \in Files
  BY VerifyPoolAssumption
<1>3. TypeOK
  <2>1. Cardinality(Manifest) \in Nat
    BY <1>1, FS_CardinalityType
  <2>2. \A w \in PoolIds : wpiece[w] \in 1..Len(Pieces[wfile[w]])
    BY <1>2, PieceFacts DEF Init
  <2>3. wfile \in [PoolIds -> Files]
    BY <1>2 DEF Init
  <2>4. wpiece \in [PoolIds -> Nat] /\ wst \in [PoolIds -> {"off"}]
    BY DEF Init
  <2>5. total \in 0..Cardinality(Manifest)
    BY <2>1 DEF Init
  <2>6. /\ setting \in Settings /\ stored \in [Hashes -> {"intact", "altered", "absent"}]
        /\ pc = "start" /\ feed = {} /\ jobs = "closed" /\ failed = {}
        /\ firstErr = FALSE /\ ctxDone = FALSE /\ cancelled = FALSE
    BY DEF Init
  <2> QED
    BY <2>2, <2>3, <2>4, <2>5, <2>6 DEF TypeOK
<1>4. PhaseInv /\ HandInv /\ VerdictInv /\ ErrorInv /\ NoFalseAlarm
  BY DEF Init, PhaseInv, HandInv, VerdictInv, ErrorInv, NoFalseAlarm, Busy
<1>5. CountInv
  BY <1>3, RecordedFinite DEF Init, CountInv
<1> QED
  BY <1>3, <1>4, <1>5 DEF IInv

\* Start: nothing is recorded, because everything is in the feed.
LEMMA StartInv == IInv /\ Start => IInv'
<1> SUFFICES ASSUME IInv, Start PROVE IInv'
  OBVIOUS
<1> USE DEF Manifest
<1>1. TypeOK /\ pc = "start" /\ total = 0 /\ failed = {} /\ ~firstErr
  BY DEF IInv, PhaseInv, Start
<1>2. \A w \in PoolIds : wst'[w] \in {"ready", "off"}
  BY DEF Start
<1>3. TypeOK'
  BY <1>1, <1>2 DEF TypeOK, Start
<1>4. PhaseInv'
  BY <1>1, <1>2 DEF IInv, PhaseInv, Start, Busy
<1>5. HandInv'
  BY <1>1, <1>2 DEF HandInv, Start, Busy
<1>6. VerdictInv' /\ ErrorInv' /\ NoFalseAlarm'
  BY <1>1, <1>2 DEF VerdictInv, ErrorInv, NoFalseAlarm, Start
<1>7. CountInv'
  <2>1. Recorded' = {}
    BY DEF Recorded, Start
  <2> QED
    BY <1>1, <2>1, FS_EmptySet DEF CountInv, Start
<1> QED
  BY <1>3, <1>4, <1>5, <1>6, <1>7 DEF IInv

\* The steps of the caller that touch neither files nor workers.
LEMMA CallerInv == IInv /\ (StartFails \/ FeederStops \/ WaitReturns) => IInv'
<1> SUFFICES ASSUME IInv, StartFails \/ FeederStops \/ WaitReturns PROVE IInv'
  OBVIOUS
<1> USE DEF Manifest, Faults, Encrypted, poolVars, workerVars
<1>0. /\ UNCHANGED <<setting, stored, cancelled, feed, firstErr, ctxDone, total, failed>>
      /\ UNCHANGED <<wst, wfile, wpiece>>
      /\ Recorded' = Recorded
  BY DEF StartFails, FeederStops, WaitReturns, Recorded, Busy
<1>1. TypeOK'
  BY <1>0 DEF IInv, TypeOK, StartFails, FeederStops, WaitReturns
<1>2. PhaseInv'
  BY <1>0 DEF IInv, PhaseInv, Busy, StartFails, FeederStops, WaitReturns
<1>3. HandInv'
  BY <1>0 DEF IInv, HandInv, Busy
<1>4. VerdictInv' /\ NoFalseAlarm'
  BY <1>0 DEF IInv, VerdictInv, NoFalseAlarm, Good, Bad, GoodPiece, Cause
<1>5. ErrorInv'
  <2>1. StartFails => ~Handle \/ Cause
    BY DEF IInv, PhaseInv, StartFails, Cause
  <2> QED
    BY <1>0, <2>1 DEF IInv, ErrorInv, Handle, Cause, StartFails, FeederStops, WaitReturns
<1>6. CountInv'
  <2>1. \A f : Bad(f)' <=> Bad(f)
    BY <1>0 DEF Bad, Good
  <2> QED
    BY <1>0, <2>1 DEF IInv, CountInv, StartFails, FeederStops, WaitReturns
<1> QED
  BY <1>1, <1>2, <1>3, <1>4, <1>5, <1>6 DEF IInv

\* A file goes from the feed into a worker's hands: none is recorded.
LEMMA HandOverInv == ASSUME IInv, NEW w \in PoolIds, HandOver(w) PROVE IInv'
<1> USE DEF Manifest, Faults, Encrypted
<1>0. PICK f \in feed : feed' = feed \ {f} /\ wfile' = [wfile EXCEPT ![w] = f]
  BY DEF HandOver
<1>1. /\ UNCHANGED <<setting, stored, pc, cancelled, jobs, firstErr, ctxDone, total, failed>>
      /\ wst' = [wst EXCEPT ![w] = "read"] /\ wpiece' = [wpiece EXCEPT ![w] = 1]
      /\ pc = "running" /\ wst[w] = "ready" /\ ~Busy(w)
  BY DEF HandOver, Busy
<1>2. TypeOK /\ f \in Files /\ f \in Manifest
  BY ManifestFacts DEF IInv, TypeOK
<1>3. TypeOK'
  <2>1. \A v \in PoolIds : wpiece'[v] \in 1..Len(Pieces[wfile'[v]])
    BY <1>0, <1>1, <1>2, PieceFacts DEF TypeOK
  <2> QED
    BY <1>0, <1>1, <1>2, <2>1 DEF TypeOK
<1>4. PhaseInv'
  BY <1>0, <1>1 DEF IInv, PhaseInv
<1>5. HandInv'
  BY <1>0, <1>1, <1>2 DEF IInv, HandInv, Busy, TypeOK
<1>6. VerdictInv' /\ NoFalseAlarm' /\ ErrorInv'
  BY <1>0, <1>1, <1>2
     DEF IInv, VerdictInv, NoFalseAlarm, ErrorInv, Good, Bad, GoodPiece, Cause, Handle, TypeOK
<1>7. CountInv'
  <2>1. Recorded' = Recorded
    BY <1>0, <1>1, <1>2 DEF IInv, HandInv, Recorded, Busy, TypeOK
  <2>2. \A g : Bad(g)' <=> Bad(g)
    BY <1>1 DEF Bad, Good
  <2> QED
    BY <1>1, <2>1, <2>2 DEF IInv, CountInv
<1> QED
  BY <1>3, <1>4, <1>5, <1>6, <1>7 DEF IInv

\* A worker returns with empty hands.
LEMMA WorkerReturnsInv == ASSUME IInv, NEW w \in PoolIds, WorkerReturns(w) PROVE IInv'
<1> USE DEF Manifest, Faults, Encrypted, poolVars
<1>1. /\ UNCHANGED <<setting, stored, pc, cancelled, feed, jobs, firstErr, ctxDone, total, failed>>
      /\ wst' = [wst EXCEPT ![w] = "done"] /\ wst[w] = "ready" /\ UNCHANGED <<wfile, wpiece>>
      /\ TypeOK
  BY DEF WorkerReturns, IInv
<1>2. TypeOK'
  BY <1>1 DEF TypeOK
<1>3. PhaseInv' /\ HandInv'
  BY <1>1 DEF IInv, PhaseInv, HandInv, Busy, TypeOK
<1>4. VerdictInv' /\ NoFalseAlarm' /\ ErrorInv'
  BY <1>1
     DEF IInv, VerdictInv, NoFalseAlarm, ErrorInv, Good, Bad, GoodPiece, Cause, Handle, TypeOK
<1>5. CountInv'
  <2>1. Recorded' = Recorded
    BY <1>1 DEF Recorded, Busy, TypeOK
  <2>2. \A g : Bad(g)' <=> Bad(g)
    BY <1>1 DEF Bad, Good
  <2> QED
    BY <1>1, <2>1, <2>2 DEF IInv, CountInv
<1> QED
  BY <1>2, <1>3, <1>4, <1>5 DEF IInv

\* One object is read: the worker learns something of its own file only.
LEMMA VerifyPieceInv == ASSUME IInv, NEW w \in PoolIds, VerifyPiece(w) PROVE IInv'
<1> USE DEF Manifest, Faults, Encrypted, poolVars
<1> DEFINE f == wfile[w]
           i == wpiece[w]
<1>1. PICK verdict \in {ObjectVerdict(Piece(w))}
                    \cup (IF "error" \in Faults /\ Piece(w) # NoHash THEN {"err"} ELSE {}) :
        IF verdict = "ok" /\ wpiece[w] < Len(Pieces[wfile[w]])
        THEN wpiece' = [wpiece EXCEPT ![w] = @ + 1] /\ wst' = wst
        ELSE wpiece' = wpiece /\ wst' = [wst EXCEPT ![w] = verdict]
  BY DEF VerifyPiece
<1>2. /\ UNCHANGED <<setting, stored, pc, cancelled, feed, jobs, firstErr, ctxDone, total, failed, wfile>>
      /\ wst[w] = "read" /\ Busy(w)
      /\ TypeOK
  BY DEF VerifyPiece, IInv, Busy
<1>3. f \in Files /\ f \in Manifest /\ i \in 1..Len(Pieces[f]) /\ Piece(w) = Pieces[f][i]
  BY <1>2 DEF IInv, HandInv, TypeOK, Piece
<1>4. /\ Len(Pieces[f]) \in Nat /\ Pieces[f][i] \in Hashes \cup {NoHash}
  BY <1>3, PieceFacts
<1>5. /\ verdict \in {"ok", "reason", "err"}
      /\ verdict = "ok" => GoodPiece(f, i)
      /\ verdict = "reason" => ~GoodPiece(f, i)
      /\ verdict = "err" =>
           \/ ctxDone \/ "error" \in Faults
           \/ Encrypted /\ Pieces[f][i] \in Hashes /\ stored[Pieces[f][i]] = "altered"
  <2>1. CASE verdict = ObjectVerdict(Piece(w))
    <3>1. LET h == Pieces[f][i]
              good == h # NoHash /\ stored[h] = "intact"
          IN  /\ verdict \in {"ok", "reason", "err"}
              /\ verdict = "ok" => good
              /\ verdict = "reason" => ~good
              /\ verdict = "err" => ctxDone \/ (Encrypted /\ h \in Hashes /\ stored[h] = "altered")
      BY <1>2, <1>3, <1>4, <2>1, VerdictMeaning
    <3> QED
      BY <3>1 DEF GoodPiece
  <2>2. CASE verdict = "err" /\ "error" \in Faults
    BY <2>2
  <2> QED
    BY <2>1, <2>2
<1>6. verdict = "err" => Cause
  <2>1. ctxDone => Cause
    BY DEF IInv, PhaseInv, ErrorInv, Cause
  <2> QED
    BY <1>3, <1>5, <2>1 DEF Cause
<1>7. /\ \A v \in PoolIds : v # w => wst'[v] = wst[v] /\ wpiece'[v] = wpiece[v]
      /\ \/ verdict = "ok" /\ i < Len(Pieces[f]) /\ wst'[w] = "read" /\ wpiece'[w] = i + 1
         \/ ~(verdict = "ok" /\ i < Len(Pieces[f])) /\ wst'[w] = verdict /\ wpiece'[w] = i
      /\ wst' \in [PoolIds -> {"off", "ready", "read", "ok", "reason", "err", "done"}]
      /\ wpiece' \in [PoolIds -> Nat]
  <2>1. wst \in [PoolIds -> {"off", "ready", "read", "ok", "reason", "err", "done"}]
        /\ wpiece \in [PoolIds -> Nat]
    BY <1>2 DEF TypeOK
  <2>2. CASE verdict = "ok" /\ i < Len(Pieces[f])
    BY <1>1, <1>2, <2>1, <2>2
  <2>3. CASE ~(verdict = "ok" /\ i < Len(Pieces[f]))
    BY <1>1, <1>2, <1>5, <2>1, <2>3
  <2> QED
    BY <2>2, <2>3
<1>8. \A v \in PoolIds : Busy(v)' <=> Busy(v)
  BY <1>2, <1>5, <1>7 DEF Busy
<1>9. TypeOK'
  <2>1. \A v \in PoolIds : wpiece'[v] \in 1..Len(Pieces[wfile'[v]])
    <3>1. wpiece'[w] \in 1..Len(Pieces[f])
      BY <1>3, <1>4, <1>7
    <3> QED
      BY <1>2, <1>7, <3>1 DEF TypeOK
  <2> QED
    BY <1>2, <1>7, <2>1 DEF TypeOK
<1>10. PhaseInv' /\ HandInv'
  <2>1. pc # "start"
    BY <1>2 DEF IInv, PhaseInv
  <2> QED
    BY <1>2, <1>8, <2>1 DEF IInv, PhaseInv, HandInv
<1>11. VerdictInv'
  <2> SUFFICES ASSUME NEW v \in PoolIds
               PROVE  /\ wst'[v] = "read" => \A k \in 1..(wpiece'[v] - 1) : GoodPiece(wfile[v], k)
                      /\ wst'[v] = "ok" => Good(wfile[v])
                      /\ wst'[v] = "reason" => Bad(wfile[v])
                      /\ wst'[v] = "err" => Cause
    BY <1>2 DEF VerdictInv, GoodPiece, Good, Bad, Cause
  <2>1. CASE v # w
    BY <1>2, <1>7, <2>1 DEF IInv, VerdictInv
  <2>2. CASE v = w
    <3>1. \A k \in 1..(i - 1) : GoodPiece(f, k)
      BY <1>2 DEF IInv, VerdictInv
    <3>2. CASE verdict = "ok" /\ i < Len(Pieces[f])
      <4>1. \A k \in 1..i : GoodPiece(f, k)
        BY <1>3, <1>4, <1>5, <3>1, <3>2
      <4> QED
        BY <1>2, <1>3, <1>4, <1>7, <2>2, <3>2, <4>1
    <3>3. CASE verdict = "ok" /\ i = Len(Pieces[f])
      <4>1. \A k \in 1..Len(Pieces[f]) : GoodPiece(f, k)
        BY <1>3, <1>4, <1>5, <3>1, <3>3
      <4>2. Good(f)
        BY <4>1, GoodByPieces
      <4> QED
        BY <1>2, <1>7, <2>2, <3>3, <4>2
    <3>4. CASE verdict = "reason"
      <4>1. Bad(f)
        BY <1>3, <1>5, <3>4, GoodByPieces
      <4> QED
        BY <1>2, <1>7, <2>2, <3>4, <4>1
    <3>5. CASE verdict = "err"
      BY <1>2, <1>6, <1>7, <2>2, <3>5
    <3> QED
      BY <1>3, <1>4, <1>5, <3>2, <3>3, <3>4, <3>5
  <2> QED
    BY <2>1, <2>2
<1>12. NoFalseAlarm' /\ ErrorInv'
  BY <1>2 DEF IInv, NoFalseAlarm, ErrorInv, Good, Bad, Cause, Handle
<1>13. CountInv'
  <2>1. Recorded' = Recorded
    BY <1>2, <1>8 DEF Recorded
  <2>2. \A g : Bad(g)' <=> Bad(g)
    BY <1>2 DEF Bad, Good
  <2> QED
    BY <1>2, <2>1, <2>2 DEF IInv, CountInv
<1> QED
  BY <1>9, <1>10, <1>11, <1>12, <1>13 DEF IInv

\* The critical section: the worker's file, and no other, becomes recorded.
LEMMA RecordInv == ASSUME IInv, NEW w \in PoolIds, Record(w) PROVE IInv'
<1> USE DEF Manifest, Faults, Encrypted
<1> DEFINE f == wfile[w]
<1>1. /\ UNCHANGED <<setting, stored, pc, cancelled, feed, jobs, wfile, wpiece>>
      /\ wst[w] \in {"ok", "reason", "err"} /\ Busy(w)
      /\ wst' = [wst EXCEPT ![w] = "ready"]
      /\ firstErr' = (firstErr \/ wst[w] = "err")
      /\ ctxDone' = (ctxDone \/ wst[w] = "err")
      /\ failed' = IF wst[w] = "reason" THEN failed \cup {f} ELSE failed
      /\ total' = IF wst[w] = "err" THEN total ELSE total + 1
      /\ TypeOK
  BY DEF Record, IInv, Busy
<1>2. f \in Manifest /\ f \notin feed
  BY <1>1 DEF IInv, HandInv
<1>3. /\ \A v \in PoolIds : Busy(v)' <=> (Busy(v) /\ v # w)
      /\ \A v \in PoolIds : v # w => wst'[v] = wst[v]
      /\ wst'[w] = "ready"
      /\ wst' \in [PoolIds -> {"off", "ready", "read", "ok", "reason", "err", "done"}]
  BY <1>1 DEF Busy, TypeOK
<1>4. /\ \A g, k : GoodPiece(g, k)' <=> GoodPiece(g, k)
      /\ \A g : (Good(g)' <=> Good(g)) /\ (Bad(g)' <=> Bad(g))
      /\ Cause' <=> Cause
      /\ Handle' <=> Handle
  BY <1>1 DEF GoodPiece, Good, Bad, Cause, Handle
<1>5. pc \notin {"start", "error", "result"}
  BY <1>1 DEF IInv, PhaseInv, Busy
<1>6. /\ Recorded' = Recorded \cup {f} /\ f \notin Recorded
  <2>1. \A v \in PoolIds : v # w /\ Busy(v) => wfile[v] # f
    BY <1>1 DEF IInv, HandInv
  <2>2. f \notin Recorded
    BY <1>1 DEF Recorded
  <2>3. \A g \in Manifest : g \in Recorded' <=> g \in Recorded \/ g = f
    BY <1>1, <1>2, <1>3, <2>1 DEF Recorded
  <2>4. Recorded \subseteq Manifest /\ Recorded' \subseteq Manifest
    BY <1>1 DEF Recorded
  <2> QED
    BY <1>2, <2>2, <2>3, <2>4
<1>7. /\ Cardinality(Recorded') = Cardinality(Recorded) + 1
      /\ Cardinality(Recorded) \in Nat /\ Cardinality(Manifest) \in Nat
      /\ Cardinality(Recorded') <= Cardinality(Manifest)
  <2>1. Recorded' \in SUBSET Manifest
    BY <1>1 DEF Recorded
  <2> QED
    BY <1>1, <1>6, <2>1, RecordedFinite, ManifestFacts, FS_AddElement, FS_Subset
<1>8. /\ total \in Nat /\ total <= Cardinality(Recorded)
  BY <1>1, <1>7 DEF IInv, CountInv, TypeOK
<1>9. TypeOK'
  <2>1. total' \in 0..Cardinality(Manifest)
    BY <1>1, <1>7, <1>8
  <2> QED
    BY <1>1, <1>2, <1>3, <2>1 DEF TypeOK
<1>10. PhaseInv'
  BY <1>1, <1>3, <1>5 DEF IInv, PhaseInv
<1>11. HandInv'
  BY <1>1, <1>2, <1>3 DEF IInv, HandInv
<1>12. VerdictInv'
  BY <1>1, <1>3, <1>4 DEF IInv, VerdictInv
<1>13. ErrorInv'
  BY <1>1, <1>4, <1>5 DEF IInv, ErrorInv, VerdictInv
<1>14. NoFalseAlarm'
  BY <1>1, <1>4 DEF IInv, NoFalseAlarm, VerdictInv
<1>15. CountInv'
  <2>1. total' <= Cardinality(Recorded')
    BY <1>1, <1>7, <1>8
  <2>2. ASSUME ~firstErr' PROVE total' = Cardinality(Recorded')
    BY <1>1, <1>5, <1>7, <1>8, <2>2 DEF IInv, CountInv, TypeOK
  <2>3. ASSUME ~firstErr', NEW g \in Recorded', Bad(g)' PROVE g \in failed'
    <3>1. ~firstErr /\ wst[w] \in {"ok", "reason"} /\ Bad(g)
      BY <1>1, <1>4, <2>3
    <3>2. CASE g = f
      BY <1>1, <3>1, <3>2 DEF IInv, VerdictInv, Bad
    <3>3. CASE g \in Recorded
      BY <1>1, <1>5, <3>1, <3>3 DEF IInv, CountInv, TypeOK
    <3> QED
      BY <1>6, <2>3, <3>2, <3>3
  <2> QED
    BY <2>1, <2>2, <2>3 DEF CountInv
<1> QED
  BY <1>9, <1>10, <1>11, <1>12, <1>13, <1>14, <1>15 DEF IInv

\* The caller cancels: a cause like any other.
LEMMA CancelInv == IInv /\ Cancel => IInv'
<1> SUFFICES ASSUME IInv, Cancel PROVE IInv'
  OBVIOUS
<1> USE DEF Manifest, Faults, Encrypted, workerVars
<1>1. /\ UNCHANGED <<setting, stored, pc, feed, jobs, firstErr, total, failed, wst, wfile, wpiece>>
      /\ cancelled' = TRUE /\ ctxDone' = TRUE /\ Recorded' = Recorded
  BY DEF Cancel, Recorded, Busy
<1>2. TypeOK' /\ PhaseInv' /\ HandInv'
  BY <1>1 DEF IInv, TypeOK, PhaseInv, HandInv, Busy
<1>3. VerdictInv' /\ ErrorInv' /\ NoFalseAlarm'
  BY <1>1 DEF IInv, VerdictInv, ErrorInv, NoFalseAlarm, Good, Bad, GoodPiece, Cause
<1>4. CountInv'
  <2>1. \A g : Bad(g)' <=> Bad(g)
    BY <1>1 DEF Bad, Good
  <2> QED
    BY <1>1, <2>1 DEF IInv, CountInv
<1> QED
  BY <1>2, <1>3, <1>4 DEF IInv

\* A step that changes nothing.
LEMMA StutterInv == IInv /\ UNCHANGED vars => IInv'
<1> SUFFICES ASSUME IInv, UNCHANGED vars PROVE IInv'
  OBVIOUS
<1>1. UNCHANGED <<setting, stored, pc, cancelled, feed, jobs, firstErr, ctxDone, total, failed,
                  wst, wfile, wpiece>>
  BY DEF vars, poolVars, workerVars
<1> QED
  BY <1>1 DEF IInv, TypeOK, PhaseInv, HandInv, VerdictInv, ErrorInv, NoFalseAlarm, CountInv,
              Busy, Recorded, Good, Bad, GoodPiece, Cause, Handle, Manifest, Faults, Encrypted

\* The inductive invariant of Verify: files are in the feed, in one worker's hands or
\* recorded once, and every verdict and every error is backed by the stored objects.
THEOREM Inductive == Spec => []IInv
<1>1. Init => IInv
  BY InitInv
<1>2. IInv /\ [Next]_vars => IInv'
  <2> SUFFICES ASSUME IInv, [Next]_vars PROVE IInv'
    OBVIOUS
  <2>1. CASE CallerStep
    BY <2>1, StartInv, CallerInv DEF CallerStep
  <2>2. CASE Cancel
    BY <2>2, CancelInv
  <2>3. ASSUME NEW w \in PoolIds, WorkerStep(w) PROVE IInv'
    BY <2>3, HandOverInv, WorkerReturnsInv, VerifyPieceInv, RecordInv DEF WorkerStep
  <2>4. CASE UNCHANGED vars
    BY <2>4, StutterInv
  <2> QED
    BY <2>1, <2>2, <2>3, <2>4 DEF Next
<1> QED
  BY <1>1, <1>2, PTL DEF Spec

-----------------------------------------------------------------------------
(* The theorems.                                                            *)

\* Type correctness: a worker only reads pieces its file has, and no file is counted
\* twice (total stays within the manifest).
THEOREM TypeCorrect == Spec => []TypeOK
<1>1. IInv => TypeOK
  BY DEF IInv
<1> QED
  BY <1>1, Inductive, PTL

\* The report of Verifier.Verify is exact: what it returns as its result accounts for
\* every file handed to a worker exactly once, with the bad ones and only those failed,
\* and for the whole manifest unless the caller cancelled.
THEOREM ReportExact == Spec => []ExactReport
<1>1. IInv => ExactReport
  <2> SUFFICES ASSUME IInv, pc = "result"
               PROVE  /\ failed = {f \in Manifest \ feed : Bad(f)}
                      /\ total = Cardinality(Manifest \ feed)
                      /\ cancelled \/ Manifest \ feed = Manifest
    BY DEF ExactReport
  <2>1. ~firstErr /\ \A w \in PoolIds : ~Busy(w)
    BY DEF IInv, PhaseInv
  <2>2. Recorded = Manifest \ feed
    BY <2>1 DEF Recorded
  <2>3. total = Cardinality(Manifest \ feed)
    BY <2>1, <2>2 DEF IInv, CountInv
  <2>4. failed = {f \in Manifest \ feed : Bad(f)}
    <3>1. \A f \in Recorded : Bad(f) => f \in failed
      BY <2>1 DEF IInv, CountInv
    <3>2. \A f \in failed : Bad(f) /\ f \in Manifest \ feed
      BY DEF IInv, NoFalseAlarm, HandInv, TypeOK
    <3> QED
      BY <2>2, <3>1, <3>2
  <2>5. cancelled \/ feed = {}
    BY <2>1 DEF IInv, PhaseInv
  <2> QED
    BY <2>3, <2>4, <2>5
<1> QED
  BY <1>1, Inductive, PTL

\* A file is reported as failed only if one of its objects is absent or altered, on
\* every back end and whatever fails or is cancelled meanwhile (verifyObject).
THEOREM AlarmsTrue == Spec => []NoFalseAlarm
<1>1. IInv => NoFalseAlarm
  BY DEF IInv
<1> QED
  BY <1>1, Inductive, PTL

\* Verify returns an error only for the key, a failing call, the caller's cancellation
\* or an encrypted object that does not authenticate; never for an absent object.
THEOREM ErrorsCaused == Spec => []ErrorHasCause
<1>1. IInv => ErrorHasCause
  BY DEF IInv, ErrorInv, ErrorHasCause, Cause
<1> QED
  BY <1>1, Inductive, PTL

=============================================================================
