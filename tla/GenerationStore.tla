--------------------------- MODULE GenerationStore ---------------------------
(***************************************************************************)
(* The encrypted part of a stowmark repository as the key-rotation service *)
(* sees it: config.json, which names the active generation and wraps its   *)
(* symmetric key, and objects/encrypted/<generation>/, one object per      *)
(* content hash.  The six storage back ends (internal/infra/...) implement *)
(* the same interface with different intermediate and failure states; each *)
(* is described here by the states its calls can leave behind.             *)
(*                                                                         *)
(* An object's content is abstracted to the key that decrypts it.  AES-GCM *)
(* authenticates, so a torn object or one written under another key is     *)
(* simply unreadable.                                                      *)
(***************************************************************************)
EXTENDS Integers, FiniteSets

CONSTANTS
  Hashes,           \* content hashes of the repository's objects
  Backends,         \* the storage back ends under study
  MaxAttempts,      \* bound: how many times a rekey is started
  AmbiguousErrors   \* back ends on which CreateConfig may fail after it took effect

AllBackends == {"disk", "ssh", "smb", "s3", "gcs", "webdav"}

ASSUME BackendsAssumption == Backends \subseteq AllBackends
ASSUME AttemptsAssumption == MaxAttempts \in Nat \ {0}
\* Over SSH a rename whose answer is lost means a lost connection, after which the
\* clean-up fails too: that case is a crash of the client.
ASSUME AmbiguousAssumption == AmbiguousErrors \subseteq AllBackends \ {"ssh"}

VARIABLES
  backend,  \* the back end the repository URL selects; never changes
  config,   \* config.json: active generation and the key it wraps
  store,    \* store[g][h]: what lies at generation g's path for hash h
  temps     \* temporary files <<g, h, k>> lying in generation g (disk only)

storeVars == <<backend, config, store, temps>>

\* Key k is the key generated by attempt k - 1; key 1 comes from init.
Gens == 1..(MaxAttempts + 1)
Keys == 1..(MaxAttempts + 1)

Absent == 0    \* nothing at that path
Torn   == -1   \* incomplete content: authentication fails under any key
Cells  == Keys \cup {Absent, Torn}

\* config.json truncated or half written: GetConfig fails to unmarshal it.
Unreadable == [gen |-> 0, key |-> 0]
ConfigReadable == config # Unreadable

StoreTypeOK ==
  /\ backend \in Backends
  /\ config \in [gen : Gens, key : Keys] \cup {Unreadable}
  /\ store \in [Gens -> [Hashes -> Cells]]
  /\ temps \subseteq Gens \X Hashes \X Keys

\* The hashes whose object generation g holds complete under key k.
Complete(g, k) == {h \in Hashes : store[g][h] = k}

-----------------------------------------------------------------------------
(* SaveRekeyedObject.  For each back end: the cells the object's path may  *)
(* hold while the save is under way ("open") and after it returned an      *)
(* error ("failed"), given the cell found there and the new key.           *)

\* A temporary file is written beside the object and renamed over it.
DiskSaveRekeyedObject(cell, k) ==
  [open |-> {cell}, failed |-> {cell}]

\* O_TRUNC in place; abortSave removes the object, best effort.
SshSaveRekeyedObject(cell, k) ==
  [open |-> {Torn}, failed |-> {Absent, Torn, k}]

SmbSaveRekeyedObject(cell, k) ==
  [open |-> {Torn}, failed |-> {Absent, Torn, k}]

\* One upload: the new object appears whole; an error may hide a success.
S3SaveRekeyedObject(cell, k) ==
  [open |-> {cell}, failed |-> {cell, k}]

GcsSaveRekeyedObject(cell, k) ==
  [open |-> {cell}, failed |-> {cell, k}]

\* One PUT, which a server may apply piecemeal; removed, best effort, on error.
WebdavSaveRekeyedObject(cell, k) ==
  [open |-> {cell, Torn}, failed |-> {cell, Absent, Torn, k}]

SaveRekeyedObjectOf(b, cell, k) ==
  CASE b = "disk"   -> DiskSaveRekeyedObject(cell, k)
    [] b = "ssh"    -> SshSaveRekeyedObject(cell, k)
    [] b = "smb"    -> SmbSaveRekeyedObject(cell, k)
    [] b = "s3"     -> S3SaveRekeyedObject(cell, k)
    [] b = "gcs"    -> GcsSaveRekeyedObject(cell, k)
    [] b = "webdav" -> WebdavSaveRekeyedObject(cell, k)

-----------------------------------------------------------------------------
(* CreateConfig.  For each back end: what config.json may hold between the *)
(* first and the last write of the call, before it returns.                *)

\* Mutant: the new generation is visible before the key that goes with it.
DiskConfigWithoutKey(old, new) == {[gen |-> new.gen, key |-> 0]}

\* os.WriteFile truncates the file, then writes it.
DiskCreateConfig(old, new) == {Unreadable}

\* config.json.tmp is written and renamed over config.json.
SshCreateConfig(old, new) == {old}

\* WriteAt over the old bytes, then Truncate: a shorter document is followed
\* by the tail of the longer one until the second call.
SmbCreateConfig(old, new) == {old, new, Unreadable}

\* One PutObject / one writer closed replaces the whole document.
S3CreateConfig(old, new) == {old}
GcsCreateConfig(old, new) == {old}

\* One PUT, which a server may apply piecemeal, as it may that of an object.
WebdavCreateConfig(old, new) == {old, Unreadable}

CreateConfigOf(b, old, new) ==
  CASE b = "disk"   -> DiskCreateConfig(old, new)
    [] b = "ssh"    -> SshCreateConfig(old, new)
    [] b = "smb"    -> SmbCreateConfig(old, new)
    [] b = "s3"     -> S3CreateConfig(old, new)
    [] b = "gcs"    -> GcsCreateConfig(old, new)
    [] b = "webdav" -> WebdavCreateConfig(old, new)

\* What config.json may hold when CreateConfig returned an error.
FailedConfigs(new) == {config} \cup (IF backend \in AmbiguousErrors THEN {new} ELSE {})

-----------------------------------------------------------------------------
(* ListEncryptedObjects, ReadEncryptedObject, DeleteEncryptedGeneration.   *)

\* A name is <<h, 0>> for the object of hash h and <<h, k>> for a temporary file
\* that an attempt with key k left beside it.
Names == Hashes \X ({0} \cup Keys)

ObjectNames(g) == {<<h, 0>> : h \in {x \in Hashes : store[g][x] # Absent}}

\* The walk accepts every file two levels below the generation.
DiskListEncryptedObjects(g) ==
  ObjectNames(g) \cup {<<t[2], t[3]>> : t \in {x \in temps : x[1] = g}}

\* The other listings accept what lies at <two characters>/<rest> and skip anything
\* else; only objects are ever written there.
SshListEncryptedObjects(g) == ObjectNames(g)
SmbListEncryptedObjects(g) == ObjectNames(g)
S3ListEncryptedObjects(g) == ObjectNames(g)
GcsListEncryptedObjects(g) == ObjectNames(g)
WebdavListEncryptedObjects(g) == ObjectNames(g)

ListEncryptedObjects(g) ==
  CASE backend = "disk"   -> DiskListEncryptedObjects(g)
    [] backend = "ssh"    -> SshListEncryptedObjects(g)
    [] backend = "smb"    -> SmbListEncryptedObjects(g)
    [] backend = "s3"     -> S3ListEncryptedObjects(g)
    [] backend = "gcs"    -> GcsListEncryptedObjects(g)
    [] backend = "webdav" -> WebdavListEncryptedObjects(g)

\* Decode authenticates the object under key k.  A temporary file is under a key
\* that never reached config.json, or incomplete; either way it is refused.
ReadEncryptedObject(n, g, k) == n[2] = 0 /\ store[g][n[1]] = k

(* DeleteEncryptedGeneration.  For each back end: the sets of names that    *)
(* one step of the deletion may remove.                                     *)

\* os.RemoveAll: file by file, temporary files too.
DiskDeleteEncryptedGeneration(g) == {{n} : n \in DiskListEncryptedObjects(g)}

\* ReadDir and Remove, object by object.
SshDeleteEncryptedGeneration(g) == {{n} : n \in ObjectNames(g)}

\* Only a warning is logged; the call reports success.
SmbDeleteEncryptedGeneration(g) == {}

\* Listing and DeleteObject, object by object.
S3DeleteEncryptedGeneration(g) == {{n} : n \in ObjectNames(g)}
GcsDeleteEncryptedGeneration(g) == {{n} : n \in ObjectNames(g)}

\* One DELETE of the collection, which the server may carry out in part.
WebdavDeleteEncryptedGeneration(g) == (SUBSET ObjectNames(g)) \ {{}}

DeleteEncryptedGenerationOf(b, g) ==
  CASE b = "disk"   -> DiskDeleteEncryptedGeneration(g)
    [] b = "ssh"    -> SshDeleteEncryptedGeneration(g)
    [] b = "smb"    -> SmbDeleteEncryptedGeneration(g)
    [] b = "s3"     -> S3DeleteEncryptedGeneration(g)
    [] b = "gcs"    -> GcsDeleteEncryptedGeneration(g)
    [] b = "webdav" -> WebdavDeleteEncryptedGeneration(g)

\* One step of the deletion of generation g.
RemoveFrom(g) ==
  \E gone \in DeleteEncryptedGenerationOf(backend, g) :
    /\ store' = [store EXCEPT ![g] =
                   [h \in Hashes |-> IF <<h, 0>> \in gone THEN Absent ELSE store[g][h]]]
    /\ temps' = {t \in temps : ~(t[1] = g /\ <<t[2], t[3]>> \in gone)}

GenerationEmpty(g) ==
  /\ \A h \in Hashes : store[g][h] = Absent
  /\ \A t \in temps : t[1] # g

\* Nothing is left that the deletion would remove: the call may return nil.
DeletionComplete(g) == DeleteEncryptedGenerationOf(backend, g) = {}

=============================================================================
