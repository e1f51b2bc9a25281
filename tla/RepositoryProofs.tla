--------------------------- MODULE RepositoryProofs ---------------------------
(***************************************************************************)
(* Machine-checked proofs about Repository, for any number of processes,   *)
(* commands, key pairs and compression settings, and every back end.       *)
(***************************************************************************)
EXTENDS Repository, TLAPS

-----------------------------------------------------------------------------
(* The settings in which the key of the repository is not lost on purpose   *)
(* or by an answer that does not arrive.                                    *)

\* No init removes the encryption by force.
KeepsKey(s) == \A a \in s.inits : a.pub = None => ~a.force

\* And no rekey whose config.json is in place is told that it failed: it would abort and
\* delete the generation that config.json names.
Safe(s) == KeepsKey(s) /\ ("lost reply" \in s.faults => "rekey" \notin s.menu)

-----------------------------------------------------------------------------
(* The inductive invariant: what holds in every setting.                    *)

\* The steps of each command.
StepsOf(o) ==
  CASE o = "init"   -> {"exists", "folder", "previous", "write", "writing", "folders"}
    [] o = "create" -> {"create", "save", "publish", "publishing"}
    [] o = "rewrap" -> {"rewrap", "write", "writing"}
    [] o = "rekey"  -> {"rekey", "write", "writing", "delete"}
    [] o = "list"   -> {"list", "reading"}
    [] OTHER        -> {}

Active(p) == step[p] # "idle"
Writes(p) == step[p] \in {"write", "writing"}
Creates(p) == step[p] \in {"save", "publish", "publishing"}
Saved(p) == step[p] \in {"publish", "publishing"}

\* A running command has a number of its own, the arguments it needs, and the others beside
\* it that README.md:607 allows.
CommandInv ==
  /\ \A p \in Procs : Active(p) =>
       /\ op[p] \in setting.menu /\ step[p] \in StepsOf(op[p]) /\ id[p] \in Ids /\ id[p] <= count
       /\ op[p] = "init" => /\ args[p].comp \in Compressions /\ args[p].format \in {1, 2}
                            /\ KeepsKey(setting) => (args[p].pub = None => ~args[p].force)
       /\ op[p] \in {"rewrap", "rekey"} => args[p].pub \in KeyPairs
  /\ \A p, q \in Procs : p # q /\ Active(p) /\ Active(q) =>
       /\ id[p] # id[q]
       /\ \/ op[p] = "list" \/ op[q] = "list"
          \/ op[p] = "create" /\ op[q] \in {"create", "init"}
          \/ op[p] = "init" /\ op[q] = "create"

\* Generations are counted no further than keys, and keys no further than commands.
Bounded(c) == c.enc.gen <= c.enc.key /\ c.enc.key <= count

\* What a command has in hand.
ConfInv ==
  /\ Bounded(config) /\ \A p \in Procs : Bounded(conf[p])
  /\ Readable(config) => established # NoConfig
  /\ \A p \in Procs :
       /\ Writes(p) \/ Creates(p) \/ step[p] \in {"previous", "delete"} => conf[p] \in Configs
       /\ Creates(p) /\ Keyed(p) => Encrypted(conf[p])
       /\ step[p] = "rekey" => config.enc.key < id[p]
       /\ op[p] = "rekey" /\ (Writes(p) \/ step[p] = "delete") => conf[p].enc.gen >= 2

\* The manifest of a create is its own, and none is there before it is published; what others
\* can read before Save returns may be taken back over SSH only.
ManifestInv ==
  /\ \A i \in Ids : /\ i > count => manifests[i].state = "none"
                    /\ manifests[i].state = "whole" => manifests[i].comp \in Compressions
  /\ \A p \in Procs : Active(p) =>
       IF step[p] = "publishing"
       THEN /\ manifests[id[p]].state = "whole" => Retracts
            /\ manifests[id[p]].comp = conf[p].comp /\ manifests[id[p]].keyed = Keyed(p)
       ELSE manifests[id[p]].state = "none"

\* Objects without a key are never removed.
PlainInv ==
  /\ \A i \in Ids : manifests[i].state = "whole" /\ ~manifests[i].keyed =>
       objects[0][manifests[i].comp] = Plain
  /\ \A p \in Procs : Saved(p) /\ ~Keyed(p) => objects[0][conf[p].comp] = Plain

\* A manifest is gone for good: its create has taken it back and is over.
Retracted(i) ==
  /\ Retracts /\ manifests[i].state = "none" /\ i <= count
  /\ \A q \in Procs : Active(q) => id[q] # i

\* A listing has read, has still to read on its page, or has on a later page, whatever was
\* there when it started; where there are later pages, none of that is taken back.
ListInv ==
  \A p \in Procs :
    /\ \A i \in listed[p] : manifests[i].state = "whole" \/ Retracted(i)
    /\ step[p] = "reading" =>
         /\ whole[p] \subseteq entries[p] \cup listed[p] \cup (Ids \ passed[p])
         /\ passed[p] = Ids \/ (ListOf(backend).paged /\ whole[p] \subseteq WholeManifests)
    /\ op[p] = "list" /\ step[p] = "idle" => whole[p] \subseteq listed[p]

BaseInv == TypeOK /\ CommandInv /\ ConfInv /\ ManifestInv /\ PlainInv /\ ListInv

-----------------------------------------------------------------------------
(* The inductive invariant: the identity of the repository.                 *)

\* Nothing was ever published before the first config.json, which an init finds and keeps;
\* over SMB config.json may be replaced before its writer knows.
IdentityInv ==
  /\ established = NoConfig => config \in {NoConfig, Torn} /\ \A p \in Procs : ~Creates(p)
  /\ config = NoConfig => established = NoConfig
  /\ Readable(config) => config.id = established.id /\ config.format = established.format
  /\ config # NoConfig /\ Folder.exists = "folder" => folder
  /\ \A p \in Procs :
       /\ step[p] = "folder" /\ ~exists[p] => config = NoConfig
       /\ Writes(p) /\ Folder.exists = "folder" => folder
       /\ Writes(p) /\ established # NoConfig =>
            conf[p].id = established.id /\ conf[p].format = established.format
       /\ Writes(p) /\ Readable(config) =>
            \/ config = conf[p] /\ backend = "smb"
            \/ IF op[p] = "rekey" THEN conf[p].enc.gen = config.enc.gen + 1
               ELSE Encrypted(config) => /\ conf[p].enc.gen = config.enc.gen
                                         /\ conf[p].enc.key = config.enc.key

-----------------------------------------------------------------------------
(* The inductive invariant: what is encrypted stays readable.               *)

\* c opens every snapshot published with a key or about to be; its generation holds no
\* other key, and the next one nothing that the next rekey will not overwrite.
Opens(c) ==
  /\ Encrypted(c) => \A h \in Compressions : objects[c.enc.gen][h] \in {c.enc.key, Nothing}
  /\ \A n \in Namespaces : n > c.enc.gen => \A h \in Compressions : objects[n][h] # Nothing =>
       n = c.enc.gen + 1 /\ Encrypted(c) /\ objects[c.enc.gen][h] # Nothing
  /\ \A i \in Ids : manifests[i].state = "whole" /\ manifests[i].keyed =>
       Encrypted(c) /\ objects[c.enc.gen][manifests[i].comp] = c.enc.key
  /\ \A q \in Procs : Creates(q) /\ Keyed(q) =>
       c.enc.gen = conf[q].enc.gen /\ c.enc.key = conf[q].enc.key
  /\ \A q \in Procs : Saved(q) /\ Keyed(q) => objects[c.enc.gen][conf[q].comp] = c.enc.key

\* The configuration in force, and one that is about to be.
KeyInv ==
  /\ Readable(config) => Opens(config)
  /\ \A p \in Procs : Writes(p) => Opens(conf[p])
  /\ established = NoConfig =>
       /\ \A i \in Ids : manifests[i].state # "whole"
       /\ \A n \in Namespaces : n > 0 => \A h \in Compressions : objects[n][h] = Nothing
  /\ config = Torn => InPlace
  /\ \A p \in Procs : step[p] = "delete" /\ Readable(config) => config.enc.gen = conf[p].enc.gen

IInv ==
  /\ BaseInv
  /\ KeepsKey(setting) => IdentityInv
  /\ Safe(setting) => KeyInv

-----------------------------------------------------------------------------
(* Facts about the constants and the operators.                             *)

\* What is known of the back end of a setting.
LEMMA SettingFacts ==
  ASSUME TypeOK
  PROVE  /\ setting \in SettingType /\ setting.max <= MaxCommands /\ setting.max \in Nat
         /\ Folder.exists = "folder" => Folder.folders
         /\ Folder.folders \in BOOLEAN /\ Folder.writing \subseteq {"old", "new", "torn"}
         /\ "new" \in Folder.writing => backend = "smb"
         /\ ManifestSaveOf(backend).open \subseteq {"none", "torn", "whole"}
         /\ ManifestSaveOf(backend).failed \subseteq {"none", "torn", "whole"}
         /\ ListOf(backend).paged => ~Retracts
<1>1. setting \in SettingType /\ MaxCommands \in Nat
  BY RepositoryAssumption DEF TypeOK
<1>2. setting.max \in 0..MaxCommands /\ backend \in AllBackends
  BY <1>1 DEF SettingType, backend
<1>3. /\ Folder.exists = "folder" => Folder.folders
      /\ Folder.folders \in BOOLEAN /\ Folder.writing \subseteq {"old", "new", "torn"}
      /\ "new" \in Folder.writing => backend = "smb"
  BY <1>2 DEF AllBackends, Folder, FolderRepositoryOf, DiskFolderRepository,
     SshFolderRepository, SmbFolderRepository, S3FolderRepository, GcsFolderRepository,
     WebdavFolderRepository
<1>4. /\ ManifestSaveOf(backend).open \subseteq {"none", "torn", "whole"}
      /\ ManifestSaveOf(backend).failed \subseteq {"none", "torn", "whole"}
      /\ Retracts => backend = "ssh"
  BY <1>2 DEF AllBackends, Retracts, ManifestSaveOf, DiskManifestSave, SshManifestSave,
     SmbManifestSave, S3ManifestSave, GcsManifestSave, WebdavManifestSave
<1>5. backend = "ssh" => ~ListOf(backend).paged
  BY DEF ListOf, SshList
<1> QED
  BY <1>1, <1>2, <1>3, <1>4, <1>5

\* What is known of an encryption.
LEMMA EncryptionFacts ==
  ASSUME NEW e \in Encryptions
  PROVE  /\ e.gen \in 0..(MaxCommands + 1) /\ e.key \in 0..MaxCommands
         /\ e = NoEncryption => e.gen = 0 /\ e.key = 0
         /\ e # NoEncryption => e.gen > 0 /\ e.key \in Ids /\ e.wrap \in KeyPairs
BY RepositoryAssumption DEF Encryptions, NoEncryption, Ids, Plain

\* What is known of a configuration.
LEMMA ConfigFacts ==
  /\ \A c \in Configs :
       /\ Readable(c) /\ c # NoConfig /\ c # Torn /\ c.id \in Ids /\ c.format \in {1, 2}
       /\ c.comp \in Compressions /\ c.enc \in Encryptions
  /\ ~Readable(NoConfig) /\ ~Readable(Torn) /\ NoConfig # Torn
  /\ NoConfig.enc = NoEncryption /\ Torn.enc = NoEncryption
  /\ NoEncryption \in Encryptions
BY RepositoryAssumption DEF Configs, Readable, NoConfig, Torn, Ids, Encryptions

\* Every configuration has an encryption, if only the one that is none.
LEMMA EncOf ==
  ASSUME NEW c \in Configs \cup {NoConfig, Torn}
  PROVE  /\ c.enc \in Encryptions /\ c.enc.gen \in 0..(MaxCommands + 1) /\ c.enc.key \in 0..MaxCommands
         /\ Encrypted(c) => c.enc.gen > 0 /\ c.enc.key \in Ids /\ c.enc.wrap \in KeyPairs /\ c \in Configs
         /\ ~Encrypted(c) => c.enc.gen = 0 /\ c.enc.key = 0
         /\ Readable(c) => c \in Configs
<1>1. c.enc \in Encryptions
  BY ConfigFacts
<1> QED
  BY <1>1, EncryptionFacts, ConfigFacts DEF Encrypted

\* Who may run beside a command that writes config.json.
LEMMA AloneFacts ==
  ASSUME CommandInv, NEW p \in Procs, Active(p), op[p] \in {"init", "rewrap", "rekey"},
         NEW q \in Procs, q # p, Active(q)
  PROVE  /\ op[q] \in {"list", "create"} /\ (op[p] # "init" => op[q] = "list")
         /\ ~Writes(q) /\ step[q] \notin {"exists", "folder", "previous", "folders", "rewrap", "rekey", "delete"}
         /\ op[p] # "init" => ~Creates(q)
<1>1. /\ op[q] \in {"list", "create"} /\ (op[p] # "init" => op[q] = "list")
      /\ step[q] \in StepsOf(op[q])
  BY DEF CommandInv
<1> QED
  BY <1>1 DEF StepsOf, Writes, Creates

\* Which command is at a step.
LEMMA StepFacts ==
  ASSUME CommandInv, NEW p \in Procs, Active(p)
  PROVE  /\ step[p] \in {"exists", "folder", "previous", "folders"} => op[p] = "init"
         /\ Writes(p) => op[p] \in {"init", "rewrap", "rekey"}
         /\ step[p] = "create" \/ Creates(p) => op[p] = "create"
         /\ step[p] = "rewrap" => op[p] = "rewrap"
         /\ step[p] \in {"rekey", "delete"} => op[p] = "rekey"
         /\ step[p] \in {"list", "reading"} => op[p] = "list"
BY DEF CommandInv, StepsOf, Writes, Creates

\* A command goes on, or ends.
LEMMA MoveFacts ==
  ASSUME BaseInv, NEW p \in Procs, Active(p), NEW s \in StepsOf(op[p]) \cup {"idle"},
         Go(p, s), UNCHANGED <<setting, commandVars>>
  PROVE  /\ CommandInv' /\ step' \in [Procs -> Steps] /\ step'[p] = s
         /\ \A q \in Procs : q # p => step'[q] = step[q]
<1>1. s \in Steps
  BY DEF StepsOf, Steps
<1>2. /\ step' \in [Procs -> Steps] /\ step'[p] = s
      /\ \A q \in Procs : q # p => step'[q] = step[q]
  BY <1>1 DEF BaseInv, TypeOK, Go
<1> QED
  BY <1>2 DEF BaseInv, CommandInv, Active, commandVars

-----------------------------------------------------------------------------
(* Steps that touch neither config.json, objects nor manifests.              *)

\* The frame: commands end, a listing begins to read, an init has asked whether there is a
\* repository.
LEMMA QuietFrame ==
  ASSUME IInv,
         UNCHANGED <<setting, config, established, objects, manifests, commandVars, conf>>,
         folder => folder', CommandInv',
         \A q \in Procs :
           \/ step'[q] = step[q] /\ (step[q] = "folder" => exists'[q] = exists[q])
           \/ step'[q] = "idle"
           \/ step'[q] = "reading" /\ step[q] = "list"
           \/ /\ step'[q] = "folder" /\ step[q] = "exists"
              /\ KeepsKey(setting) /\ ~exists'[q] => config = NoConfig
  PROVE  /\ CommandInv' /\ ConfInv' /\ ManifestInv' /\ PlainInv'
         /\ (KeepsKey(setting) => IdentityInv)' /\ (Safe(setting) => KeyInv)'
<1> USE DEF commandVars
<1>1. Folder' = Folder /\ InPlace' = InPlace /\ Retracts' = Retracts /\ backend' = backend
  BY DEF Folder, InPlace, Retracts, backend
<1>2. /\ \A q \in Procs : Writes(q)' => Writes(q) /\ step'[q] = step[q]
      /\ \A q \in Procs : Creates(q)' => Creates(q) /\ step'[q] = step[q]
      /\ \A q \in Procs : Saved(q)' => Saved(q)
      /\ \A q \in Procs : Active(q)' => Active(q)
  BY DEF Writes, Creates, Saved, Active
<1>3. \A q \in Procs : Keyed(q)' = Keyed(q)
  BY DEF Keyed
<1>4. ConfInv'
  BY <1>2, <1>3 DEF IInv, BaseInv, ConfInv, Bounded
<1>5. ManifestInv'
  BY <1>1, <1>2, <1>3 DEF IInv, BaseInv, ManifestInv, Active
<1>6. PlainInv'
  BY <1>2, <1>3 DEF IInv, BaseInv, PlainInv
<1>7. (KeepsKey(setting) => IdentityInv)'
  BY <1>1, <1>2 DEF IInv, IdentityInv
<1>8. (Safe(setting) => KeyInv)'
  <2>1. ASSUME NEW c, Opens(c) PROVE Opens(c)'
    BY <1>2, <1>3, <2>1 DEF Opens
  <2> SUFFICES ASSUME Safe(setting) PROVE KeyInv'
    OBVIOUS
  <2>2. KeyInv
    BY DEF IInv
  <2>3. Readable(config) => Opens(config)'
    BY <2>1, <2>2 DEF KeyInv
  <2>4. ASSUME NEW q \in Procs, Writes(q)' PROVE Opens(conf[q])'
    BY <1>2, <2>1, <2>2, <2>4 DEF KeyInv
  <2> QED
    BY <1>1, <2>2, <2>3, <2>4 DEF KeyInv
<1> QED
  BY <1>4, <1>5, <1>6, <1>7, <1>8

\* What a step does to the listing of q: nothing, nothing but to return it, or it is dropped.
ListKept(q) ==
  \/ /\ whole'[q] = whole[q] /\ passed'[q] = passed[q]
     /\ entries'[q] = entries[q] /\ listed'[q] = listed[q]
     /\ step'[q] = "reading" => step[q] = "reading"
     /\ op'[q] = "list" /\ step'[q] = "idle" => whole[q] \subseteq listed[q]
  \/ listed'[q] = {} /\ whole'[q] = {} /\ step'[q] # "reading"

\* What a listing has read stays published, or is taken back for good.
LEMMA ListFrame ==
  ASSUME BaseInv, setting' = setting,
         \A i \in Ids : manifests[i].state = "whole" => manifests'[i].state = "whole" \/ Retracted(i)',
         \A i \in Ids : Retracted(i) => Retracted(i)',
         \A q \in Procs : ListKept(q)
  PROVE  ListInv'
<1>1. ListInv /\ TypeOK /\ listed \in [Procs -> SUBSET Ids] /\ whole \in [Procs -> SUBSET Ids]
  BY DEF BaseInv, TypeOK
<1>2. backend' = backend /\ Retracts' = Retracts /\ (ListOf(backend).paged => ~Retracts)
  BY <1>1, SettingFacts DEF backend, Retracts
<1>3. ListOf(backend).paged => \A i \in WholeManifests : i \in WholeManifests'
  BY <1>2 DEF WholeManifests, Retracted
<1>4. ASSUME NEW q \in Procs, NEW i \in listed'[q]
      PROVE  manifests'[i].state = "whole" \/ Retracted(i)'
  <2>1. i \in listed[q] /\ i \in Ids
    BY <1>1, <1>4 DEF ListKept
  <2> QED
    BY <1>1, <2>1 DEF ListInv
<1>5. ASSUME NEW q \in Procs, step'[q] = "reading"
      PROVE  /\ whole'[q] \subseteq entries'[q] \cup listed'[q] \cup (Ids \ passed'[q])
             /\ passed'[q] = Ids \/ (ListOf(backend).paged /\ whole'[q] \subseteq WholeManifests')
  <2>1. /\ whole'[q] = whole[q] /\ passed'[q] = passed[q]
        /\ entries'[q] = entries[q] /\ listed'[q] = listed[q] /\ step[q] = "reading"
    BY <1>5 DEF ListKept
  <2> QED
    BY <1>1, <1>3, <2>1 DEF ListInv
<1>6. ASSUME NEW q \in Procs, op'[q] = "list", step'[q] = "idle" PROVE whole'[q] \subseteq listed'[q]
  BY <1>6 DEF ListKept
<1> QED
  BY <1>2, <1>4, <1>5, <1>6 DEF ListInv

\* A step that leaves the manifests alone and starts no command.
LEMMA QuietList ==
  ASSUME BaseInv, UNCHANGED <<setting, manifests, commandVars>>,
         \A q \in Procs : Active(q)' => Active(q),
         \A q \in Procs : ListKept(q)
  PROVE  ListInv'
<1>1. \A i \in Ids : Retracted(i) => Retracted(i)'
  BY DEF Retracted, Retracts, backend, commandVars
<1> QED
  BY <1>1, ListFrame

\* What the step of a command that is no listing does to the listings: only a command that
\* fails or dies drops its own.
LEMMA ListKeeps ==
  ASSUME BaseInv, NEW p \in Procs, NEW s, s # "reading", Go(p, s), op' = op,
         \/ UNCHANGED listVars /\ op[p] # "list"
         \/ ForgetListing(p)
  PROVE  /\ whole' \in [Procs -> SUBSET Ids] /\ passed' \in [Procs -> SUBSET Ids]
         /\ entries' \in [Procs -> SUBSET Ids] /\ listed' \in [Procs -> SUBSET Ids]
         /\ \A q \in Procs : ListKept(q)
<1>1. /\ whole \in [Procs -> SUBSET Ids] /\ passed \in [Procs -> SUBSET Ids]
      /\ entries \in [Procs -> SUBSET Ids] /\ listed \in [Procs -> SUBSET Ids]
      /\ step \in [Procs -> Steps]
  BY DEF BaseInv, TypeOK
<1>2. step'[p] = s /\ \A q \in Procs : q # p => step'[q] = step[q]
  BY <1>1 DEF Go
<1>3. \A q \in Procs : op[q] = "list" /\ step[q] = "idle" => whole[q] \subseteq listed[q]
  BY DEF BaseInv, ListInv
<1>4. CASE UNCHANGED listVars /\ op[p] # "list"
  BY <1>1, <1>2, <1>3, <1>4 DEF ListKept, listVars
<1>5. CASE ForgetListing(p)
  <2>1. /\ whole' \in [Procs -> SUBSET Ids] /\ whole'[p] = {}
        /\ \A q \in Procs : q # p => whole'[q] = whole[q]
    BY <1>1, <1>5 DEF ForgetListing
  <2>2. /\ passed' \in [Procs -> SUBSET Ids] /\ \A q \in Procs : q # p => passed'[q] = passed[q]
    BY <1>1, <1>5 DEF ForgetListing
  <2>3. /\ entries' \in [Procs -> SUBSET Ids] /\ \A q \in Procs : q # p => entries'[q] = entries[q]
    BY <1>1, <1>5 DEF ForgetListing
  <2>4. /\ listed' \in [Procs -> SUBSET Ids] /\ listed'[p] = {}
        /\ \A q \in Procs : q # p => listed'[q] = listed[q]
    BY <1>1, <1>5 DEF ForgetListing
  <2> QED
    BY <1>2, <1>3, <2>1, <2>2, <2>3, <2>4 DEF ListKept
<1> QED
  BY <1>4, <1>5

\* A command ends without having changed anything: its process dies, a listing is complete,
\* the last folder of an init is there.
LEMMA EndsInv ==
  ASSUME IInv, NEW p \in Procs, Crash(p) \/ ListReturns(p) \/ InitFolders(p)
  PROVE  IInv'
<1> USE DEF commandVars, configVars, folderVars
<1>1. /\ BaseInv /\ TypeOK /\ Active(p) /\ Go(p, "idle")
      /\ UNCHANGED <<setting, folder, configVars, objects, manifests, commandVars, conf, exists>>
  BY DEF IInv, BaseInv, Crash, ListReturns, InitFolders, Active
<1>2. /\ CommandInv' /\ step' \in [Procs -> Steps] /\ step'[p] = "idle"
      /\ \A q \in Procs : q # p => step'[q] = step[q]
  BY <1>1, MoveFacts
<1>3. /\ whole' \in [Procs -> SUBSET Ids] /\ passed' \in [Procs -> SUBSET Ids]
      /\ entries' \in [Procs -> SUBSET Ids] /\ listed' \in [Procs -> SUBSET Ids]
      /\ \A q \in Procs : ListKept(q)
  <2>1. CASE Crash(p)
    BY <1>1, <2>1, ListKeeps DEF Crash
  <2>2. CASE InitFolders(p)
    <3>1. op[p] = "init"
      BY <1>1, <2>2, StepFacts DEF BaseInv, InitFolders
    <3> QED
      BY <1>1, <2>2, <3>1, ListKeeps DEF InitFolders
  <2>3. CASE ListReturns(p)
    <3>1. UNCHANGED listVars /\ step[p] = "reading" /\ entries[p] = {} /\ passed[p] = Ids
      BY <2>3 DEF ListReturns
    <3>2. whole[p] \subseteq listed[p]
      BY <1>1, <3>1 DEF BaseInv, ListInv
    <3>3. \A q \in Procs : op[q] = "list" /\ step[q] = "idle" => whole[q] \subseteq listed[q]
      BY <1>1 DEF BaseInv, ListInv
    <3>4. \A q \in Procs : ListKept(q)
      BY <1>1, <1>2, <3>1, <3>2, <3>3 DEF ListKept, listVars
    <3> QED
      BY <1>1, <3>1, <3>4 DEF TypeOK, listVars
  <2> QED
    BY <2>1, <2>2, <2>3
<1>4. TypeOK'
  <2>1. snapshots' \in BOOLEAN
    BY <1>1, SettingFacts DEF TypeOK, Crash, ListReturns, InitFolders
  <2> QED
    BY <1>1, <1>2, <1>3, <2>1 DEF TypeOK
<1>5. ListInv'
  BY <1>1, <1>2, <1>3, QuietList DEF Active
<1>6. /\ ConfInv' /\ ManifestInv' /\ PlainInv'
      /\ (KeepsKey(setting) => IdentityInv)' /\ (Safe(setting) => KeyInv)'
  BY <1>1, <1>2, QuietFrame
<1> QED
  BY <1>2, <1>4, <1>5, <1>6 DEF IInv, BaseInv

\* Exists: where it looks for the folder, no folder means no config.json.
LEMMA InitExistsInv == ASSUME IInv, NEW p \in Procs, InitExists(p) PROVE IInv'
<1> USE DEF commandVars, configVars, listVars, folderVars
<1>1. /\ BaseInv /\ Active(p) /\ Go(p, "folder") /\ op[p] = "init" /\ step[p] = "exists"
      /\ UNCHANGED <<setting, folderVars, configVars, objects, manifests, commandVars, conf, listVars>>
      /\ exists' = [exists EXCEPT ![p] = IF Folder.exists = "folder" THEN folder ELSE config # NoConfig]
  BY StepFacts DEF IInv, BaseInv, InitExists, Active
<1>2. "folder" \in StepsOf(op[p])
  BY <1>1 DEF StepsOf
<1>3. /\ CommandInv' /\ step' \in [Procs -> Steps] /\ step'[p] = "folder"
      /\ \A q \in Procs : q # p => step'[q] = step[q]
  BY <1>1, <1>2, MoveFacts
<1>4. /\ exists' \in [Procs -> BOOLEAN] /\ \A q \in Procs : q # p => exists'[q] = exists[q]
      /\ exists'[p] = IF Folder.exists = "folder" THEN folder ELSE config # NoConfig
  BY <1>1 DEF BaseInv, TypeOK
<1>5. TypeOK'
  BY <1>1, <1>3, <1>4 DEF BaseInv, TypeOK
<1>6. ListInv'
  BY <1>1, <1>3, ListKeeps, QuietList DEF Active
<1>7. KeepsKey(setting) /\ ~exists'[p] => config = NoConfig
  BY <1>4 DEF IInv, IdentityInv
<1>8. /\ ConfInv' /\ ManifestInv' /\ PlainInv'
      /\ (KeepsKey(setting) => IdentityInv)' /\ (Safe(setting) => KeyInv)'
  BY <1>1, <1>3, <1>4, <1>7, QuietFrame
<1> QED
  BY <1>3, <1>5, <1>6, <1>8 DEF IInv, BaseInv

\* The listing: names, further names, one manifest after the other.
LEMMA ListingInv ==
  ASSUME IInv, NEW p \in Procs, ListNames(p) \/ ListNextPage(p) \/ ListReads(p)
  PROVE  IInv'
<1> USE DEF commandVars, configVars, listVars, folderVars
<1>1. /\ BaseInv /\ Active(p) /\ op[p] = "list"
      /\ UNCHANGED <<setting, folderVars, configVars, objects, manifests, commandVars, conf, exists>>
  BY StepFacts DEF IInv, BaseInv, ListNames, ListNextPage, ListReads, Active
<1>2. /\ CommandInv' /\ step' \in [Procs -> Steps]
      /\ step'[p] = "reading" /\ step[p] \in {"list", "reading"}
      /\ \A q \in Procs : q # p => step'[q] = step[q]
  <2>1. CASE ListNames(p)
    <3>1. Go(p, "reading") /\ "reading" \in StepsOf(op[p]) /\ step[p] = "list"
      BY <1>1, <2>1 DEF ListNames, StepsOf
    <3> QED
      BY <1>1, <3>1, MoveFacts
  <2>2. CASE ListNextPage(p) \/ ListReads(p)
    <3>1. step' = step /\ step[p] = "reading"
      BY <2>2 DEF ListNextPage, ListReads
    <3> QED
      BY <1>1, <3>1 DEF BaseInv, CommandInv, TypeOK, Active
  <2> QED
    BY <2>1, <2>2
<1>3. /\ whole' \in [Procs -> SUBSET Ids] /\ passed' \in [Procs -> SUBSET Ids]
      /\ entries' \in [Procs -> SUBSET Ids] /\ listed' \in [Procs -> SUBSET Ids]
      /\ \A q \in Procs : q # p => /\ whole'[q] = whole[q] /\ passed'[q] = passed[q]
                                   /\ entries'[q] = entries[q] /\ listed'[q] = listed[q]
      /\ \A i \in listed'[p] : manifests[i].state = "whole" \/ Retracted(i)
      /\ whole'[p] \subseteq entries'[p] \cup listed'[p] \cup (Ids \ passed'[p])
      /\ passed'[p] = Ids \/ (ListOf(backend).paged /\ whole'[p] \subseteq WholeManifests)
  <2>1. /\ whole \in [Procs -> SUBSET Ids] /\ passed \in [Procs -> SUBSET Ids]
        /\ entries \in [Procs -> SUBSET Ids] /\ listed \in [Procs -> SUBSET Ids]
        /\ Present \subseteq Ids /\ WholeManifests \subseteq Present /\ ListInv
    BY <1>1 DEF BaseInv, TypeOK, Present, WholeManifests
  <2>2. CASE ListNames(p)
    <3>1. PICK upto \in PagesAfter({}) : /\ passed' = [passed EXCEPT ![p] = upto]
                                         /\ entries' = [entries EXCEPT ![p] = Present \cap (upto \ {})]
      BY <2>2 DEF ListNames, NextPage
    <3>2. upto \subseteq Ids /\ (upto = Ids \/ ListOf(backend).paged)
      BY DEF PagesAfter
    <3>3. whole' = [whole EXCEPT ![p] = WholeManifests] /\ listed' = [listed EXCEPT ![p] = {}]
      BY <2>2 DEF ListNames
    <3> QED
      BY <2>1, <3>1, <3>2, <3>3
  <2>3. CASE ListNextPage(p)
    <3>1. PICK upto \in PagesAfter(passed[p]) :
            /\ passed' = [passed EXCEPT ![p] = upto]
            /\ entries' = [entries EXCEPT ![p] = Present \cap (upto \ passed[p])]
      BY <2>3 DEF ListNextPage, NextPage
    <3>2. upto \subseteq Ids /\ (upto = Ids \/ ListOf(backend).paged)
      BY DEF PagesAfter
    <3>3. /\ whole' = whole /\ listed' = listed /\ step[p] = "reading"
          /\ entries[p] = {} /\ passed[p] # Ids
      BY <2>3 DEF ListNextPage
    <3>4. /\ whole[p] \subseteq listed[p] \cup (Ids \ passed[p]) /\ whole[p] \subseteq WholeManifests
          /\ \A i \in listed[p] : manifests[i].state = "whole" \/ Retracted(i)
      BY <2>1, <3>3 DEF ListInv
    <3> QED
      BY <2>1, <3>1, <3>2, <3>3, <3>4
  <2>4. CASE ListReads(p)
    <3>1. PICK i \in entries[p] :
            /\ manifests[i].state = "whole"
            /\ entries' = [entries EXCEPT ![p] = @ \ {i}]
            /\ listed' = [listed EXCEPT ![p] = @ \cup {i}]
      BY <2>4 DEF ListReads
    <3>2. i \in Ids /\ whole' = whole /\ passed' = passed /\ step[p] = "reading"
      BY <2>1, <2>4 DEF ListReads
    <3>3. /\ whole[p] \subseteq entries[p] \cup listed[p] \cup (Ids \ passed[p])
          /\ passed[p] = Ids \/ (ListOf(backend).paged /\ whole[p] \subseteq WholeManifests)
          /\ \A j \in listed[p] : manifests[j].state = "whole" \/ Retracted(j)
      BY <2>1, <3>2 DEF ListInv
    <3> QED
      BY <2>1, <3>1, <3>2, <3>3
  <2> QED
    BY <2>2, <2>3, <2>4
<1>4. TypeOK'
  BY <1>1, <1>2, <1>3 DEF BaseInv, TypeOK
<1>5. ListInv'
  <2>1. /\ backend' = backend /\ WholeManifests' = WholeManifests
        /\ \A i \in Ids : Retracted(i) => Retracted(i)'
    BY <1>1, <1>2 DEF backend, WholeManifests, Retracted, Retracts, Active
  <2>2. \A q \in Procs : listed'[q] \subseteq Ids
    BY <1>3
  <2>3. ASSUME NEW q \in Procs
        PROVE  /\ \A i \in listed'[q] : manifests[i].state = "whole" \/ Retracted(i)
               /\ step'[q] = "reading" =>
                    /\ whole'[q] \subseteq entries'[q] \cup listed'[q] \cup (Ids \ passed'[q])
                    /\ passed'[q] = Ids \/ (ListOf(backend).paged /\ whole'[q] \subseteq WholeManifests)
               /\ op[q] = "list" /\ step'[q] = "idle" => whole'[q] \subseteq listed'[q]
    <3>1. CASE q = p
      BY <1>2, <1>3, <3>1
    <3>2. CASE q # p
      BY <1>1, <1>2, <1>3, <3>2 DEF BaseInv, ListInv
    <3> QED
      BY <3>1, <3>2
  <2> QED
    BY <1>1, <2>1, <2>2, <2>3 DEF ListInv
<1>6. /\ ConfInv' /\ ManifestInv' /\ PlainInv'
      /\ (KeepsKey(setting) => IdentityInv)' /\ (Safe(setting) => KeyInv)'
  BY <1>1, <1>2, QuietFrame
<1> QED
  BY <1>2, <1>4, <1>5, <1>6 DEF IInv, BaseInv

-----------------------------------------------------------------------------
(* Steps by which a command gets a configuration in hand.                    *)

\* The frame: p goes from reading to writing, or to saving objects, with c in hand.
LEMMA HandFrame ==
  ASSUME IInv, NEW p \in Procs, NEW c \in Configs, NEW s \in {"previous", "write", "save"},
         step[p] \in {"folder", "previous", "create", "rewrap"}, s \in StepsOf(op[p]), Go(p, s),
         UNCHANGED <<setting, configVars, objects, manifests, commandVars, exists, listVars>>,
         conf' = [conf EXCEPT ![p] = c], folder' \in BOOLEAN, folder => folder', snapshots' = snapshots,
         op[p] # "rekey", Bounded(c),
         s = "save" /\ Keyed(p) => Encrypted(c),
         s = "save" /\ KeepsKey(setting) => established # NoConfig,
         s = "write" /\ KeepsKey(setting) /\ established # NoConfig =>
           c.id = established.id /\ c.format = established.format,
         s = "write" /\ KeepsKey(setting) /\ Readable(config) /\ Encrypted(config) =>
           c.enc.gen = config.enc.gen /\ c.enc.key = config.enc.key,
         s = "write" /\ KeepsKey(setting) /\ Folder.exists = "folder" => folder',
         s = "write" /\ Safe(setting) => Opens(c),
         s = "save" /\ Keyed(p) /\ Safe(setting) =>
           /\ Readable(config) => c.enc.gen = config.enc.gen /\ c.enc.key = config.enc.key
           /\ \A q \in Procs : Writes(q) => c.enc.gen = conf[q].enc.gen /\ c.enc.key = conf[q].enc.key
  PROVE  IInv'
<1> USE DEF commandVars, configVars, listVars
<1>1. BaseInv /\ Active(p)
  BY DEF IInv, Active
<1>2. /\ CommandInv' /\ step' \in [Procs -> Steps] /\ step'[p] = s
      /\ \A q \in Procs : q # p => step'[q] = step[q]
  BY <1>1, MoveFacts
<1>3. /\ conf' \in [Procs -> Configs \cup {NoConfig}] /\ conf'[p] = c
      /\ \A q \in Procs : q # p => conf'[q] = conf[q]
  BY <1>1 DEF BaseInv, TypeOK
<1>4. TypeOK'
  BY <1>1, <1>2, <1>3 DEF BaseInv, TypeOK
<1>5. ListInv'
  <2>1. op[p] # "list"
    BY DEF StepsOf
  <2> QED
    BY <1>1, <1>2, <2>1, ListKeeps, QuietList DEF Active
<1>6. \A q \in Procs : Keyed(q)' = Keyed(q)
  BY DEF Keyed
<1>7. /\ Folder' = Folder /\ InPlace' = InPlace /\ Retracts' = Retracts /\ backend' = backend
      /\ \A q \in Procs : q # p => /\ Writes(q)' = Writes(q) /\ Creates(q)' = Creates(q)
                                   /\ Saved(q)' = Saved(q) /\ Active(q)' = Active(q)
      /\ ~Saved(p)' /\ (Creates(p)' <=> s = "save") /\ (Writes(p)' <=> s = "write")
      /\ ~Writes(p) /\ ~Creates(p)
  BY <1>2 DEF Folder, InPlace, Retracts, backend, Writes, Creates, Saved, Active
<1>8. ConfInv'
  <2>1. Bounded(config)' /\ \A q \in Procs : Bounded(conf[q])'
    <3>1. Bounded(config) /\ \A q \in Procs : Bounded(conf[q])
      BY <1>1 DEF BaseInv, ConfInv
    <3> QED
      BY <1>3, <3>1 DEF Bounded
  <2> QED
    BY <1>1, <1>2, <1>3, <1>6, <1>7, <2>1 DEF BaseInv, ConfInv, Bounded
<1>9. ManifestInv'
  BY <1>1, <1>2, <1>3, <1>6, <1>7 DEF BaseInv, ManifestInv
<1>10. PlainInv'
  BY <1>1, <1>3, <1>6, <1>7 DEF BaseInv, PlainInv
<1>11. (KeepsKey(setting) => IdentityInv)'
  BY <1>2, <1>3, <1>7 DEF IInv, IdentityInv
<1>12. (Safe(setting) => KeyInv)'
  <2> SUFFICES ASSUME Safe(setting) PROVE KeyInv'
    OBVIOUS
  <2>1. KeyInv
    BY DEF IInv
  <2>2. ASSUME NEW d, Opens(d),
               s = "save" /\ Keyed(p) => c.enc.gen = d.enc.gen /\ c.enc.key = d.enc.key
        PROVE  Opens(d)'
    BY <1>3, <1>6, <1>7, <2>2 DEF Opens
  <2>3. Readable(config) => Opens(config)'
    BY <2>1, <2>2 DEF KeyInv
  <2>4. ASSUME NEW q \in Procs, Writes(q)' PROVE Opens(conf[q])'
    <3>1. CASE q = p
      <4>1. s = "write" /\ Opens(c)
        BY <1>7, <2>4, <3>1
      <4>2. Opens(c)'
        BY <2>2, <4>1
      <4> QED
        BY <1>3, <3>1, <4>2
    <3>2. CASE q # p
      <4>1. Opens(conf[q])
        BY <1>7, <2>1, <2>4, <3>2 DEF KeyInv
      <4> DEFINE d == conf[q]
      <4>2. Opens(d)'
        <5>1. Opens(d) /\ (s = "save" /\ Keyed(p) => c.enc.gen = d.enc.gen /\ c.enc.key = d.enc.key)
          BY <1>7, <2>4, <3>2, <4>1
        <5> QED
          BY <1>3, <1>6, <1>7, <3>2, <5>1 DEF Opens
      <4> QED
        BY <4>2
    <3> QED
      BY <3>1, <3>2
  <2> QED
    BY <1>2, <1>3, <1>7, <2>1, <2>3, <2>4 DEF KeyInv
<1> QED
  BY <1>2, <1>4, <1>5, <1>8, <1>9, <1>10, <1>11, <1>12 DEF IInv, BaseInv

\* The configuration of the command line: that of a new repository, if there was none.
LEMMA InitFolderInv == ASSUME IInv, NEW p \in Procs, InitFolder(p) PROVE IInv'
<1> DEFINE s == IF exists[p] THEN "previous" ELSE "write"
           c == NewConfig(p)
<1>1. /\ BaseInv /\ Active(p) /\ op[p] = "init" /\ step[p] = "folder" /\ Go(p, s)
      /\ UNCHANGED <<setting, configVars, objects, manifests, commandVars, exists, listVars>>
      /\ snapshots' = snapshots
      /\ conf' = [conf EXCEPT ![p] = c] /\ folder' = (folder \/ Folder.folders)
  BY StepFacts DEF IInv, BaseInv, InitFolder, Active
<1>2. /\ id[p] \in Ids /\ id[p] <= count /\ args[p].comp \in Compressions /\ args[p].format \in {1, 2}
      /\ args[p].pub \in KeyPairs \cup {None} /\ count \in Nat
  BY <1>1, RepositoryAssumption DEF BaseInv, CommandInv, TypeOK, ArgsType
<1>3. /\ NewEncryption(p) \in Encryptions
      /\ NewEncryption(p).gen <= NewEncryption(p).key /\ NewEncryption(p).key <= count
  BY <1>2, RepositoryAssumption DEF NewEncryption, Encryptions, NoEncryption, Ids, Plain
<1>4. c \in Configs /\ Bounded(c)
  BY <1>2, <1>3 DEF NewConfig, Configs, Bounded
<1>5. s \in {"previous", "write", "save"} /\ s \in StepsOf(op[p]) /\ s # "save"
  BY <1>1 DEF StepsOf
<1>6. folder' \in BOOLEAN /\ (folder => folder')
  BY <1>1, SettingFacts DEF BaseInv, TypeOK
<1>7. s = "write" /\ KeepsKey(setting) => config = NoConfig /\ established = NoConfig
  BY <1>1 DEF IInv, IdentityInv
<1>8. ~Readable(NoConfig)
  BY ConfigFacts
<1>9. s = "write" /\ Safe(setting) => Opens(c)
  <2> SUFFICES ASSUME s = "write", Safe(setting) PROVE Opens(c)
    OBVIOUS
  <2>1. /\ \A i \in Ids : manifests[i].state # "whole"
        /\ \A n \in Namespaces : n > 0 => \A h \in Compressions : objects[n][h] = Nothing
        /\ \A q \in Procs : ~Creates(q) /\ ~Saved(q)
    BY <1>7 DEF IInv, KeyInv, IdentityInv, Safe, Creates, Saved
  <2>2. /\ c.enc.gen \in Namespaces /\ (Encrypted(c) => c.enc.gen > 0)
        /\ \A n \in Namespaces : n > c.enc.gen => n > 0
    <3>1. c.enc.gen \in 0..(MaxCommands + 1) /\ (Encrypted(c) => c.enc.gen > 0)
      BY <1>4, EncOf
    <3> QED
      BY <3>1, RepositoryAssumption DEF Namespaces
  <2> QED
    BY <2>1, <2>2 DEF Opens
<1>10. Folder.exists = "folder" => folder'
  BY <1>1, SettingFacts DEF BaseInv
<1> HIDE DEF s, c
<1> QED
  BY <1>1, <1>4, <1>5, <1>6, <1>7, <1>8, <1>9, <1>10, HandFrame

\* What a configuration opens depends on its generation and key alone.
LEMMA OpensSame ==
  ASSUME NEW c, NEW d, Opens(c), d.enc.gen = c.enc.gen, d.enc.key = c.enc.key,
         Encrypted(d) <=> Encrypted(c)
  PROVE  Opens(d)
BY DEF Opens

\* updateConfig: the encryption stays; a repository that has none may get one, and has
\* nothing encrypted yet.
LEMMA InitPreviousInv == ASSUME IInv, NEW p \in Procs, InitPrevious(p) PROVE IInv'
<1> DEFINE c == UpdateConfig(p, config)
<1>1. /\ BaseInv /\ Active(p) /\ op[p] = "init" /\ step[p] = "previous" /\ Go(p, "write")
      /\ Readable(config)
      /\ UNCHANGED <<setting, configVars, objects, manifests, commandVars, exists, listVars>>
      /\ folder' = folder /\ snapshots' = snapshots
      /\ conf' = [conf EXCEPT ![p] = c]
  BY StepFacts DEF IInv, BaseInv, InitPrevious, Active, folderVars
<1>2. /\ id[p] \in Ids /\ id[p] <= count /\ args[p].comp \in Compressions
      /\ args[p].pub \in KeyPairs \cup {None} /\ count \in Nat
      /\ KeepsKey(setting) => ~(args[p].pub = None /\ args[p].force)
  BY <1>1, RepositoryAssumption DEF BaseInv, CommandInv, TypeOK, ArgsType
<1>3. /\ NewEncryption(p) \in Encryptions /\ NewEncryption(p).gen \in {0, 1}
      /\ NewEncryption(p).gen <= NewEncryption(p).key /\ NewEncryption(p).key <= count
  BY <1>2, RepositoryAssumption DEF NewEncryption, Encryptions, NoEncryption, Ids, Plain
<1>4. /\ config \in Configs \cup {NoConfig, Torn} /\ config \in Configs /\ Bounded(config)
      /\ config.enc \in Encryptions /\ config.id \in Ids /\ config.format \in {1, 2}
  <2>1. config \in Configs \cup {NoConfig, Torn} /\ Bounded(config)
    BY <1>1 DEF BaseInv, TypeOK, ConfInv
  <2> QED
    BY <1>1, <2>1, EncOf, ConfigFacts
<1>5. /\ c.id = config.id /\ c.format = config.format /\ c \in Configs
      /\ c.enc = NewEncryption(p) \/ c.enc = config.enc
      /\ KeepsKey(setting) /\ Encrypted(config) => c.enc = config.enc
      /\ ~Encrypted(config) => c.enc = NewEncryption(p)
  BY <1>2, <1>3, <1>4 DEF UpdateConfig, Configs
<1>6. Bounded(c)
  BY <1>3, <1>4, <1>5 DEF Bounded
<1>7. "write" \in StepsOf(op[p])
  BY <1>1 DEF StepsOf
<1>8. folder' \in BOOLEAN
  BY <1>1 DEF BaseInv, TypeOK
<1>9. Safe(setting) => Opens(c)
  <2> SUFFICES ASSUME Safe(setting) PROVE Opens(c)
    OBVIOUS
  <2>1. Opens(config)
    BY <1>1 DEF IInv, KeyInv
  <2>2. CASE Encrypted(config)
    <3>1. c.enc = config.enc
      BY <1>5, <2>2 DEF Safe
    <3> QED
      BY <2>1, <3>1, OpensSame DEF Encrypted
  <2>3. CASE ~Encrypted(config)
    <3>1. config.enc.gen = 0 /\ c.enc.gen \in {0, 1} /\ (Encrypted(c) => c.enc.gen > 0)
      BY <1>3, <1>4, <1>5, <2>3, EncOf
    <3>2. \A n \in Namespaces : n > 0 => \A h \in Compressions : objects[n][h] = Nothing
      BY <2>1, <2>3, <3>1 DEF Opens
    <3>3. \A i \in Ids : ~(manifests[i].state = "whole" /\ manifests[i].keyed)
      BY <2>1, <2>3 DEF Opens
    <3>4. \A q \in Procs : ~(Creates(q) /\ Keyed(q))
      <4> SUFFICES ASSUME NEW q \in Procs, Creates(q), Keyed(q) PROVE FALSE
        OBVIOUS
      <4>1. conf[q].enc.gen = 0
        BY <2>1, <3>1 DEF Opens
      <4>2. Encrypted(conf[q]) /\ conf[q] \in Configs \cup {NoConfig}
        BY <1>1 DEF BaseInv, ConfInv, TypeOK
      <4> QED
        BY <4>1, <4>2, EncOf
    <3>5. \A q \in Procs : ~(Saved(q) /\ Keyed(q))
      BY <3>4 DEF Saved, Creates
    <3>6. c.enc.gen \in Namespaces /\ \A n \in Namespaces : n > c.enc.gen => n > 0
      BY <3>1, RepositoryAssumption DEF Namespaces
    <3> QED
      BY <3>1, <3>2, <3>3, <3>4, <3>5, <3>6 DEF Opens
  <2> QED
    BY <2>2, <2>3
<1>10. KeepsKey(setting) => c.id = established.id /\ c.format = established.format
  BY <1>1, <1>5 DEF IInv, IdentityInv
<1>11. KeepsKey(setting) /\ Folder.exists = "folder" => folder'
  BY <1>1, ConfigFacts DEF IInv, IdentityInv
<1> HIDE DEF c
<1> QED
  BY <1>1, <1>5, <1>6, <1>7, <1>8, <1>9, <1>10, <1>11, HandFrame

\* GetConfig and the symmetric key: whoever is about to replace config.json keeps both.
LEMMA CreateReadsInv == ASSUME IInv, NEW p \in Procs, CreateReads(p) PROVE IInv'
<1>1. /\ BaseInv /\ Active(p) /\ op[p] = "create" /\ step[p] = "create" /\ Go(p, "save")
      /\ Readable(config) /\ (Keyed(p) => Encrypted(config))
      /\ UNCHANGED <<setting, configVars, objects, manifests, commandVars, exists, listVars>>
      /\ folder' = folder /\ snapshots' = snapshots
      /\ conf' = [conf EXCEPT ![p] = config]
  BY StepFacts DEF IInv, BaseInv, CreateReads, Active, Keyed, Unwraps, folderVars
<1>2. config \in Configs \cup {NoConfig, Torn} /\ Bounded(config) /\ folder' \in BOOLEAN
  BY <1>1 DEF BaseInv, TypeOK, ConfInv
<1>3. config \in Configs
  BY <1>1, <1>2, EncOf
<1>4. "save" \in StepsOf(op[p])
  BY <1>1 DEF StepsOf
<1>5. KeepsKey(setting) => established # NoConfig
  BY <1>1, ConfigFacts DEF IInv, IdentityInv
<1>6. ASSUME Keyed(p), Safe(setting), NEW q \in Procs, Writes(q)
      PROVE  config.enc.gen = conf[q].enc.gen /\ config.enc.key = conf[q].enc.key
  <2>1. Active(q) /\ q # p
    BY <1>1, <1>6 DEF Active, Writes
  <2>2. op[q] \in {"init", "rewrap", "rekey"} /\ op[q] # "rekey"
    BY <1>1, <1>6, <2>1, StepFacts, AloneFacts DEF BaseInv
  <2> QED
    BY <1>1, <1>6, <2>2 DEF IInv, IdentityInv, Safe
<1> QED
  BY <1>1, <1>2, <1>3, <1>4, <1>5, <1>6, HandFrame

\* Rewrap.Do: another wrapping of the same key.
LEMMA RewrapReadsInv == ASSUME IInv, NEW p \in Procs, RewrapReads(p) PROVE IInv'
<1> DEFINE c == [config EXCEPT !.enc.wrap = args[p].pub]
<1>1. /\ BaseInv /\ Active(p) /\ op[p] = "rewrap" /\ step[p] = "rewrap" /\ Go(p, "write")
      /\ Readable(config) /\ Encrypted(config)
      /\ UNCHANGED <<setting, configVars, objects, manifests, commandVars, exists, listVars>>
      /\ folder' = folder /\ snapshots' = snapshots
      /\ conf' = [conf EXCEPT ![p] = c]
  BY StepFacts DEF IInv, BaseInv, RewrapReads, Active, Unwraps, folderVars
<1>2. /\ config \in Configs \cup {NoConfig, Torn} /\ Bounded(config) /\ folder' \in BOOLEAN
      /\ args[p].pub \in KeyPairs
  BY <1>1 DEF BaseInv, TypeOK, ConfInv, CommandInv
<1>3. config \in Configs /\ config.enc \in [gen : 1..(MaxCommands + 1), key : Ids, wrap : KeyPairs]
  <2>1. config \in Configs
    BY <1>1, <1>2, EncOf
  <2> QED
    BY <1>1, <2>1 DEF Configs, Encryptions, Encrypted
<1>4. /\ c \in Configs /\ c.id = config.id /\ c.format = config.format
      /\ c.enc.gen = config.enc.gen /\ c.enc.key = config.enc.key
  <2> DEFINE e == [config.enc EXCEPT !.wrap = args[p].pub]
  <2>1. e \in Encryptions /\ e.gen = config.enc.gen /\ e.key = config.enc.key
    BY <1>2, <1>3 DEF Encryptions
  <2>2. c = [config EXCEPT !.enc = e]
    OBVIOUS
  <2> HIDE DEF e
  <2> QED
    BY <1>3, <2>1, <2>2 DEF Configs
<1>5. Bounded(c) /\ Encrypted(c)
  <2>1. c.enc.gen > 0 /\ c \in Configs \cup {NoConfig, Torn}
    BY <1>3, <1>4
  <2> HIDE DEF c
  <2>2. Encrypted(c)
    BY <2>1, EncOf
  <2> QED
    BY <1>2, <1>4, <2>2 DEF Bounded
<1>6. "write" \in StepsOf(op[p])
  BY <1>1 DEF StepsOf
<1>7. Safe(setting) => Opens(c)
  BY <1>1, <1>4, <1>5, OpensSame DEF IInv, KeyInv
<1>8. KeepsKey(setting) => c.id = established.id /\ c.format = established.format
  BY <1>1, <1>4 DEF IInv, IdentityInv
<1>9. KeepsKey(setting) /\ Folder.exists = "folder" => folder'
  BY <1>1, ConfigFacts DEF IInv, IdentityInv
<1> HIDE DEF c
<1> QED
  BY <1>1, <1>2, <1>4, <1>5, <1>6, <1>7, <1>8, <1>9, HandFrame

-----------------------------------------------------------------------------
(* A command starts.                                                         *)

\* The arguments a command is given.
LEMMA ArgumentFacts ==
  ASSUME TypeOK, NEW o \in Operations, NEW a \in Arguments(o)
  PROVE  /\ a \in ArgsType
         /\ o = "init" => /\ a.comp \in Compressions /\ a.format \in {1, 2}
                          /\ KeepsKey(setting) => (a.pub = None => ~a.force)
         /\ o \in {"rewrap", "rekey"} => a.pub \in KeyPairs
<1>1. NoArgs \in ArgsType
  BY DEF NoArgs, ArgsType
<1>2. CASE o = "init"
  <2>1. PICK b \in setting.inits :
          a = [priv |-> None, pub |-> b.pub, force |-> b.force, comp |-> b.comp, format |-> b.format]
    BY <1>2 DEF Arguments
  <2>2. b \in InitArgs
    BY SettingFacts DEF SettingType
  <2> QED
    BY <1>2, <2>1, <2>2 DEF InitArgs, ArgsType, KeepsKey
<1>3. CASE o = "create"
  BY <1>1, <1>3 DEF Arguments, ArgsType
<1>4. CASE o \in {"rewrap", "rekey"}
  <2>1. a \in [priv : KeyPairs, pub : KeyPairs, force : {FALSE}, comp : {None}, format : {0}]
    BY <1>4 DEF Arguments
  <2>2. {FALSE} \subseteq BOOLEAN /\ {0} \subseteq 0..2
    OBVIOUS
  <2>3. a \in ArgsType
    BY <2>1, <2>2 DEF ArgsType
  <2> QED
    BY <1>4, <2>1, <2>3
<1>5. CASE o = "list"
  BY <1>1, <1>5 DEF Arguments
<1> QED
  BY <1>2, <1>3, <1>4, <1>5 DEF Operations

\* The command has a number nobody has used, and starts beside those it is compatible with.
LEMMA StartCommandInv ==
  ASSUME IInv, NEW p \in Procs, NEW o \in Operations, StartCommand(p, o)
  PROVE  IInv'
<1> USE DEF configVars, listVars, folderVars
<1> DEFINE s == IF o = "init" THEN "exists" ELSE o
<1>1. /\ BaseInv /\ ~Active(p) /\ o \in setting.menu /\ count < setting.max /\ Compatible(o)
      /\ count' = count + 1 /\ id' = [id EXCEPT ![p] = count + 1]
      /\ op' = [op EXCEPT ![p] = o] /\ step' = [step EXCEPT ![p] = s]
      /\ UNCHANGED <<setting, folderVars, configVars, objects, manifests, conf, exists, listVars>>
  BY DEF IInv, StartCommand, Active
<1>2. PICK a \in Arguments(o) : args' = [args EXCEPT ![p] = a]
  BY DEF StartCommand
<1>3. /\ a \in ArgsType
      /\ o = "init" => /\ a.comp \in Compressions /\ a.format \in {1, 2}
                       /\ KeepsKey(setting) => (a.pub = None => ~a.force)
      /\ o \in {"rewrap", "rekey"} => a.pub \in KeyPairs
  BY <1>1, ArgumentFacts DEF BaseInv
<1>4. /\ count \in Nat /\ count + 1 \in Ids /\ count + 1 \in 0..MaxCommands
  BY <1>1, SettingFacts, RepositoryAssumption DEF BaseInv, TypeOK, Ids
<1>5. s \in Steps /\ s \in StepsOf(o) /\ s \in {"exists", "create", "rewrap", "rekey", "list"}
  BY DEF Operations, Steps, StepsOf
<1>6. /\ step' \in [Procs -> Steps] /\ op' \in [Procs -> Operations \cup {None}]
      /\ id' \in [Procs -> 0..MaxCommands] /\ args' \in [Procs -> ArgsType]
      /\ step'[p] = s /\ op'[p] = o /\ id'[p] = count + 1 /\ args'[p] = a
      /\ \A q \in Procs : q # p => /\ step'[q] = step[q] /\ op'[q] = op[q]
                                   /\ id'[q] = id[q] /\ args'[q] = args[q]
  BY <1>1, <1>2, <1>3, <1>4, <1>5 DEF BaseInv, TypeOK
<1> HIDE DEF s
<1>7. TypeOK'
  BY <1>1, <1>4, <1>6 DEF BaseInv, TypeOK
<1>8. CommandInv'
  <2>1. ASSUME NEW q \in Procs, Active(q)'
        PROVE  /\ op'[q] \in setting.menu /\ step'[q] \in StepsOf(op'[q]) /\ id'[q] \in Ids /\ id'[q] <= count'
               /\ op'[q] = "init" => /\ args'[q].comp \in Compressions /\ args'[q].format \in {1, 2}
                                     /\ KeepsKey(setting) => (args'[q].pub = None => ~args'[q].force)
               /\ op'[q] \in {"rewrap", "rekey"} => args'[q].pub \in KeyPairs
    <3>1. CASE q = p
      BY <1>1, <1>3, <1>4, <1>5, <1>6, <3>1
    <3>2. CASE q # p
      <4>1. Active(q)
        BY <1>6, <2>1, <3>2 DEF Active
      <4>2. id[q] \in Nat
        BY <1>1, <4>1 DEF BaseInv, CommandInv, Ids
      <4> QED
        BY <1>1, <1>4, <1>6, <3>2, <4>1, <4>2 DEF BaseInv, CommandInv
    <3> QED
      BY <3>1, <3>2
  <2>2. ASSUME NEW q \in Procs, q # p, Active(q)
        PROVE  /\ id[q] # count + 1
               /\ \/ o = "list" \/ op[q] = "list"
                  \/ o = "create" /\ op[q] \in {"create", "init"}
                  \/ o = "init" /\ op[q] = "create"
    <3>1. id[q] \in Nat /\ id[q] <= count
      BY <1>1, <2>2 DEF BaseInv, CommandInv, Ids
    <3>2. "list" \in {o, op[q]} \/ {o, op[q]} \in {{"create"}, {"create", "init"}}
      BY <1>1, <2>2 DEF Compatible, Active
    <3>3. CASE {o, op[q]} = {"create"}
      BY <1>4, <3>1, <3>3
    <3>4. CASE {o, op[q]} = {"create", "init"}
      <4>1. o \in {"create", "init"} /\ op[q] \in {"create", "init"} /\ o # op[q]
        BY <3>4
      <4> QED
        BY <1>4, <3>1, <4>1
    <3> QED
      BY <1>4, <3>1, <3>2, <3>3, <3>4
  <2>3. \A q \in Procs : q # p => (Active(q)' <=> Active(q))
    BY <1>6 DEF Active
  <2>4. ASSUME NEW q \in Procs, NEW r \in Procs, q # r, Active(q)', Active(r)'
        PROVE  /\ id'[q] # id'[r]
               /\ \/ op'[q] = "list" \/ op'[r] = "list"
                  \/ op'[q] = "create" /\ op'[r] \in {"create", "init"}
                  \/ op'[q] = "init" /\ op'[r] = "create"
    <3>1. CASE q = p
      BY <1>6, <2>2, <2>3, <2>4, <3>1
    <3>2. CASE r = p
      BY <1>6, <2>2, <2>3, <2>4, <3>2
    <3>3. CASE q # p /\ r # p
      BY <1>1, <1>6, <2>3, <2>4, <3>3 DEF BaseInv, CommandInv
    <3> QED
      BY <3>1, <3>2, <3>3
  <2> QED
    BY <1>1, <2>1, <2>4 DEF CommandInv
<1>9. /\ \A q \in Procs : Writes(q)' => Writes(q) /\ q # p
      /\ \A q \in Procs : Creates(q)' => Creates(q) /\ q # p
      /\ \A q \in Procs : Saved(q)' => Saved(q) /\ q # p
      /\ \A q \in Procs : q # p => (Keyed(q)' <=> Keyed(q)) /\ (Active(q)' => Active(q))
      /\ Folder' = Folder /\ InPlace' = InPlace /\ Retracts' = Retracts /\ backend' = backend
  BY <1>1, <1>5, <1>6 DEF Writes, Creates, Saved, Keyed, Active, Folder, InPlace, Retracts, backend
<1>10. ConfInv'
  <2>1. /\ config.enc.key \in Nat /\ \A q \in Procs : conf[q].enc.key \in Nat
        /\ Bounded(config) /\ \A q \in Procs : Bounded(conf[q])
    <3>1. config.enc.key \in 0..MaxCommands /\ \A q \in Procs : conf[q].enc.key \in 0..MaxCommands
      BY <1>1, EncOf DEF BaseInv, TypeOK
    <3> QED
      BY <1>1, <3>1 DEF BaseInv, ConfInv
  <2>2. Bounded(config)' /\ \A q \in Procs : Bounded(conf[q])'
    BY <1>1, <1>4, <2>1 DEF Bounded
  <2>3. config.enc.key < id'[p]
    BY <1>4, <1>6, <2>1 DEF Bounded
  <2> QED
    BY <1>1, <1>5, <1>6, <1>9, <2>2, <2>3 DEF BaseInv, ConfInv
<1>11. ManifestInv'
  <2>1. \A i \in Ids : i \in Nat
    BY DEF Ids
  <2>2. manifests[count + 1].state = "none"
    BY <1>1, <1>4 DEF BaseInv, ManifestInv
  <2>3. \A i \in Ids : i > count + 1 => i > count
    BY <1>4, <2>1
  <2>4. \A q \in Procs : q # p /\ Active(q)' =>
          IF step[q] = "publishing"
          THEN /\ manifests[id[q]].state = "whole" => Retracts
               /\ manifests[id[q]].comp = conf[q].comp /\ manifests[id[q]].keyed = Keyed(q)'
          ELSE manifests[id[q]].state = "none"
    BY <1>1, <1>9 DEF BaseInv, ManifestInv, Keyed
  <2>5. ASSUME NEW q \in Procs, Active(q)'
        PROVE  IF step'[q] = "publishing"
               THEN /\ manifests'[id'[q]].state = "whole" => Retracts
                    /\ manifests'[id'[q]].comp = conf'[q].comp /\ manifests'[id'[q]].keyed = Keyed(q)'
               ELSE manifests'[id'[q]].state = "none"
    <3>1. CASE q = p
      BY <1>1, <1>5, <1>6, <2>2, <3>1
    <3>2. CASE q # p
      BY <1>1, <1>6, <2>4, <2>5, <3>2
    <3> QED
      BY <3>1, <3>2
  <2> QED
    BY <1>1, <1>9, <2>3, <2>5 DEF BaseInv, ManifestInv
<1>12. PlainInv'
  BY <1>1, <1>6, <1>9 DEF BaseInv, PlainInv
<1>13. ListInv'
  <2>1. \A q \in Procs : Active(q)' => id'[q] = count + 1 \/ (Active(q) /\ id'[q] = id[q])
    BY <1>6, <1>9
  <2>2. \A i \in Ids : i <= count => i <= count + 1 /\ i # count + 1
    BY <1>4 DEF Ids
  <2>3. \A i \in Ids : Retracted(i) => Retracted(i)'
    BY <1>1, <1>9, <2>1, <2>2 DEF Retracted
  <2>4. \A q \in Procs : op[q] = "list" /\ step[q] = "idle" => whole[q] \subseteq listed[q]
    BY <1>1 DEF BaseInv, ListInv
  <2>5. \A q \in Procs : ListKept(q)
    BY <1>1, <1>5, <1>6, <2>4 DEF ListKept
  <2> QED
    BY <1>1, <2>3, <2>5, ListFrame
<1>14. (KeepsKey(setting) => IdentityInv)'
  BY <1>1, <1>5, <1>6, <1>9 DEF IInv, IdentityInv
<1>15. (Safe(setting) => KeyInv)'
  <2>1. ASSUME NEW c, Opens(c) PROVE Opens(c)'
    BY <1>1, <1>9, <2>1 DEF Opens
  <2> SUFFICES ASSUME Safe(setting) PROVE KeyInv'
    BY <1>1
  <2>2. KeyInv
    BY DEF IInv
  <2>3. Readable(config) => Opens(config)'
    BY <1>1, <2>1, <2>2 DEF KeyInv
  <2>4. ASSUME NEW q \in Procs, Writes(q)' PROVE Opens(conf[q])'
    BY <1>1, <1>9, <2>1, <2>2, <2>4 DEF KeyInv
  <2> QED
    BY <1>1, <1>5, <1>6, <1>9, <2>2, <2>3, <2>4 DEF KeyInv
<1> QED
  BY <1>7, <1>8, <1>10, <1>11, <1>12, <1>13, <1>14, <1>15 DEF IInv, BaseInv

-----------------------------------------------------------------------------
(* snapshot create                                                           *)

\* The object is there afterwards: without a key in objects/, with the key in force in the
\* active generation.
LEMMA CreateSavesInv == ASSUME IInv, NEW p \in Procs, CreateSaves(p) PROVE IInv'
<1> USE DEF commandVars, configVars, listVars, folderVars
<1> DEFINE ns == Namespace(p)
           k == Key(p)
           h == conf[p].comp
<1>1. /\ BaseInv /\ Active(p) /\ op[p] = "create" /\ step[p] = "save" /\ Creates(p) /\ Go(p, "publish")
      /\ UNCHANGED <<setting, folderVars, configVars, manifests, commandVars, conf, exists, listVars>>
      /\ objects' = IF objects[ns][h] # Nothing THEN objects ELSE [objects EXCEPT ![ns][h] = k]
  BY StepFacts DEF IInv, BaseInv, CreateSaves, Active, Creates
<1>2. "publish" \in StepsOf(op[p])
  BY <1>1 DEF StepsOf
<1>3. /\ CommandInv' /\ step' \in [Procs -> Steps] /\ step'[p] = "publish"
      /\ \A q \in Procs : q # p => step'[q] = step[q]
  BY <1>1, <1>2, MoveFacts
<1>4. conf[p] \in Configs /\ (Keyed(p) => Encrypted(conf[p]))
  BY <1>1 DEF BaseInv, ConfInv
<1>5. /\ h \in Compressions /\ ns \in Namespaces /\ k \in Ids \cup {Plain}
      /\ IF Keyed(p) THEN ns = conf[p].enc.gen /\ ns > 0 /\ k = conf[p].enc.key /\ k \in Ids
         ELSE ns = 0 /\ k = Plain
  <2>1. /\ conf[p].enc.gen \in 0..(MaxCommands + 1)
        /\ Encrypted(conf[p]) => conf[p].enc.gen > 0 /\ conf[p].enc.key \in Ids
        /\ conf[p].comp \in Compressions
    BY <1>4, EncOf, ConfigFacts
  <2> QED
    BY <1>4, <2>1, RepositoryAssumption DEF Namespace, Key, Namespaces
<1>6. Nothing \notin Ids /\ Nothing # Plain
  BY RepositoryAssumption DEF Nothing, Ids, Plain
<1> HIDE DEF ns, k, h
<1>7. /\ objects' \in [Namespaces -> [Compressions -> Ids \cup {Plain, Nothing}]]
      /\ \A n \in Namespaces : \A g \in Compressions :
           \/ objects'[n][g] = objects[n][g]
           \/ n = ns /\ g = h /\ objects[n][g] = Nothing /\ objects'[n][g] = k
      /\ objects'[ns][h] # Nothing
  <2>1. objects \in [Namespaces -> [Compressions -> Ids \cup {Plain, Nothing}]]
    BY <1>1 DEF BaseInv, TypeOK
  <2>2. CASE objects[ns][h] # Nothing
    BY <1>1, <2>1, <2>2
  <2>3. CASE objects[ns][h] = Nothing
    <3> DEFINE row == [objects[ns] EXCEPT ![h] = k]
    <3>1. objects' = [objects EXCEPT ![ns] = row]
      BY <1>1, <2>3
    <3>2. /\ row \in [Compressions -> Ids \cup {Plain, Nothing}] /\ row[h] = k
          /\ \A g \in Compressions : g # h => row[g] = objects[ns][g]
      BY <1>5, <2>1
    <3> HIDE DEF row
    <3>3. objects'[ns] = row /\ \A n \in Namespaces : n # ns => objects'[n] = objects[n]
      BY <1>5, <2>1, <3>1
    <3> QED
      BY <1>5, <1>6, <2>1, <2>3, <3>1, <3>2, <3>3
  <2> QED
    BY <2>2, <2>3
<1>8. TypeOK'
  <2>1. \A n \in Namespaces : \A g \in Compressions :
          objects'[n][g] \in IF n = 0 THEN {Plain, Nothing} ELSE Ids \cup {Nothing}
    BY <1>1, <1>5, <1>7 DEF BaseInv, TypeOK
  <2> QED
    BY <1>1, <1>3, <1>7, <2>1 DEF BaseInv, TypeOK
<1>9. /\ \A q \in Procs : Keyed(q)' = Keyed(q)
      /\ \A q \in Procs : Writes(q)' = Writes(q) /\ Creates(q)' = Creates(q) /\ Active(q)' = Active(q)
      /\ \A q \in Procs : q # p => Saved(q)' = Saved(q)
      /\ Folder' = Folder /\ InPlace' = InPlace /\ Retracts' = Retracts /\ backend' = backend
  BY <1>1, <1>3 DEF Keyed, Writes, Creates, Active, Saved, Folder, InPlace, Retracts, backend
<1>10. ConfInv' /\ ListInv'
  <2>1. ListInv'
    BY <1>1, <1>9, ListKeeps, QuietList
  <2> QED
    BY <1>1, <1>3, <1>9, <2>1 DEF BaseInv, ConfInv, Bounded
<1>11. ManifestInv'
  BY <1>1, <1>3, <1>9 DEF BaseInv, ManifestInv
<1>12. PlainInv'
  <2>1. 0 \in Namespaces
    BY RepositoryAssumption DEF Namespaces
  <2>2. \A g \in Compressions : objects[0][g] = Plain => objects'[0][g] = Plain
    BY <1>6, <1>7, <2>1
  <2>3. ~Keyed(p) => objects'[0][h] = Plain
    BY <1>5, <1>7, <1>8, <2>1 DEF TypeOK
  <2>4. \A q \in Procs : Saved(q) => conf[q].comp \in Compressions
    BY <1>1, ConfigFacts DEF BaseInv, ConfInv, Saved, Creates
  <2>5. \A i \in Ids : manifests[i].state = "whole" => manifests[i].comp \in Compressions
    BY <1>1 DEF BaseInv, ManifestInv
  <2>6. \A i \in Ids : manifests[i].state = "whole" /\ ~manifests[i].keyed =>
          objects'[0][manifests[i].comp] = Plain
    BY <1>1, <2>2, <2>5 DEF BaseInv, PlainInv
  <2>7. ASSUME NEW q \in Procs, Saved(q)', ~Keyed(q) PROVE objects'[0][conf[q].comp] = Plain
    <3>1. CASE q = p
      BY <2>3, <2>7, <3>1 DEF h
    <3>2. CASE q # p
      BY <1>1, <1>9, <2>2, <2>4, <2>7, <3>2 DEF BaseInv, PlainInv
    <3> QED
      BY <3>1, <3>2
  <2> QED
    BY <1>1, <1>9, <2>6, <2>7 DEF PlainInv
<1>13. (KeepsKey(setting) => IdentityInv)'
  BY <1>1, <1>3, <1>9 DEF IInv, IdentityInv
<1>14. (Safe(setting) => KeyInv)'
  <2> SUFFICES ASSUME Safe(setting) PROVE KeyInv'
    BY <1>1
  <2>1. KeyInv /\ established # NoConfig
    BY <1>1 DEF IInv, IdentityInv, Safe
  <2>2. ASSUME NEW c \in Configs, Opens(c) PROVE Opens(c)'
    <3>1. /\ c.enc.gen \in Namespaces /\ c.enc.gen \in Nat /\ c.enc.key # Nothing
          /\ Encrypted(c) => c.enc.gen > 0
      BY <2>2, EncOf, RepositoryAssumption DEF Namespaces, Nothing
    <3>2. Keyed(p) => c.enc.gen = ns /\ c.enc.key = k /\ Encrypted(c)
      <4>1. Keyed(p) => c.enc.gen = ns /\ c.enc.key = k
        BY <1>1, <1>5, <2>2 DEF Opens
      <4> QED
        BY <1>5, <2>2, <4>1, EncOf
    <3>3. Encrypted(c) => \A g \in Compressions : objects'[c.enc.gen][g] \in {c.enc.key, Nothing}
      BY <1>5, <1>7, <2>2, <3>1, <3>2 DEF Opens
    <3>4. ASSUME NEW n \in Namespaces, n > c.enc.gen, NEW g \in Compressions, objects'[n][g] # Nothing
          PROVE  n = c.enc.gen + 1 /\ Encrypted(c) /\ objects'[c.enc.gen][g] # Nothing
      <4>1. n # ns
        BY <1>5, <3>1, <3>2, <3>4 DEF Namespaces
      <4>2. objects'[n][g] = objects[n][g]
        BY <1>7, <4>1
      <4>3. n = c.enc.gen + 1 /\ Encrypted(c) /\ objects[c.enc.gen][g] # Nothing
        BY <2>2, <3>4, <4>2 DEF Opens
      <4> QED
        BY <1>7, <3>1, <4>3
    <3>5. ASSUME NEW i \in Ids, manifests[i].state = "whole", manifests[i].keyed
          PROVE  Encrypted(c) /\ objects'[c.enc.gen][manifests[i].comp] = c.enc.key
      <4>1. manifests[i].comp \in Compressions
        BY <1>1, <3>5 DEF BaseInv, ManifestInv
      <4> QED
        BY <1>7, <2>2, <3>1, <3>5, <4>1 DEF Opens
    <3>6. ASSUME NEW q \in Procs, Saved(q)', Keyed(q)
          PROVE  objects'[c.enc.gen][conf[q].comp] = c.enc.key
      <4>1. CASE q = p
        BY <1>5, <1>7, <3>2, <3>3, <3>6, <4>1 DEF h
      <4>2. CASE q # p
        <5>1. Saved(q) /\ conf[q].comp \in Compressions
          BY <1>1, <1>9, <3>6, <4>2, ConfigFacts DEF BaseInv, ConfInv, Saved, Creates
        <5> QED
          BY <1>7, <2>2, <3>1, <3>6, <5>1 DEF Opens
      <4> QED
        BY <4>1, <4>2
    <3> QED
      BY <1>1, <1>9, <2>2, <3>3, <3>4, <3>5, <3>6 DEF Opens
  <2>3. Readable(config) => Opens(config)'
    BY <1>1, <2>1, <2>2, EncOf DEF KeyInv, BaseInv, TypeOK
  <2>4. ASSUME NEW q \in Procs, Writes(q)' PROVE Opens(conf[q])'
    BY <1>1, <1>9, <2>1, <2>2, <2>4 DEF KeyInv, BaseInv, ConfInv
  <2> QED
    BY <1>1, <1>3, <1>9, <2>1, <2>3, <2>4 DEF KeyInv
<1> QED
  BY <1>3, <1>8, <1>10, <1>11, <1>12, <1>13, <1>14 DEF IInv, BaseInv

\* Save of the manifest begins, or ends well or badly: the object the manifest refers to is
\* stored, and whoever reads or will read config.json can open it.
LEMMA PublishFrame ==
  ASSUME IInv, NEW p \in Procs, Saved(p), NEW s \in {"publishing", "idle"}, Go(p, s),
         NEW m \in [state : {"none", "torn", "whole"}, comp : Compressions \cup {None}, keyed : BOOLEAN],
         m.comp = conf[p].comp, m.keyed = Keyed(p), manifests' = [manifests EXCEPT ![id[p]] = m],
         s = "publishing" /\ m.state = "whole" => Retracts,
         manifests[id[p]].state = "whole" /\ m.state # "whole" => m.state = "none" /\ s = "idle",
         UNCHANGED <<setting, folder, configVars, objects, commandVars, conf, exists>>,
         snapshots' \in BOOLEAN, UNCHANGED listVars \/ ForgetListing(p)
  PROVE  IInv'
<1> USE DEF commandVars, configVars
<1>1. BaseInv /\ Active(p) /\ Creates(p) /\ op[p] = "create"
  BY StepFacts DEF IInv, BaseInv, Active, Saved, Creates
<1>2. s \in StepsOf(op[p]) \cup {"idle"}
  BY <1>1 DEF StepsOf
<1>3. /\ CommandInv' /\ step' \in [Procs -> Steps] /\ step'[p] = s
      /\ \A q \in Procs : q # p => step'[q] = step[q]
  BY <1>1, <1>2, MoveFacts
<1>4. /\ id[p] \in Ids /\ id[p] <= count /\ conf[p] \in Configs /\ conf[p].comp \in Compressions
      /\ manifests[id[p]].state = "whole" => Retracts
      /\ \A q \in Procs : q # p /\ Active(q) => id[q] # id[p] /\ id[q] \in Ids
  BY <1>1, ConfigFacts DEF BaseInv, CommandInv, ManifestInv, ConfInv
<1>5. /\ manifests' \in [Ids -> [state : {"none", "torn", "whole"}, comp : Compressions \cup {None},
                                 keyed : BOOLEAN]]
      /\ manifests'[id[p]] = m /\ \A i \in Ids : i # id[p] => manifests'[i] = manifests[i]
  BY <1>1, <1>4 DEF BaseInv, TypeOK
<1>6. /\ whole' \in [Procs -> SUBSET Ids] /\ passed' \in [Procs -> SUBSET Ids]
      /\ entries' \in [Procs -> SUBSET Ids] /\ listed' \in [Procs -> SUBSET Ids]
      /\ \A q \in Procs : ListKept(q)
  BY <1>1, ListKeeps
<1>7. TypeOK'
  BY <1>1, <1>3, <1>5, <1>6 DEF BaseInv, TypeOK
<1>8. /\ \A q \in Procs : Keyed(q)' = Keyed(q)
      /\ \A q \in Procs : q # p => /\ Writes(q)' = Writes(q) /\ Creates(q)' = Creates(q)
                                   /\ Active(q)' = Active(q) /\ Saved(q)' = Saved(q)
      /\ ~Writes(p)' /\ (Active(p)' <=> s # "idle")
      /\ Folder' = Folder /\ InPlace' = InPlace /\ Retracts' = Retracts /\ backend' = backend
  BY <1>1, <1>3 DEF Keyed, Writes, Creates, Active, Saved, Folder, InPlace, Retracts, backend
<1>9. ConfInv'
  BY <1>1, <1>3, <1>8 DEF BaseInv, ConfInv, Bounded
<1>10. ListInv'
  <2>1. ASSUME NEW i \in Ids, manifests[i].state = "whole", manifests'[i].state # "whole"
        PROVE  Retracted(i)'
    <3>1. i = id[p] /\ m.state = "none" /\ s = "idle" /\ Retracts
      BY <1>4, <1>5, <2>1
    <3> QED
      BY <1>4, <1>5, <1>8, <3>1 DEF Retracted
  <2>2. ASSUME NEW i \in Ids, Retracted(i) PROVE Retracted(i)'
    <3>1. i # id[p]
      BY <1>1, <2>2 DEF Retracted
    <3> QED
      BY <1>1, <1>5, <1>8, <2>2, <3>1 DEF Retracted
  <2> QED
    BY <1>1, <1>6, <2>1, <2>2, ListFrame
<1>11. ManifestInv'
  <2>1. \A i \in Ids : i > count => i # id[p] /\ manifests'[i].state = "none"
    BY <1>1, <1>5 DEF BaseInv, ManifestInv, CommandInv, Ids, TypeOK
  <2>2. \A i \in Ids : manifests'[i].state = "whole" => manifests'[i].comp \in Compressions
    BY <1>1, <1>4, <1>5 DEF BaseInv, ManifestInv
  <2>3. ASSUME NEW q \in Procs, Active(q)'
        PROVE  IF step'[q] = "publishing"
               THEN /\ manifests'[id[q]].state = "whole" => Retracts
                    /\ manifests'[id[q]].comp = conf[q].comp /\ manifests'[id[q]].keyed = Keyed(q)
               ELSE manifests'[id[q]].state = "none"
    <3>1. CASE q = p
      BY <1>3, <1>5, <1>8, <2>3, <3>1
    <3>2. CASE q # p
      BY <1>1, <1>3, <1>4, <1>5, <1>8, <2>3, <3>2 DEF BaseInv, ManifestInv
    <3> QED
      BY <3>1, <3>2
  <2> QED
    BY <1>8, <2>1, <2>2, <2>3 DEF ManifestInv
<1>12. PlainInv'
  <2>1. ~Keyed(p) => objects[0][conf[p].comp] = Plain
    BY <1>1 DEF BaseInv, PlainInv
  <2>2. \A i \in Ids : manifests'[i].state = "whole" /\ ~manifests'[i].keyed =>
          objects[0][manifests'[i].comp] = Plain
    BY <1>1, <1>5, <2>1 DEF BaseInv, PlainInv
  <2> QED
    BY <1>1, <1>8, <2>1, <2>2 DEF BaseInv, PlainInv
<1>13. (KeepsKey(setting) => IdentityInv)'
  BY <1>1, <1>3, <1>8 DEF IInv, IdentityInv, Active
<1>14. (Safe(setting) => KeyInv)'
  <2> SUFFICES ASSUME Safe(setting) PROVE KeyInv'
    OBVIOUS
  <2>1. KeyInv /\ established # NoConfig
    BY <1>1 DEF IInv, IdentityInv, Safe
  <2>2. ASSUME NEW c \in Configs, Opens(c) PROVE Opens(c)'
    <3>1. Keyed(p) => Encrypted(c) /\ objects[c.enc.gen][conf[p].comp] = c.enc.key
      <4>1. Keyed(p) => /\ objects[c.enc.gen][conf[p].comp] = c.enc.key
                        /\ c.enc.gen = conf[p].enc.gen /\ Encrypted(conf[p])
        BY <1>1, <2>2 DEF Opens, BaseInv, ConfInv
      <4>2. Encrypted(conf[p]) => conf[p].enc.gen > 0
        BY <1>4, EncOf
      <4>3. ~Encrypted(c) => c.enc.gen = 0
        BY <2>2, EncOf
      <4> QED
        BY <4>1, <4>2, <4>3
    <3>2. \A i \in Ids : manifests'[i].state = "whole" /\ manifests'[i].keyed =>
            Encrypted(c) /\ objects[c.enc.gen][manifests'[i].comp] = c.enc.key
      BY <1>5, <2>2, <3>1 DEF Opens
    <3>3. \A q \in Procs : (Creates(q)' => Creates(q)) /\ (Saved(q)' => Saved(q))
      BY <1>1, <1>8
    <3> QED
      BY <1>8, <2>2, <3>2, <3>3 DEF Opens
  <2>3. Readable(config) => Opens(config)'
    BY <1>1, <2>1, <2>2, EncOf DEF KeyInv, BaseInv, TypeOK
  <2>4. ASSUME NEW q \in Procs, Writes(q)' PROVE Opens(conf[q])'
    BY <1>1, <1>8, <2>1, <2>2, <2>4 DEF KeyInv, BaseInv, ConfInv
  <2> QED
    BY <1>3, <1>8, <2>1, <2>3, <2>4 DEF KeyInv
<1> QED
  BY <1>3, <1>7, <1>9, <1>10, <1>11, <1>12, <1>13, <1>14 DEF IInv, BaseInv

\* ManifestRepository.Save begins; only over SSH may what it has written be read already.
LEMMA PublishStartsInv == ASSUME IInv, NEW p \in Procs, PublishStarts(p) PROVE IInv'
<1>1. /\ BaseInv /\ TypeOK /\ Active(p) /\ step[p] = "publish" /\ Saved(p) /\ Creates(p)
      /\ Go(p, "publishing")
      /\ UNCHANGED <<setting, folder, configVars, objects, commandVars, conf, exists, listVars>>
      /\ snapshots' = (snapshots \/ Folder.publishing = "creates")
  BY DEF IInv, BaseInv, PublishStarts, Active, Creates, Saved
<1>2. PICK s \in ManifestSaveOf(backend).open :
        manifests' = [manifests EXCEPT ![id[p]] =
                        [state |-> s, comp |-> conf[p].comp, keyed |-> Keyed(p)]]
  BY DEF PublishStarts
<1> DEFINE m == [state |-> s, comp |-> conf[p].comp, keyed |-> Keyed(p)]
<1>3. manifests[id[p]].state = "none" /\ conf[p].comp \in Compressions /\ snapshots' \in BOOLEAN
  BY <1>1, ConfigFacts DEF BaseInv, TypeOK, ManifestInv, ConfInv
<1>4. /\ m \in [state : {"none", "torn", "whole"}, comp : Compressions \cup {None}, keyed : BOOLEAN]
      /\ m.comp = conf[p].comp /\ m.keyed = Keyed(p) /\ (m.state = "whole" => Retracts)
      /\ manifests' = [manifests EXCEPT ![id[p]] = m]
  BY <1>1, <1>2, <1>3, SettingFacts DEF Keyed, Retracts
<1> HIDE DEF m
<1> QED
  BY <1>1, <1>3, <1>4, PublishFrame

\* Save of the manifest ends.
LEMMA PublishEnds ==
  ASSUME IInv, NEW p \in Procs, step[p] = "publishing", NEW s \in {"none", "torn", "whole"},
         manifests[id[p]].state = "whole" => s # "torn",
         manifests' = [manifests EXCEPT ![id[p]].state = s], Go(p, "idle"),
         UNCHANGED <<setting, folderVars, configVars, objects, commandVars, conf, exists>>,
         UNCHANGED listVars \/ ForgetListing(p)
  PROVE  IInv'
<1> USE DEF folderVars
<1> DEFINE m == [manifests[id[p]] EXCEPT !.state = s]
           R == [state : {"none", "torn", "whole"}, comp : Compressions \cup {None}, keyed : BOOLEAN]
<1>1. /\ BaseInv /\ TypeOK /\ Active(p) /\ Saved(p) /\ Creates(p) /\ snapshots' \in BOOLEAN
  BY DEF IInv, BaseInv, TypeOK, Active, Saved, Creates
<1>2. manifests[id[p]].comp = conf[p].comp /\ manifests[id[p]].keyed = Keyed(p) /\ id[p] \in Ids
  BY <1>1 DEF BaseInv, CommandInv, ManifestInv
<1>3. manifests[id[p]] \in R
  BY <1>1, <1>2 DEF TypeOK
<1>4. /\ m \in R /\ m.state = s /\ m.comp = conf[p].comp /\ m.keyed = Keyed(p)
      /\ manifests' = [manifests EXCEPT ![id[p]] = m]
  BY <1>2, <1>3
<1> HIDE DEF m
<1> QED
  BY <1>1, <1>4, PublishFrame

\* The manifest is there.
LEMMA PublishReturnsInv == ASSUME IInv, NEW p \in Procs, PublishReturns(p) PROVE IInv'
BY PublishEnds DEF PublishReturns

-----------------------------------------------------------------------------
(* CreateConfig                                                              *)

\* While config.json is rewritten in place it may be unreadable, and over SMB be the new one
\* already; only its writer goes on from there.
LEMMA CreateConfigStartsInv == ASSUME IInv, NEW p \in Procs, CreateConfigStarts(p) PROVE IInv'
<1> USE DEF commandVars, configVars, folderVars
<1>1. /\ BaseInv /\ Active(p) /\ step[p] = "write" /\ Writes(p) /\ Go(p, "writing")
      /\ UNCHANGED <<setting, folderVars, objects, manifests, commandVars, conf, exists, listVars>>
      /\ established' = IF established = NoConfig /\ Readable(config') THEN config' ELSE established
  BY DEF IInv, CreateConfigStarts, Active, Writes
<1>2. op[p] \in {"init", "rewrap", "rekey"}
  BY <1>1, StepFacts DEF BaseInv
<1>3. config' = config \/ (config' = Torn /\ InPlace) \/ (config' = conf[p] /\ backend = "smb")
  <2>1. PICK w \in Folder.writing :
          config' = CASE w = "old" -> config [] w = "new" -> conf[p] [] w = "torn" -> Torn
    BY DEF CreateConfigStarts
  <2>2. w \in {"old", "new", "torn"} /\ (w = "new" => backend = "smb")
    BY <1>1, SettingFacts DEF BaseInv
  <2> QED
    BY <2>1, <2>2 DEF InPlace
<1>4. "writing" \in StepsOf(op[p])
  BY <1>2 DEF StepsOf
<1>5. /\ CommandInv' /\ step' \in [Procs -> Steps] /\ step'[p] = "writing"
      /\ \A q \in Procs : q # p => step'[q] = step[q]
  BY <1>1, <1>4, MoveFacts
<1>6. /\ conf[p] \in Configs /\ Bounded(conf[p]) /\ Readable(conf[p]) /\ conf[p] # NoConfig
      /\ conf[p] # Torn /\ ~Readable(Torn) /\ Torn # NoConfig
      /\ config \in Configs \cup {NoConfig, Torn} /\ (Readable(config) => established # NoConfig)
  BY <1>1, ConfigFacts DEF BaseInv, ConfInv, TypeOK
<1>7. \/ established' = established /\ (config' = conf[p] => established # NoConfig \/ config' = config)
      \/ established = NoConfig /\ established' = conf[p] /\ config' = conf[p]
  BY <1>1, <1>3, <1>6
<1>8. TypeOK'
  <2>1. config' \in Configs \cup {NoConfig, Torn} /\ established' \in Configs \cup {NoConfig}
    BY <1>1, <1>3, <1>6, <1>7 DEF BaseInv, TypeOK
  <2>2. /\ whole' \in [Procs -> SUBSET Ids] /\ passed' \in [Procs -> SUBSET Ids]
        /\ entries' \in [Procs -> SUBSET Ids] /\ listed' \in [Procs -> SUBSET Ids]
    BY <1>1, <1>2, ListKeeps
  <2> QED
    BY <1>1, <1>5, <2>1, <2>2 DEF BaseInv, TypeOK
<1>9. /\ \A q \in Procs : Keyed(q)' = Keyed(q)
      /\ \A q \in Procs : /\ Writes(q)' = Writes(q) /\ Creates(q)' = Creates(q)
                          /\ Active(q)' = Active(q) /\ Saved(q)' = Saved(q)
      /\ Folder' = Folder /\ InPlace' = InPlace /\ Retracts' = Retracts /\ backend' = backend
  BY <1>1, <1>5 DEF Keyed, Writes, Creates, Active, Saved, Folder, InPlace, Retracts, backend
<1>10. /\ \A q \in Procs : step'[q] \notin {"rekey", "folder", "delete"}
       /\ \A q \in Procs : Writes(q) => q = p
  BY <1>1, <1>2, <1>5, AloneFacts DEF BaseInv, Active, Writes
<1>11. ConfInv'
  <2>1. Bounded(config)' /\ \A q \in Procs : Bounded(conf[q])'
    <3>1. Torn.enc.gen = 0 /\ Torn.enc.key = 0 /\ count \in Nat
      BY <1>1, ConfigFacts, RepositoryAssumption DEF NoEncryption, Plain, BaseInv, TypeOK
    <3> QED
      BY <1>1, <1>3, <1>6, <3>1 DEF Bounded, BaseInv, ConfInv
  <2>2. Readable(config') => established' # NoConfig
    BY <1>1, <1>3, <1>6, <1>7
  <2> QED
    BY <1>1, <1>5, <1>9, <1>10, <2>1, <2>2 DEF BaseInv, ConfInv
<1>12. ManifestInv' /\ PlainInv' /\ ListInv'
  <2>1. ListInv'
    BY <1>1, <1>2, <1>9, ListKeeps, QuietList
  <2> QED
    BY <1>1, <1>5, <1>9, <2>1 DEF BaseInv, ManifestInv, PlainInv
<1>13. (KeepsKey(setting) => IdentityInv)'
  <2> SUFFICES ASSUME KeepsKey(setting) PROVE IdentityInv'
    BY <1>1
  <2>1. /\ IdentityInv
        /\ established # NoConfig => conf[p].id = established.id /\ conf[p].format = established.format
        /\ Folder.exists = "folder" => folder
    BY <1>1 DEF IInv, IdentityInv
  <2>2. CASE config' = conf[p] /\ backend = "smb"
    <3>1. /\ established' # NoConfig
          /\ conf[p].id = established'.id /\ conf[p].format = established'.format
      BY <1>6, <1>7, <2>1, <2>2
    <3> QED
      BY <1>1, <1>5, <1>6, <1>9, <1>10, <2>1, <2>2, <3>1 DEF IdentityInv
  <2>3. CASE config' = Torn
    <3>1. established' = established
      BY <1>1, <1>6, <2>3
    <3> QED
      BY <1>1, <1>5, <1>6, <1>9, <1>10, <2>1, <2>3, <3>1 DEF IdentityInv
  <2>4. CASE config' = config
    <3>1. established' = established
      BY <1>1, <1>6, <2>4
    <3> QED
      BY <1>1, <1>5, <1>9, <1>10, <2>1, <2>4, <3>1 DEF IdentityInv
  <2> QED
    BY <1>3, <2>2, <2>3, <2>4
<1>14. (Safe(setting) => KeyInv)'
  <2>1. ASSUME NEW c, Opens(c) PROVE Opens(c)'
    BY <1>1, <1>9, <2>1 DEF Opens
  <2> SUFFICES ASSUME Safe(setting) PROVE KeyInv'
    BY <1>1
  <2>2. KeyInv /\ Opens(conf[p])
    BY <1>1 DEF IInv, KeyInv
  <2>3. PICK d : d = config'
    OBVIOUS
  <2>4. Readable(d) => Opens(d)
    BY <1>3, <1>6, <2>2, <2>3 DEF KeyInv
  <2>5. Readable(d) => Opens(d)'
    BY <2>1, <2>4
  <2>6. (Readable(config) => Opens(config))'
    BY <2>3, <2>5
  <2>7. ASSUME NEW q \in Procs, Writes(q)' PROVE Opens(conf[q])'
    BY <1>1, <1>9, <2>1, <2>2, <2>7 DEF KeyInv
  <2>8. config' = Torn => InPlace
    BY <1>3, <1>6, <2>2 DEF KeyInv
  <2>9. established' = NoConfig => established = NoConfig
    BY <1>6, <1>7
  <2> QED
    BY <1>1, <1>9, <1>10, <2>2, <2>6, <2>7, <2>8, <2>9 DEF KeyInv
<1> QED
  BY <1>5, <1>8, <1>11, <1>12, <1>13, <1>14 DEF IInv, BaseInv

\* The frame: config.json is what the command has in hand, and the command goes on or ends.
\* The objects stay, but for a rekey that is told it failed.
LEMMA CommitFrame ==
  ASSUME IInv, NEW p \in Procs, Writes(p), NEW s \in {"idle", "folders", "delete"},
         s \in StepsOf(op[p]) \cup {"idle"}, Go(p, s), config' = conf[p],
         established' = IF established = NoConfig THEN conf[p] ELSE established,
         UNCHANGED <<setting, folderVars, manifests, commandVars, conf, exists>>,
         UNCHANGED listVars \/ ForgetListing(p),
         objects' \in [Namespaces -> [Compressions -> Ids \cup {Plain, Nothing}]],
         \A n \in Namespaces : \A h \in Compressions :
           objects'[n][h] = objects[n][h] \/ (n > 1 /\ objects'[n][h] = Nothing),
         Safe(setting) => objects' = objects
  PROVE  IInv'
<1> USE DEF commandVars, configVars, folderVars
<1>1. BaseInv /\ Active(p) /\ op[p] \in {"init", "rewrap", "rekey"}
  BY StepFacts DEF IInv, BaseInv, Active, Writes
<1>2. /\ CommandInv' /\ step' \in [Procs -> Steps] /\ step'[p] = s
      /\ \A q \in Procs : q # p => step'[q] = step[q]
  BY <1>1, MoveFacts
<1>3. conf[p] \in Configs /\ Bounded(conf[p]) /\ conf[p] # NoConfig /\ conf[p] # Torn
  BY <1>1, ConfigFacts DEF BaseInv, ConfInv
<1>4. TypeOK'
  <2>1. \A n \in Namespaces : \A h \in Compressions :
          objects'[n][h] \in IF n = 0 THEN {Plain, Nothing} ELSE Ids \cup {Nothing}
    BY <1>1 DEF BaseInv, TypeOK
  <2>2. /\ whole' \in [Procs -> SUBSET Ids] /\ passed' \in [Procs -> SUBSET Ids]
        /\ entries' \in [Procs -> SUBSET Ids] /\ listed' \in [Procs -> SUBSET Ids]
    BY <1>1, ListKeeps
  <2>3. config' \in Configs /\ established' \in Configs \cup {NoConfig}
    BY <1>1, <1>3 DEF BaseInv, TypeOK
  <2> QED
    BY <1>1, <1>2, <2>1, <2>2, <2>3 DEF BaseInv, TypeOK
<1>5. /\ \A q \in Procs : Keyed(q)' = Keyed(q)
      /\ \A q \in Procs : ~Writes(q)'
      /\ \A q \in Procs : step'[q] \notin {"rekey", "folder", "previous"} /\ (q # p => step'[q] # "delete")
      /\ \A q \in Procs : /\ Creates(q)' = Creates(q) /\ Saved(q)' = Saved(q)
                          /\ Active(q)' => Active(q)
      /\ Folder' = Folder /\ InPlace' = InPlace /\ Retracts' = Retracts /\ backend' = backend
  BY <1>1, <1>2, AloneFacts
     DEF BaseInv, Keyed, Writes, Creates, Active, Saved, Folder, InPlace, Retracts, backend
<1>6. ConfInv'
  <2>1. Bounded(config)' /\ \A q \in Procs : Bounded(conf[q])'
    BY <1>1, <1>3 DEF Bounded, BaseInv, ConfInv
  <2>2. established' # NoConfig
    BY <1>3
  <2>3. step'[p] = "delete" => op[p] = "rekey" /\ conf[p].enc.gen >= 2
    BY <1>1, <1>2 DEF BaseInv, ConfInv, StepsOf
  <2> QED
    BY <1>1, <1>2, <1>3, <1>5, <2>1, <2>2, <2>3 DEF BaseInv, ConfInv
<1>7. ManifestInv'
  <2>1. \A q \in Procs : Active(q)' => (step'[q] = "publishing" <=> step[q] = "publishing")
    BY <1>2 DEF Writes
  <2> QED
    BY <1>1, <1>5, <2>1 DEF BaseInv, ManifestInv
<1>8. PlainInv'
  <2>1. 0 \in Namespaces
    BY RepositoryAssumption DEF Namespaces
  <2>2. \A h \in Compressions : objects'[0][h] = objects[0][h]
    BY <2>1
  <2>3. \A q \in Procs : Saved(q) => conf[q].comp \in Compressions
    BY <1>1, ConfigFacts DEF BaseInv, ConfInv, Saved, Creates
  <2> QED
    BY <1>1, <1>5, <2>2, <2>3 DEF BaseInv, PlainInv, ManifestInv
<1>9. ListInv'
  <2>1. \A q \in Procs : ListKept(q) /\ (Active(q)' => Active(q))
    BY <1>1, <1>2, ListKeeps DEF Active
  <2> QED
    BY <1>1, <2>1, QuietList
<1>10. (KeepsKey(setting) => IdentityInv)'
  BY <1>1, <1>3, <1>5 DEF IInv, IdentityInv
<1>11. (Safe(setting) => KeyInv)'
  <2> SUFFICES ASSUME Safe(setting) PROVE KeyInv'
    OBVIOUS
  <2>1. KeyInv /\ objects' = objects /\ Opens(conf[p])
    BY DEF IInv, KeyInv
  <2>2. ASSUME NEW c, Opens(c) PROVE Opens(c)'
    BY <1>5, <2>1, <2>2 DEF Opens
  <2>3. Opens(config)'
    <3> DEFINE c == conf[p]
    <3>1. Opens(c)'
      BY <2>1, <2>2
    <3> QED
      BY <3>1
  <2> QED
    BY <1>2, <1>3, <1>5, <2>3 DEF KeyInv
<1> QED
  BY <1>2, <1>4, <1>6, <1>7, <1>8, <1>9, <1>10, <1>11 DEF IInv, BaseInv

\* config.json is replaced.
LEMMA CreateConfigReturnsInv == ASSUME IInv, NEW p \in Procs, CreateConfigReturns(p) PROVE IInv'
<1> DEFINE s == CASE op[p] = "init" -> "folders" [] op[p] = "rewrap" -> "idle" [] op[p] = "rekey" -> "delete"
<1>1. Writes(p) /\ Active(p) /\ BaseInv
  BY DEF CreateConfigReturns, Writes, Active, IInv
<1>2. op[p] \in {"init", "rewrap", "rekey"}
  BY <1>1, StepFacts DEF BaseInv
<1>3. s \in {"idle", "folders", "delete"} /\ s \in StepsOf(op[p]) \cup {"idle"}
  BY <1>2 DEF StepsOf
<1>4. objects \in [Namespaces -> [Compressions -> Ids \cup {Plain, Nothing}]]
  BY <1>1 DEF BaseInv, TypeOK
<1>5. /\ Go(p, s) /\ config' = conf[p] /\ UNCHANGED listVars /\ objects' = objects
      /\ established' = IF established = NoConfig THEN conf[p] ELSE established
      /\ UNCHANGED <<setting, folderVars, manifests, commandVars, conf, exists>>
  BY DEF CreateConfigReturns
<1>6. \A n \in Namespaces : \A h \in Compressions : objects'[n][h] = objects[n][h]
  BY <1>5
<1> HIDE DEF s
<1> QED
  BY <1>1, <1>3, <1>4, <1>5, <1>6, CommitFrame

-----------------------------------------------------------------------------
(* A command ends; a rekey may take a generation with it.                    *)

\* What DeleteEncryptedGeneration leaves.
LEMMA WithoutFacts ==
  ASSUME TypeOK, NEW g \in Namespaces, g > 0
  PROVE  /\ Without(g) \in [Namespaces -> [Compressions -> Ids \cup {Plain, Nothing}]]
         /\ \A n \in Namespaces : \A h \in Compressions :
              Without(g)[n][h] = objects[n][h] \/ (n = g /\ Without(g)[n][h] = Nothing)
<1> DEFINE R == [Compressions -> Ids \cup {Plain, Nothing}]
           z == [h \in Compressions |-> Nothing]
<1>1. objects \in [Namespaces -> R] /\ z \in R
  BY DEF TypeOK
<1>2. Without(g) = IF backend = "smb" THEN objects ELSE [objects EXCEPT ![g] = z]
  BY DEF Without
<1>3. \A h \in Compressions : z[h] = Nothing
  OBVIOUS
<1> HIDE DEF R, z
<1>4. Without(g) \in [Namespaces -> R]
  BY <1>1, <1>2
<1>5. \A n \in Namespaces : Without(g)[n] = objects[n] \/ (n = g /\ Without(g)[n] = z)
  BY <1>1, <1>2
<1> QED
  BY <1>3, <1>4, <1>5 DEF R

\* The frame: config.json stays, and so does the generation it names.
LEMMA AbortFrame ==
  ASSUME IInv, NEW p \in Procs, Active(p), Go(p, "idle"),
         UNCHANGED <<setting, folderVars, configVars, manifests, commandVars, conf, exists>>,
         (UNCHANGED listVars /\ op[p] # "list") \/ ForgetListing(p),
         objects' \in [Namespaces -> [Compressions -> Ids \cup {Plain, Nothing}]],
         \A n \in Namespaces : \A h \in Compressions :
           objects'[n][h] = objects[n][h] \/ (n > 0 /\ objects'[n][h] = Nothing),
         objects' = objects \/ op[p] = "rekey",
         Safe(setting) /\ Readable(config) =>
           \A h \in Compressions : objects'[config.enc.gen][h] = objects[config.enc.gen][h]
  PROVE  IInv'
<1> USE DEF commandVars, configVars, folderVars
<1>1. BaseInv
  BY DEF IInv
<1>2. /\ CommandInv' /\ step' \in [Procs -> Steps] /\ step'[p] = "idle"
      /\ \A q \in Procs : q # p => step'[q] = step[q]
  BY <1>1, MoveFacts
<1>3. TypeOK'
  <2>1. \A n \in Namespaces : \A h \in Compressions :
          objects'[n][h] \in IF n = 0 THEN {Plain, Nothing} ELSE Ids \cup {Nothing}
    BY <1>1 DEF BaseInv, TypeOK
  <2>2. /\ whole' \in [Procs -> SUBSET Ids] /\ passed' \in [Procs -> SUBSET Ids]
        /\ entries' \in [Procs -> SUBSET Ids] /\ listed' \in [Procs -> SUBSET Ids]
    BY <1>1, ListKeeps
  <2> QED
    BY <1>1, <1>2, <2>1, <2>2 DEF BaseInv, TypeOK
<1>4. /\ \A q \in Procs : Keyed(q)' = Keyed(q)
      /\ \A q \in Procs : q # p => /\ Writes(q)' = Writes(q) /\ Creates(q)' = Creates(q)
                                   /\ Active(q)' = Active(q) /\ Saved(q)' = Saved(q)
      /\ ~Writes(p)' /\ ~Creates(p)' /\ ~Active(p)' /\ ~Saved(p)'
      /\ Folder' = Folder /\ InPlace' = InPlace /\ Retracts' = Retracts /\ backend' = backend
  BY <1>1, <1>2 DEF Keyed, Writes, Creates, Active, Saved, Folder, InPlace, Retracts, backend
<1>5. ConfInv'
  BY <1>1, <1>2, <1>4 DEF BaseInv, ConfInv, Bounded
<1>6. ManifestInv'
  BY <1>1, <1>2, <1>4 DEF BaseInv, ManifestInv
<1>7. \A q \in Procs : Saved(q) => conf[q].comp \in Compressions
  BY <1>1, ConfigFacts DEF BaseInv, ConfInv, Saved, Creates
<1>8. PlainInv'
  <2>1. 0 \in Namespaces
    BY RepositoryAssumption DEF Namespaces
  <2>2. \A h \in Compressions : objects'[0][h] = objects[0][h]
    BY <2>1
  <2> QED
    BY <1>1, <1>4, <1>7, <2>2 DEF BaseInv, PlainInv, ManifestInv
<1>9. ListInv'
  <2>1. \A q \in Procs : ListKept(q) /\ (Active(q)' => Active(q))
    BY <1>1, <1>2, ListKeeps DEF Active
  <2> QED
    BY <1>1, <2>1, QuietList
<1>10. (KeepsKey(setting) => IdentityInv)'
  BY <1>1, <1>2, <1>4 DEF IInv, IdentityInv
<1>11. (Safe(setting) => KeyInv)'
  <2> SUFFICES ASSUME Safe(setting) PROVE KeyInv'
    OBVIOUS
  <2>1. KeyInv
    BY DEF IInv
  <2>2. ASSUME NEW c \in Configs, Opens(c),
               \A h \in Compressions : objects'[c.enc.gen][h] = objects[c.enc.gen][h]
        PROVE  Opens(c)'
    <3>1. /\ \A i \in Ids : manifests[i].state = "whole" => manifests[i].comp \in Compressions
          /\ c.enc.gen \in Nat
      BY <1>1, EncOf DEF BaseInv, ManifestInv
    <3>2. \A n \in Namespaces : n > c.enc.gen => \A h \in Compressions : objects'[n][h] # Nothing =>
            n = c.enc.gen + 1 /\ Encrypted(c) /\ objects'[c.enc.gen][h] # Nothing
      BY <2>2 DEF Opens
    <3> QED
      BY <1>4, <1>7, <2>2, <3>1, <3>2 DEF Opens
  <2>3. Readable(config) => Opens(config)'
    BY <1>1, <2>1, <2>2, EncOf DEF KeyInv, BaseInv, TypeOK
  <2>4. ASSUME NEW q \in Procs, Writes(q)' PROVE Opens(conf[q])'
    <3>1. q # p /\ Writes(q) /\ Active(q)
      BY <1>4, <2>4 DEF Writes, Active
    <3>2. objects' = objects
      BY <1>1, <3>1, AloneFacts DEF BaseInv
    <3>3. conf[q] \in Configs /\ Opens(conf[q])
      BY <1>1, <2>1, <3>1 DEF BaseInv, ConfInv, KeyInv
    <3> QED
      BY <2>2, <3>2, <3>3
  <2>5. established = NoConfig =>
          \A n \in Namespaces : n > 0 => \A h \in Compressions : objects'[n][h] = Nothing
    BY <2>1 DEF KeyInv
  <2> QED
    BY <1>2, <1>4, <2>1, <2>3, <2>4, <2>5 DEF KeyInv
<1> QED
  BY <1>2, <1>3, <1>5, <1>6, <1>8, <1>9, <1>10, <1>11 DEF IInv, BaseInv

\* DeleteEncryptedGeneration of the generation before the one config.json names.
LEMMA RekeyDeletesInv == ASSUME IInv, NEW p \in Procs, RekeyDeletes(p) PROVE IInv'
<1> DEFINE g == conf[p].enc.gen - 1
<1>1. /\ BaseInv /\ Active(p) /\ step[p] = "delete" /\ Go(p, "idle") /\ objects' = Without(g)
      /\ UNCHANGED <<setting, folderVars, configVars, manifests, commandVars, conf, exists>>
      /\ UNCHANGED listVars
  BY DEF IInv, RekeyDeletes, Active
<1>2. op[p] = "rekey"
  BY <1>1, StepFacts DEF BaseInv
<1>3. conf[p] \in Configs /\ conf[p].enc.gen >= 2
  BY <1>1, <1>2 DEF BaseInv, ConfInv
<1>4. g \in Namespaces /\ g > 0
  BY <1>3, EncOf, RepositoryAssumption DEF Namespaces
<1>5. Safe(setting) /\ Readable(config) => config.enc.gen = conf[p].enc.gen
  BY <1>1 DEF IInv, KeyInv
<1>6. conf[p].enc.gen \in Namespaces /\ conf[p].enc.gen # g
  BY <1>3, EncOf DEF Namespaces
<1> HIDE DEF g
<1>7. /\ objects' \in [Namespaces -> [Compressions -> Ids \cup {Plain, Nothing}]]
      /\ \A n \in Namespaces : \A h \in Compressions :
           objects'[n][h] = objects[n][h] \/ (n = g /\ objects'[n][h] = Nothing)
  BY <1>1, <1>4, WithoutFacts DEF BaseInv
<1> QED
  BY <1>1, <1>2, <1>4, <1>5, <1>6, <1>7, AbortFrame

-----------------------------------------------------------------------------
(* The copy of a rekey.                                                      *)

\* ReKey.Do up to CreateConfig: the old key and the new one open every snapshot, each in its
\* own generation.
LEMMA RekeyCopiesInv == ASSUME IInv, NEW p \in Procs, RekeyCopies(p) PROVE IInv'
<1> USE DEF commandVars, configVars, listVars, folderVars
<1> DEFINE g == config.enc.gen
           k == id[p]
           e == [gen |-> g + 1, key |-> k, wrap |-> args[p].pub]
           c == [config EXCEPT !.enc = e]
           row == [h \in Compressions |-> IF h \in Stored(g) THEN k ELSE objects[g + 1][h]]
<1>1. /\ BaseInv /\ Active(p) /\ op[p] = "rekey" /\ step[p] = "rekey" /\ Go(p, "write")
      /\ Readable(config) /\ Encrypted(config)
      /\ UNCHANGED <<setting, folderVars, configVars, manifests, commandVars, exists, listVars>>
      /\ conf' = [conf EXCEPT ![p] = c] /\ objects' = [objects EXCEPT ![g + 1] = row]
  BY StepFacts DEF IInv, BaseInv, RekeyCopies, Active, Unwraps
<1>2. "write" \in StepsOf(op[p])
  BY <1>1 DEF StepsOf
<1>3. /\ CommandInv' /\ step' \in [Procs -> Steps] /\ step'[p] = "write"
      /\ \A q \in Procs : q # p => step'[q] = step[q]
  BY <1>1, <1>2, MoveFacts
<1>4. /\ config \in Configs /\ k \in Ids /\ k <= count /\ count \in Nat /\ k # Nothing
      /\ args[p].pub \in KeyPairs /\ g <= config.enc.key /\ config.enc.key < k
      /\ config.enc.key \in Ids /\ g \in Nat /\ g > 0
  <2>1. config \in Configs
    BY <1>1, EncOf DEF BaseInv, TypeOK
  <2>2. config.enc.key \in Ids /\ g \in 0..(MaxCommands + 1) /\ g > 0
    BY <1>1, <2>1, EncOf
  <2>3. k \in Ids /\ k <= count /\ args[p].pub \in KeyPairs /\ count \in 0..MaxCommands
    BY <1>1 DEF BaseInv, CommandInv, TypeOK
  <2>4. g <= config.enc.key /\ config.enc.key < k
    BY <1>1 DEF BaseInv, ConfInv, Bounded
  <2> QED
    BY <2>1, <2>2, <2>3, <2>4, RepositoryAssumption DEF Ids, Nothing
<1>5. /\ g \in Namespaces /\ g + 1 \in Namespaces /\ g + 1 \in 1..(MaxCommands + 1) /\ g + 1 <= k
      /\ g + 1 >= 2
  BY <1>4, RepositoryAssumption DEF Ids, Namespaces
<1>6. /\ e \in Encryptions /\ e.gen = g + 1 /\ e.key = k /\ e # NoEncryption
  BY <1>4, <1>5 DEF Encryptions, NoEncryption
<1> HIDE DEF e
<1>7. /\ c \in Configs /\ c.id = config.id /\ c.format = config.format
      /\ c.enc.gen = g + 1 /\ c.enc.key = k /\ Encrypted(c)
  BY <1>4, <1>6 DEF Configs, Encrypted
<1>8. /\ row \in [Compressions -> Ids \cup {Plain, Nothing}]
      /\ \A h \in Compressions : row[h] = IF objects[g][h] # Nothing THEN k ELSE objects[g + 1][h]
  <2>1. objects \in [Namespaces -> [Compressions -> Ids \cup {Plain, Nothing}]]
    BY <1>1 DEF BaseInv, TypeOK
  <2> QED
    BY <1>4, <1>5, <2>1 DEF Stored
<1> HIDE DEF c, row
<1>9. /\ objects' \in [Namespaces -> [Compressions -> Ids \cup {Plain, Nothing}]]
      /\ objects'[g + 1] = row /\ \A n \in Namespaces : n # g + 1 => objects'[n] = objects[n]
  BY <1>1, <1>5, <1>8 DEF BaseInv, TypeOK
<1>10. /\ conf' \in [Procs -> Configs \cup {NoConfig}] /\ conf'[p] = c
       /\ \A q \in Procs : q # p => conf'[q] = conf[q]
  BY <1>1, <1>7 DEF BaseInv, TypeOK
<1> HIDE DEF g, k
<1>11. TypeOK'
  <2>1. \A n \in Namespaces : \A h \in Compressions :
          objects'[n][h] \in IF n = 0 THEN {Plain, Nothing} ELSE Ids \cup {Nothing}
    <3>1. \A n \in Namespaces : \A h \in Compressions :
            objects[n][h] \in IF n = 0 THEN {Plain, Nothing} ELSE Ids \cup {Nothing}
      BY <1>1 DEF BaseInv, TypeOK
    <3> QED
      BY <1>4, <1>5, <1>8, <1>9, <3>1
  <2> QED
    BY <1>1, <1>3, <1>9, <1>10, <2>1 DEF BaseInv, TypeOK
<1>12. \A q \in Procs : ~Writes(q) /\ ~Creates(q)
  <2>1. ~Writes(p) /\ ~Creates(p)
    BY <1>1 DEF Writes, Creates
  <2>2. ASSUME NEW q \in Procs, q # p PROVE ~Writes(q) /\ ~Creates(q)
    BY <1>1, <2>2, AloneFacts DEF BaseInv, Active, Writes, Creates
  <2> QED
    BY <2>1, <2>2
<1>13. /\ \A q \in Procs : Keyed(q)' = Keyed(q)
       /\ \A q \in Procs : q # p => ~Writes(q)' /\ step'[q] \notin {"rekey", "folder", "delete"}
       /\ \A q \in Procs : ~Creates(q)' /\ ~Saved(q)' /\ (Active(q)' => Active(q))
       /\ Writes(p)' /\ Folder' = Folder /\ InPlace' = InPlace /\ Retracts' = Retracts /\ backend' = backend
  <2>1. \A q \in Procs : q # p => ~Writes(q)' /\ ~Creates(q)' /\ ~Saved(q)' /\ Active(q)' = Active(q)
    BY <1>3, <1>12 DEF Writes, Creates, Saved, Active
  <2>2. Writes(p)' /\ ~Creates(p)' /\ ~Saved(p)' /\ Active(p)'
    BY <1>3 DEF Writes, Creates, Saved, Active
  <2>3. ASSUME NEW q \in Procs, q # p PROVE step'[q] \notin {"rekey", "folder", "delete"}
    BY <1>1, <1>3, <2>3, AloneFacts DEF BaseInv, Active
  <2> QED
    BY <1>1, <2>1, <2>2, <2>3 DEF Keyed, Folder, InPlace, Retracts, backend
<1>14. ConfInv'
  <2>1. Bounded(config)' /\ \A q \in Procs : Bounded(conf[q])'
    <3>1. Bounded(config) /\ \A q \in Procs : Bounded(conf[q])
      BY <1>1 DEF BaseInv, ConfInv
    <3> QED
      BY <1>1, <1>4, <1>5, <1>7, <1>10, <3>1 DEF Bounded
  <2> QED
    BY <1>1, <1>3, <1>5, <1>7, <1>10, <1>13, <2>1 DEF BaseInv, ConfInv
<1>15. ManifestInv' /\ ListInv'
  <2>1. \A q \in Procs : Active(q)' => step'[q] # "publishing" /\ step[q] # "publishing"
    BY <1>12, <1>13 DEF Creates
  <2>2. ListInv'
    BY <1>1, <1>13, ListKeeps, QuietList
  <2> QED
    BY <1>1, <1>3, <1>13, <2>1, <2>2 DEF BaseInv, ManifestInv
<1>16. PlainInv'
  <2>1. 0 \in Namespaces /\ objects'[0] = objects[0]
    BY <1>4, <1>9, RepositoryAssumption DEF Namespaces
  <2> QED
    BY <1>1, <1>13, <2>1 DEF BaseInv, PlainInv
<1>17. (KeepsKey(setting) => IdentityInv)'
  <2> SUFFICES ASSUME KeepsKey(setting) PROVE IdentityInv'
    BY <1>1
  <2>1. IdentityInv /\ established # NoConfig /\ config # NoConfig
    BY <1>1, ConfigFacts DEF IInv, IdentityInv
  <2>2. Folder.exists = "folder" => folder
    BY <2>1 DEF IdentityInv
  <2>3. conf'[p].id = established.id /\ conf'[p].format = established.format
    BY <1>1, <1>7, <1>10, <2>1 DEF IdentityInv
  <2>4. conf'[p].enc.gen = config.enc.gen + 1
    BY <1>7, <1>10 DEF g
  <2> QED
    BY <1>1, <1>3, <1>13, <2>1, <2>2, <2>3, <2>4 DEF IdentityInv
<1>18. (Safe(setting) => KeyInv)'
  <2> SUFFICES ASSUME Safe(setting) PROVE KeyInv'
    BY <1>1
  <2>1. KeyInv /\ established # NoConfig /\ Opens(config)
    BY <1>1, ConfigFacts DEF IInv, IdentityInv, Safe, KeyInv
  <2>2. /\ \A h \in Compressions : objects[g][h] \in {config.enc.key, Nothing}
        /\ \A n \in Namespaces : n > g => \A h \in Compressions : objects[n][h] # Nothing =>
             n = g + 1 /\ objects[g][h] # Nothing
        /\ \A i \in Ids : manifests[i].state = "whole" /\ manifests[i].keyed =>
             /\ objects[g][manifests[i].comp] = config.enc.key /\ manifests[i].comp \in Compressions
    BY <1>1, <2>1 DEF Opens, g, BaseInv, ManifestInv
  <2>3. objects'[g] = objects[g] /\ config.enc.key # Nothing
    BY <1>4, <1>5, <1>9, RepositoryAssumption DEF Ids, Nothing
  <2>4. \A h \in Compressions : objects'[g + 1][h] = IF objects[g][h] # Nothing THEN k ELSE Nothing
    BY <1>4, <1>5, <1>8, <1>9, <2>2
  <2>5. \A n \in Namespaces : n > g => \A h \in Compressions : objects'[n][h] # Nothing =>
          n = g + 1 /\ objects[g][h] # Nothing
    BY <1>9, <2>2, <2>4
  <2>6. Opens(config)'
    <3>1. ASSUME NEW d, Encrypted(d), d.enc.gen = g, d.enc.key = config.enc.key PROVE Opens(d)'
      BY <1>1, <1>13, <2>2, <2>3, <2>5, <3>1 DEF Opens
    <3>2. PICK d : d = config
      OBVIOUS
    <3>3. Opens(d)'
      BY <1>1, <3>1, <3>2 DEF g
    <3> QED
      BY <1>1, <3>2, <3>3
  <2>7. Opens(conf[p])'
    <3>1. \A n \in Namespaces : n > g + 1 => \A h \in Compressions : objects'[n][h] = Nothing
      BY <1>4, <2>5 DEF Namespaces
    <3>2. \A i \in Ids : manifests[i].state = "whole" /\ manifests[i].keyed =>
            objects'[g + 1][manifests[i].comp] = k
      BY <2>2, <2>3, <2>4
    <3>3. ASSUME NEW d, Encrypted(d), d.enc.gen = g + 1, d.enc.key = k PROVE Opens(d)'
      BY <1>1, <1>13, <2>4, <3>1, <3>2, <3>3 DEF Opens
    <3>4. PICK d : d = c
      OBVIOUS
    <3>5. Opens(d)'
      BY <1>7, <3>3, <3>4
    <3> QED
      BY <1>10, <3>4, <3>5
  <2> QED
    BY <1>1, <1>3, <1>13, <2>1, <2>6, <2>7 DEF KeyInv
<1> QED
  BY <1>3, <1>11, <1>14, <1>15, <1>16, <1>17, <1>18 DEF IInv, BaseInv

-----------------------------------------------------------------------------
(* A command fails.                                                          *)

\* What a failing command leaves of the objects; over SMB nothing is deleted.
LEMMA AfterAbortFacts ==
  ASSUME IInv, NEW p \in Procs, Active(p), NEW o \in AfterAbort(p)
  PROVE  \/ o = objects
         \/ \E g \in Namespaces :
              /\ o = Without(g) /\ g > 0 /\ op[p] = "rekey" /\ (Writes(p) => g > 1)
              /\ KeepsKey(setting) /\ Readable(config) => g = config.enc.gen + 1
<1>1. BaseInv
  BY DEF IInv
<1>2. CASE op[p] = "rekey" /\ Writes(p)
  <2> DEFINE g == conf[p].enc.gen
  <2>1. o = Without(g)
    BY <1>2 DEF AfterAbort, Writes
  <2>2. conf[p] \in Configs /\ g >= 2
    BY <1>1, <1>2 DEF BaseInv, ConfInv
  <2>3. g \in Namespaces /\ g > 1 /\ g > 0
    BY <2>2, EncOf DEF Namespaces
  <2>4. backend = "smb" => o = objects
    BY <2>1 DEF Without
  <2>5. backend # "smb" /\ KeepsKey(setting) /\ Readable(config) => g = config.enc.gen + 1
    BY <1>2 DEF IInv, IdentityInv
  <2> QED
    BY <1>2, <2>1, <2>3, <2>4, <2>5
<1>3. CASE step[p] = "rekey" /\ Readable(config) /\ Unwraps(p, config)
  <2> DEFINE g == config.enc.gen + 1
  <2>1. op[p] = "rekey" /\ ~Writes(p)
    BY <1>1, <1>3, StepFacts DEF BaseInv, Writes
  <2>2. o \in {objects, Without(g)}
    BY <1>3, <2>1 DEF AfterAbort
  <2>3. /\ config.enc.gen \in 0..(MaxCommands + 1) /\ config.enc.key \in 0..MaxCommands
        /\ config.enc.gen <= config.enc.key
    BY <1>1, EncOf DEF BaseInv, TypeOK, ConfInv, Bounded
  <2>4. g \in Namespaces /\ g > 0
    BY <2>3, RepositoryAssumption DEF Namespaces
  <2> QED
    BY <2>1, <2>2, <2>4
<1>4. CASE /\ ~(op[p] = "rekey" /\ Writes(p))
           /\ ~(step[p] = "rekey" /\ Readable(config) /\ Unwraps(p, config))
  BY <1>4 DEF AfterAbort, Writes
<1> QED
  BY <1>2, <1>3, <1>4

\* A command is refused, or one of its calls fails.
LEMMA CommandFailsInv == ASSUME IInv, NEW p \in Procs, CommandFails(p) PROVE IInv'
<1> USE DEF configVars
<1>1. /\ BaseInv /\ Active(p) /\ Go(p, "idle")
      /\ UNCHANGED <<setting, folderVars, commandVars, conf, exists>> /\ ForgetListing(p)
      /\ established' = IF established = NoConfig /\ Readable(config') THEN config' ELSE established
  BY DEF IInv, CommandFails, Active
<1>2. \/ config' = config
      \/ config' = conf[p] /\ step[p] = "writing" /\ "lost reply" \in Faults
  BY DEF CommandFails
<1>3. /\ objects \in [Namespaces -> [Compressions -> Ids \cup {Plain, Nothing}]]
      /\ Readable(config) => established # NoConfig
  BY <1>1 DEF BaseInv, TypeOK, ConfInv
<1>4. CASE step[p] = "publishing"
  <2>1. op[p] = "create"
    BY <1>1, <1>4, StepFacts DEF BaseInv, Creates
  <2>2. objects' = objects /\ config' = config /\ established' = established
    BY <1>1, <1>2, <1>3, <1>4, <2>1 DEF CommandFails, AfterAbort
  <2>3. PICK s \in ManifestSaveOf(backend).failed :
          /\ manifests[id[p]].state = "whole" => s # "torn"
          /\ manifests' = [manifests EXCEPT ![id[p]].state = s]
    BY <1>4 DEF CommandFails
  <2>4. s \in {"none", "torn", "whole"}
    BY <1>1, SettingFacts DEF BaseInv
  <2> QED
    BY <1>1, <1>4, <2>2, <2>3, <2>4, PublishEnds
<1>5. ASSUME step[p] # "publishing" PROVE IInv'
  <2>1. manifests' = manifests /\ objects' \in AfterAbort(p)
    BY <1>5 DEF CommandFails
  <2>2. PICK o : o = objects'
    OBVIOUS
  <2>3. /\ objects' \in [Namespaces -> [Compressions -> Ids \cup {Plain, Nothing}]]
        /\ \/ objects' = objects
           \/ /\ op[p] = "rekey"
              /\ \A n \in Namespaces : \A h \in Compressions :
                   \/ objects'[n][h] = objects[n][h]
                   \/ /\ n > 0 /\ objects'[n][h] = Nothing /\ (Writes(p) => n > 1)
                      /\ KeepsKey(setting) /\ Readable(config) => n = config.enc.gen + 1
    <3>1. CASE objects' = objects
      BY <1>3, <3>1
    <3>2. CASE objects' # objects
      <4>1. PICK g \in Namespaces :
              /\ o = Without(g) /\ g > 0 /\ op[p] = "rekey" /\ (Writes(p) => g > 1)
              /\ KeepsKey(setting) /\ Readable(config) => g = config.enc.gen + 1
        BY <1>1, <2>1, <2>2, <3>2, AfterAbortFacts
      <4>2. /\ o \in [Namespaces -> [Compressions -> Ids \cup {Plain, Nothing}]]
            /\ \A n \in Namespaces : \A h \in Compressions :
                 o[n][h] = objects[n][h] \/ (n = g /\ o[n][h] = Nothing)
        BY <1>1, <4>1, WithoutFacts DEF BaseInv
      <4> QED
        BY <2>2, <4>1, <4>2
    <3> QED
      BY <3>1, <3>2
  <2>4. CASE config' = config
    <3>1. established' = established
      BY <1>1, <1>3, <2>4
    <3>2. ASSUME Safe(setting), Readable(config), NEW h \in Compressions
          PROVE  objects'[config.enc.gen][h] = objects[config.enc.gen][h]
      <4>1. config.enc.gen \in Namespaces /\ config.enc.gen # config.enc.gen + 1 /\ KeepsKey(setting)
        <5>1. config.enc.gen \in 0..(MaxCommands + 1)
          BY <1>1, EncOf DEF BaseInv, TypeOK
        <5>2. KeepsKey(setting)
          BY <3>2 DEF Safe
        <5> QED
          BY <5>1, <5>2, RepositoryAssumption DEF Namespaces
      <4> QED
        BY <2>3, <3>2, <4>1
    <3> QED
      BY <1>1, <2>1, <2>3, <2>4, <3>1, <3>2, AbortFrame
  <2>5. CASE config' = conf[p] /\ step[p] = "writing" /\ "lost reply" \in Faults
    <3>1. Writes(p) /\ conf[p] \in Configs
      BY <1>1, <2>5 DEF Writes, BaseInv, ConfInv
    <3>2. established' = IF established = NoConfig THEN conf[p] ELSE established
      BY <1>1, <2>5, <3>1, ConfigFacts
    <3>3. Safe(setting) => objects' = objects
      <4>1. op[p] \in setting.menu
        BY <1>1 DEF BaseInv, CommandInv
      <4> QED
        BY <2>3, <2>5, <4>1 DEF Safe, Faults
    <3>4. \A n \in Namespaces : \A h \in Compressions :
            objects'[n][h] = objects[n][h] \/ (n > 1 /\ objects'[n][h] = Nothing)
      BY <2>3, <3>1
    <3>5. "idle" \in {"idle", "folders", "delete"} /\ "idle" \in StepsOf(op[p]) \cup {"idle"}
      OBVIOUS
    <3> QED
      BY <1>1, <2>1, <2>3, <2>5, <3>1, <3>2, <3>3, <3>4, <3>5, CommitFrame
  <2> QED
    BY <1>2, <2>4, <2>5
<1> QED
  BY <1>4, <1>5

-----------------------------------------------------------------------------
(* The theorems.                                                             *)

\* Nothing is there yet.
LEMMA InitInv == ASSUME Init PROVE IInv
<1>1. /\ 0 \in 0..MaxCommands /\ count = 0 /\ MaxCommands \in Nat /\ Plain # Nothing
      /\ NoEncryption.gen = 0 /\ NoEncryption.key = 0 /\ Plain = 0
  BY RepositoryAssumption DEF Init, NoEncryption, Plain, Nothing
<1>2. /\ config = NoConfig /\ established = NoConfig /\ ~Readable(config)
      /\ NoConfig.enc = NoEncryption /\ Torn # NoConfig
  BY ConfigFacts DEF Init
<1>3. \A p \in Procs : /\ step[p] = "idle" /\ conf[p] = NoConfig /\ op[p] = None
                       /\ listed[p] = {} /\ whole[p] = {}
  BY DEF Init
<1>4. \A i \in Ids : manifests[i].state = "none"
  BY DEF Init, NoManifest
<1>5. TypeOK
  <2>1. NoArgs \in ArgsType /\ "idle" \in Steps
    BY DEF NoArgs, ArgsType, Steps
  <2>2. /\ manifests \in [Ids -> [state : {"none", "torn", "whole"}, comp : Compressions \cup {None},
                                  keyed : BOOLEAN]]
    BY DEF Init, NoManifest
  <2>3. /\ objects \in [Namespaces -> [Compressions -> Ids \cup {Plain, Nothing}]]
        /\ \A n \in Namespaces : \A h \in Compressions : objects[n][h] = Nothing
    BY DEF Init
  <2> QED
    BY <1>1, <2>1, <2>2, <2>3 DEF Init, TypeOK
<1>6. CommandInv /\ ListInv /\ PlainInv /\ ManifestInv
  BY <1>3, <1>4 DEF CommandInv, ListInv, PlainInv, ManifestInv, Active, Saved
<1>7. ConfInv
  BY <1>1, <1>2, <1>3 DEF ConfInv, Bounded, Writes, Creates
<1>8. IdentityInv
  BY <1>2, <1>3 DEF IdentityInv, Writes, Creates
<1>9. KeyInv
  BY <1>2, <1>3, <1>4 DEF KeyInv, Writes, Init
<1> QED
  BY <1>5, <1>6, <1>7, <1>8, <1>9 DEF IInv, BaseInv

\* Nothing happens.
LEMMA StutterInv == ASSUME IInv, UNCHANGED vars PROVE IInv'
<1> USE DEF vars, commandVars, configVars, listVars, folderVars
<1>1. CommandInv' /\ TypeOK' /\ ListInv'
  BY DEF IInv, BaseInv, CommandInv, TypeOK, ListInv, Active, WholeManifests, Retracted, Retracts, backend
<1>2. folder => folder'
  OBVIOUS
<1>3. \A q \in Procs : step'[q] = step[q] /\ exists'[q] = exists[q]
  OBVIOUS
<1> QED
  BY <1>1, <1>2, <1>3, QuietFrame DEF IInv, BaseInv

\* Every step of every command, failing or not, keeps the invariant.
LEMMA StepInv == ASSUME IInv, [Next]_vars PROVE IInv'
<1>1. ASSUME NEW p \in Procs, CommandStep(p) PROVE IInv'
  BY <1>1, EndsInv, InitExistsInv, ListingInv, InitFolderInv, InitPreviousInv, CreateReadsInv,
     RewrapReadsInv, CreateSavesInv, PublishStartsInv, PublishReturnsInv, CreateConfigStartsInv,
     CreateConfigReturnsInv, RekeyCopiesInv, RekeyDeletesInv, CommandFailsInv DEF CommandStep
<1>2. ASSUME NEW p \in Procs, NEW o \in Operations, StartCommand(p, o) PROVE IInv'
  BY <1>2, StartCommandInv
<1> QED
  BY <1>1, <1>2, StutterInv DEF Next

\* The invariant holds throughout, however the commands interleave, fail and die.
THEOREM Inductive == Spec => []IInv
BY InitInv, StepInv, PTL DEF Spec

\* Every variable keeps its type; in particular no object without a key gets into a
\* generation, and none with a key into objects/ (Repository.TypeOK).
THEOREM TypeCorrect == Spec => []TypeOK
<1>1. IInv => TypeOK
  BY DEF IInv, BaseInv
<1> QED
  BY <1>1, Inductive, PTL

\* A listing that returns has every snapshot published before it started and none that is
\* incomplete, on every back end, however its names are divided into pages and whatever the
\* other commands do meanwhile (ListingComplete; listing.go:9-27 and List of each back end).
THEOREM ListingIsComplete == Spec => []ListingComplete
<1>1. IInv => ListingComplete
  BY DEF IInv, BaseInv, ListInv, ListingComplete, Retracted
<1> QED
  BY <1>1, Inductive, PTL

\* Every snapshot published stays readable through any number of inits, creates, rewraps and
\* rekeys, failures and crashes, where no init removes the encryption by force and no rekey
\* that has replaced config.json is told it failed (SnapshotsReadable; README.md:682-686,
\* create.go:158, rewrap.go:16, update_config.go:5).
THEOREM SnapshotsStayReadable == Spec => [](Safe(setting) => SnapshotsReadable)
<1>1. IInv => (Safe(setting) => SnapshotsReadable)
  <2> SUFFICES ASSUME IInv, Safe(setting), NEW i \in WholeManifests
               PROVE  LET m == manifests[i] IN
                      IF ~m.keyed THEN objects[0][m.comp] = Plain
                      ELSE \/ config = Torn /\ InPlace
                           \/ /\ Readable(config) /\ Encrypted(config)
                              /\ objects[config.enc.gen][m.comp] = config.enc.key
    BY DEF SnapshotsReadable
  <2>1. i \in Ids /\ manifests[i].state = "whole"
    BY DEF WholeManifests
  <2>2. ~manifests[i].keyed => objects[0][manifests[i].comp] = Plain
    BY <2>1 DEF IInv, BaseInv, PlainInv
  <2>3. established # NoConfig /\ (config = Torn => InPlace) /\ config # NoConfig
    BY <2>1 DEF IInv, KeyInv, IdentityInv, Safe
  <2>4. config = Torn \/ Readable(config)
    BY <2>3, ConfigFacts DEF IInv, BaseInv, TypeOK
  <2>5. manifests[i].keyed /\ Readable(config) =>
          Encrypted(config) /\ objects[config.enc.gen][manifests[i].comp] = config.enc.key
    BY <2>1 DEF IInv, KeyInv, Opens
  <2> QED
    BY <2>2, <2>3, <2>4, <2>5
<1> QED
  BY <1>1, Inductive, PTL

\* config.json only becomes what a command that writes it has in hand, or is torn.
LEMMA ConfigSteps ==
  ASSUME TypeOK, [Next]_vars
  PROVE  config' = config \/ config' = Torn \/ \E p \in Procs : Writes(p) /\ config' = conf[p]
<1>1. CASE UNCHANGED vars
  BY <1>1 DEF vars, configVars
<1>2. ASSUME NEW p \in Procs, NEW o \in Operations, StartCommand(p, o) PROVE config' = config
  BY <1>2 DEF StartCommand, configVars
<1>3. ASSUME NEW p \in Procs, CommandStep(p)
      PROVE  config' = config \/ config' = Torn \/ (Writes(p) /\ config' = conf[p])
  <2>1. CASE InitExists(p) \/ InitFolder(p) \/ InitPrevious(p) \/ InitFolders(p)
    BY <2>1 DEF InitExists, InitFolder, InitPrevious, InitFolders, configVars
  <2>2. CASE CreateReads(p) \/ CreateSaves(p) \/ PublishStarts(p) \/ PublishReturns(p)
    BY <2>2 DEF CreateReads, CreateSaves, PublishStarts, PublishReturns, configVars
  <2>3. CASE RewrapReads(p) \/ RekeyCopies(p) \/ RekeyDeletes(p) \/ Crash(p)
    BY <2>3 DEF RewrapReads, RekeyCopies, RekeyDeletes, Crash, configVars
  <2>4. CASE ListNames(p) \/ ListNextPage(p) \/ ListReads(p) \/ ListReturns(p)
    BY <2>4 DEF ListNames, ListNextPage, ListReads, ListReturns, configVars
  <2>5. CASE CreateConfigStarts(p)
    <3>1. PICK w \in Folder.writing :
            config' = CASE w = "old" -> config [] w = "new" -> conf[p] [] w = "torn" -> Torn
      BY <2>5 DEF CreateConfigStarts
    <3>2. w \in {"old", "new", "torn"}
      BY SettingFacts
    <3> QED
      BY <2>5, <3>1, <3>2 DEF CreateConfigStarts, Writes
  <2>6. CASE CreateConfigReturns(p)
    BY <2>6 DEF CreateConfigReturns, Writes
  <2>7. CASE CommandFails(p)
    BY <2>7 DEF CommandFails, Writes
  <2> QED
    BY <1>3, <2>1, <2>2, <2>3, <2>4, <2>5, <2>6, <2>7 DEF CommandStep
<1> QED
  BY <1>1, <1>2, <1>3 DEF Next

\* Where no init removes the encryption by force, no step of any command takes away the
\* identity or the format of the repository, goes back to an earlier generation, or replaces
\* the key of a generation (ConfigKeepsIdentity; init.go:26-32, update_config.go:5-20).
THEOREM IdentityIsKept == Spec /\ KeepsKey(setting) => ConfigKeepsIdentity
<1> DEFINE Keeps ==
      Readable(config) /\ Readable(config') =>
        /\ config'.id = established.id /\ config'.format = established.format
        /\ config'.enc.gen >= config.enc.gen
        /\ Encrypted(config) /\ config'.enc.gen = config.enc.gen
             => config'.enc.key = config.enc.key
<1>1. IInv /\ KeepsKey(setting) /\ [Next]_vars => Keeps
  <2> SUFFICES ASSUME IInv, KeepsKey(setting), [Next]_vars, Readable(config), Readable(config')
               PROVE  /\ config'.id = established.id /\ config'.format = established.format
                      /\ config'.enc.gen >= config.enc.gen
                      /\ Encrypted(config) /\ config'.enc.gen = config.enc.gen
                           => config'.enc.key = config.enc.key
    OBVIOUS
  <2>1. /\ IdentityInv /\ BaseInv /\ established # NoConfig
        /\ config.id = established.id /\ config.format = established.format
    BY DEF IInv, BaseInv, ConfInv, IdentityInv
  <2>2. /\ config.enc.gen \in Nat /\ (~Encrypted(config) => config.enc.gen = 0)
    BY <2>1, EncOf DEF BaseInv, TypeOK
  <2>3. CASE config' = config
    BY <2>1, <2>2, <2>3
  <2>4. CASE config' = Torn
    BY <2>4, ConfigFacts
  <2>5. CASE \E p \in Procs : Writes(p) /\ config' = conf[p]
    <3>1. PICK p \in Procs : Writes(p) /\ config' = conf[p]
      BY <2>5
    <3>2. conf[p].id = established.id /\ conf[p].format = established.format
      BY <2>1, <3>1 DEF IdentityInv
    <3>3. conf[p].enc.gen \in Nat
      BY <2>1, EncOf DEF BaseInv, TypeOK
    <3>4. \/ config = conf[p]
          \/ IF op[p] = "rekey" THEN conf[p].enc.gen = config.enc.gen + 1
             ELSE Encrypted(config) => /\ conf[p].enc.gen = config.enc.gen
                                       /\ conf[p].enc.key = config.enc.key
      BY <2>1, <3>1 DEF IdentityInv
    <3> QED
      BY <2>2, <3>1, <3>2, <3>3, <3>4
  <2> QED
    BY <2>1, <2>3, <2>4, <2>5, ConfigSteps DEF BaseInv
<1>2. KeepsKey(setting) /\ [Next]_vars => KeepsKey(setting)'
  <2> SUFFICES ASSUME KeepsKey(setting), [Next]_vars PROVE KeepsKey(setting)'
    OBVIOUS
  <2>1. setting' = setting
    BY DEF Next, vars, CommandStep, StartCommand, InitExists, InitFolder, InitPrevious, InitFolders,
       CreateConfigStarts, CreateConfigReturns, CreateReads, CreateSaves, PublishStarts,
       PublishReturns, RewrapReads, RekeyCopies, RekeyDeletes, ListNames, ListNextPage, ListReads,
       ListReturns, CommandFails, Crash
  <2> QED
    BY <2>1 DEF KeepsKey
<1> QED
  BY <1>1, <1>2, Inductive, PTL DEF Spec, ConfigKeepsIdentity

=============================================================================
