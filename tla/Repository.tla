------------------------------ MODULE Repository ------------------------------
(***************************************************************************)
(* The life of a repository under all commands that write to it: init      *)
(* (repository/init.go, update_config.go), snapshot create, key rewrap     *)
(* (repository/rewrap.go), key rekey, and snapshot list.  The commands     *)
(* meet in config.json, in the namespaces of the objects and in snapshots/.*)
(*                                                                         *)
(* Here a snapshot is one file, whose hash depends on the compression      *)
(* alone; how the objects of many files are written is in CreateSnapshot.  *)
(* Copying the objects of a rekey, and deleting a generation, is one step; *)
(* Rekey shows that they may be seen so.  An object is the key it is       *)
(* encrypted under.                                                        *)
(*                                                                         *)
(* Commands of several processes interleave as far as README.md:607 allows *)
(* and any of them may fail at any call or die.                            *)
(***************************************************************************)
EXTENDS Naturals, FiniteSets, FolderRepository

CONSTANTS
  Procs,        \* processes that run commands
  Compressions, \* compression settings
  KeyPairs,     \* RSA key pairs of the user
  MaxCommands,  \* bound: commands run in all
  Settings      \* the settings under study: a set of records, see SettingType

None == "none"

\* What init may be called with.
InitArgs ==
  [pub : KeyPairs \cup {None}, force : BOOLEAN, comp : Compressions, format : {1, 2}]

Operations == {"init", "create", "rewrap", "rekey", "list"}

\* "lost reply": a CreateConfig that took effect reports an error.
SettingType ==
  [backend : AllBackends, procs : SUBSET Procs, menu : SUBSET Operations,
   inits : SUBSET InitArgs, faults : SUBSET {"error", "lost reply", "crash"}, max : 0..MaxCommands]

ASSUME RepositoryAssumption ==
  /\ MaxCommands \in Nat /\ None \notin KeyPairs
  /\ Settings \subseteq SettingType

Ids == 1..MaxCommands            \* commands, and what each makes up: keys, snapshots
Namespaces == 0..(MaxCommands + 1)  \* 0: objects/; g: objects/encrypted/<g>
Plain == 0                       \* the key of an object stored without one
Nothing == MaxCommands + 1       \* no object

VARIABLES
  setting,     \* never changes
  folder,      \* the repository's folder exists
  snapshots,   \* the folder of the manifests exists
  config,      \* config.json
  established, \* the first config.json there was
  objects,     \* objects[namespace][hash]: the key of the object
  manifests,   \* the snapshot of each create
  count,       \* commands started
  op,          \* the command of each process
  step,        \* where it is in it
  id,          \* its number
  args,        \* its arguments
  conf,        \* the config.json it has read, or is going to write
  exists,      \* what init's Exists answered
  whole,       \* the snapshots there were when list started
  passed,      \* the names up to the end of the page list is at
  entries,     \* those of them it has still to read
  listed       \* the snapshots it has read

folderVars == <<folder, snapshots>>
configVars == <<config, established>>
commandVars == <<count, op, id, args>>
listVars == <<whole, passed, entries, listed>>
vars == <<setting, folderVars, configVars, objects, manifests, commandVars, step, conf,
          exists, listVars>>

backend == setting.backend
Faults == setting.faults
Folder == FolderRepositoryOf(backend)

\* Encryption: the active generation, the symmetric key, the key pair that wraps it.
NoEncryption == [gen |-> 0, key |-> Plain, wrap |-> None]
Encryptions ==
  {NoEncryption} \cup [gen : 1..(MaxCommands + 1), key : Ids, wrap : KeyPairs]
Configs == [id : Ids, format : {1, 2}, comp : Compressions, enc : Encryptions]

\* No config.json, and one that GetConfig cannot parse.
NoConfig == [id |-> 0, format |-> 0, comp |-> None, enc |-> NoEncryption]
Torn == [NoConfig EXCEPT !.format = 1]
NoManifest == [state |-> "none", comp |-> None, keyed |-> FALSE]
NoArgs == [priv |-> None, pub |-> None, force |-> FALSE, comp |-> None, format |-> 0]

Readable(c) == c.id # 0
Encrypted(c) == c.enc # NoEncryption

Steps ==
  {"idle", "exists", "folder", "previous", "write", "writing", "folders", "create", "save",
   "publish", "publishing", "rewrap", "rekey", "delete", "list", "reading"}
ArgsType ==
  [priv : KeyPairs \cup {None}, pub : KeyPairs \cup {None}, force : BOOLEAN,
   comp : Compressions \cup {None}, format : 0..2]

\* Types; an object of objects/ has no key, one of a generation has one.
TypeOK ==
  /\ setting \in Settings
  /\ folder \in BOOLEAN /\ snapshots \in BOOLEAN /\ config \in Configs \cup {NoConfig, Torn}
  /\ established \in Configs \cup {NoConfig}
  /\ objects \in [Namespaces -> [Compressions -> Ids \cup {Plain, Nothing}]]
  /\ \A n \in Namespaces : \A h \in Compressions :
       objects[n][h] \in IF n = 0 THEN {Plain, Nothing} ELSE Ids \cup {Nothing}
  /\ manifests \in [Ids -> [state : {"none", "torn", "whole"}, comp : Compressions \cup {None},
                            keyed : BOOLEAN]]
  /\ count \in 0..MaxCommands
  /\ op \in [Procs -> Operations \cup {None}] /\ step \in [Procs -> Steps]
  /\ id \in [Procs -> 0..MaxCommands] /\ args \in [Procs -> ArgsType]
  /\ conf \in [Procs -> Configs \cup {NoConfig}] /\ exists \in [Procs -> BOOLEAN]
  /\ whole \in [Procs -> SUBSET Ids] /\ passed \in [Procs -> SUBSET Ids]
  /\ entries \in [Procs -> SUBSET Ids] /\ listed \in [Procs -> SUBSET Ids]

Init ==
  /\ setting \in Settings
  /\ folder = FALSE /\ snapshots = FALSE /\ config = NoConfig /\ established = NoConfig
  /\ objects = [n \in Namespaces |-> [h \in Compressions |-> Nothing]]
  /\ manifests = [i \in Ids |-> NoManifest]
  /\ count = 0
  /\ op = [p \in Procs |-> None] /\ step = [p \in Procs |-> "idle"]
  /\ id = [p \in Procs |-> 0] /\ args = [p \in Procs |-> NoArgs]
  /\ conf = [p \in Procs |-> NoConfig] /\ exists = [p \in Procs |-> FALSE]
  /\ whole = [p \in Procs |-> {}] /\ passed = [p \in Procs |-> {}]
  /\ entries = [p \in Procs |-> {}] /\ listed = [p \in Procs |-> {}]

-----------------------------------------------------------------------------
(* Starting a command.                                                       *)

\* README.md:607: rewrap and rekey run alone, a listing aside; one init at a time.
Compatible(o) ==
  \A q \in Procs : step[q] # "idle" =>
    \/ "list" \in {o, op[q]}
    \/ {o, op[q]} \in {{"create"}, {"create", "init"}}

Arguments(o) ==
  CASE o = "init" ->
         {[priv |-> None, pub |-> a.pub, force |-> a.force, comp |-> a.comp, format |-> a.format] :
            a \in setting.inits}
    [] o = "create" -> {[NoArgs EXCEPT !.priv = k] : k \in KeyPairs \cup {None}}
    [] o \in {"rewrap", "rekey"} ->
         [priv : KeyPairs, pub : KeyPairs, force : {FALSE}, comp : {None}, format : {0}]
    [] o = "list" -> {NoArgs}

StartCommand(p, o) ==
  /\ p \in setting.procs /\ o \in setting.menu
  /\ step[p] = "idle" /\ count < setting.max /\ Compatible(o)
  /\ count' = count + 1 /\ id' = [id EXCEPT ![p] = count + 1]
  /\ op' = [op EXCEPT ![p] = o]
  /\ \E a \in Arguments(o) : args' = [args EXCEPT ![p] = a]
  /\ step' = [step EXCEPT ![p] = IF o = "init" THEN "exists" ELSE o]
  /\ UNCHANGED <<setting, folderVars, configVars, objects, manifests, conf, exists, listVars>>

Go(p, s) == step' = [step EXCEPT ![p] = s]

-----------------------------------------------------------------------------
(* init                                                                      *)

\* Exists.
InitExists(p) ==
  /\ step[p] = "exists"
  /\ exists' = [exists EXCEPT ![p] = IF Folder.exists = "folder" THEN folder ELSE config # NoConfig]
  /\ Go(p, "folder")
  /\ UNCHANGED <<setting, folderVars, configVars, objects, manifests, commandVars, conf, listVars>>

\* CreateEncryptionConfig: a new symmetric key, always in generation 1.
NewEncryption(p) ==
  IF args[p].pub = None THEN NoEncryption
  ELSE [gen |-> 1, key |-> id[p], wrap |-> args[p].pub]

NewConfig(p) ==
  [id |-> id[p], format |-> args[p].format, comp |-> args[p].comp, enc |-> NewEncryption(p)]

\* CreateFolder; the configuration of the command line is used as it is if there was none.
InitFolder(p) ==
  /\ step[p] = "folder"
  /\ folder' = (folder \/ Folder.folders)
  /\ conf' = [conf EXCEPT ![p] = NewConfig(p)]
  /\ Go(p, IF exists[p] THEN "previous" ELSE "write")
  /\ UNCHANGED <<setting, snapshots, configVars, objects, manifests, commandVars, exists, listVars>>

\* Mutant: a public key given again replaces the encryption there is.
KeepsNoEncryption(p, previous) ==
  [id |-> previous.id, format |-> previous.format, comp |-> args[p].comp,
   enc |-> IF args[p].pub # None \/ args[p].force THEN NewEncryption(p) ELSE previous.enc]

\* updateConfig: id and format stay, and so does the encryption, unless it is removed by
\* force; a repository that has none gets the one of the command line.
UpdateConfig(p, previous) ==
  [id |-> previous.id, format |-> previous.format, comp |-> args[p].comp,
   enc |-> IF ~Encrypted(previous) \/ (args[p].pub = None /\ args[p].force)
           THEN NewEncryption(p) ELSE previous.enc]

\* GetConfig, updateConfig.
InitPrevious(p) ==
  /\ step[p] = "previous" /\ Readable(config)
  /\ conf' = [conf EXCEPT ![p] = UpdateConfig(p, config)]
  /\ Go(p, "write")
  /\ UNCHANGED <<setting, folderVars, configVars, objects, manifests, commandVars, exists, listVars>>

\* CreateFolder of objects/ and of snapshots/, after config.json is there.
InitFolders(p) ==
  /\ step[p] = "folders"
  /\ snapshots' = (snapshots \/ Folder.folders)
  /\ Go(p, "idle")
  /\ UNCHANGED <<setting, folder, configVars, objects, manifests, commandVars, conf, exists, listVars>>

-----------------------------------------------------------------------------
(* CreateConfig, for init, rewrap and rekey.                                 *)

CreateConfigStarts(p) ==
  /\ step[p] = "write"
  /\ \E w \in Folder.writing :
       config' = CASE w = "old" -> config [] w = "new" -> conf[p] [] w = "torn" -> Torn
  /\ established' = IF established = NoConfig /\ Readable(config') THEN config' ELSE established
  /\ Go(p, "writing")
  /\ UNCHANGED <<setting, folderVars, objects, manifests, commandVars, conf, exists, listVars>>

CreateConfigReturns(p) ==
  /\ step[p] = "writing"
  /\ config' = conf[p]
  /\ established' = IF established = NoConfig THEN conf[p] ELSE established
  /\ Go(p, CASE op[p] = "init"   -> "folders"
             [] op[p] = "rewrap" -> "idle"
             [] op[p] = "rekey"  -> "delete")
  /\ UNCHANGED <<setting, folderVars, objects, manifests, commandVars, conf, exists, listVars>>

-----------------------------------------------------------------------------
(* snapshot create                                                           *)

\* The private key given opens the configuration.
Unwraps(p, c) == Encrypted(c) /\ args[p].priv = c.enc.wrap

\* GetConfig and getSymmetricKey: without a private key nothing is encrypted, also in an
\* encrypted repository.
CreateReads(p) ==
  /\ step[p] = "create" /\ Readable(config)
  /\ args[p].priv = None \/ Unwraps(p, config)
  /\ conf' = [conf EXCEPT ![p] = config]
  /\ Go(p, "save")
  /\ UNCHANGED <<setting, folderVars, configVars, objects, manifests, commandVars, exists, listVars>>

Keyed(p) == args[p].priv # None
Namespace(p) == IF Keyed(p) THEN conf[p].enc.gen ELSE 0
Key(p) == IF Keyed(p) THEN conf[p].enc.key ELSE Plain

\* Mutant: the namespace follows the repository's encryption, not the key given.
SavesPlainInGeneration(p) ==
  /\ step[p] = "save"
  /\ objects' = IF objects[conf[p].enc.gen][conf[p].comp] # Nothing THEN objects
                ELSE [objects EXCEPT ![conf[p].enc.gen][conf[p].comp] = Key(p)]
  /\ Go(p, "publish")
  /\ UNCHANGED <<setting, folderVars, configVars, manifests, commandVars, conf, exists, listVars>>

\* AlreadyExists, else SaveChunk or Save.
CreateSaves(p) ==
  /\ step[p] = "save"
  /\ objects' = IF objects[Namespace(p)][conf[p].comp] # Nothing THEN objects
                ELSE [objects EXCEPT ![Namespace(p)][conf[p].comp] = Key(p)]
  /\ Go(p, "publish")
  /\ UNCHANGED <<setting, folderVars, configVars, manifests, commandVars, conf, exists, listVars>>

\* snapshots/ is there, or no folder is needed.
HasSnapshots == snapshots \/ ~Folder.folders

\* ManifestRepository.Save.
PublishStarts(p) ==
  /\ step[p] = "publish"
  /\ HasSnapshots \/ Folder.publishing = "creates"
  /\ snapshots' = (snapshots \/ Folder.publishing = "creates")
  /\ \E s \in ManifestSaveOf(backend).open :
       manifests' = [manifests EXCEPT ![id[p]] =
                       [state |-> s, comp |-> conf[p].comp, keyed |-> Keyed(p)]]
  /\ Go(p, "publishing")
  /\ UNCHANGED <<setting, folder, configVars, objects, commandVars, conf, exists, listVars>>

PublishReturns(p) ==
  /\ step[p] = "publishing"
  /\ manifests' = [manifests EXCEPT ![id[p]].state = "whole"]
  /\ Go(p, "idle")
  /\ UNCHANGED <<setting, folderVars, configVars, objects, commandVars, conf, exists, listVars>>

-----------------------------------------------------------------------------
(* key rewrap, key rekey                                                     *)

\* Rewrap.Do: the same symmetric key under another public key.
RewrapReads(p) ==
  /\ step[p] = "rewrap" /\ Readable(config) /\ Unwraps(p, config)
  /\ conf' = [conf EXCEPT ![p] = [config EXCEPT !.enc.wrap = args[p].pub]]
  /\ Go(p, "write")
  /\ UNCHANGED <<setting, folderVars, configVars, objects, manifests, commandVars, exists, listVars>>

\* The objects of a generation, and whether all of them decrypt.
Stored(g) == {h \in Compressions : objects[g][h] # Nothing}
Decrypts(c) == \A h \in Stored(c.enc.gen) : objects[c.enc.gen][h] = c.enc.key

\* ReKey.Do up to CreateConfig: every object under a new key in the next generation.
RekeyCopies(p) ==
  /\ step[p] = "rekey" /\ Readable(config) /\ Unwraps(p, config) /\ Decrypts(config)
  /\ LET g == config.enc.gen IN
     /\ objects' = [objects EXCEPT ![g + 1] =
                      [h \in Compressions |-> IF h \in Stored(g) THEN id[p] ELSE @[h]]]
     /\ conf' = [conf EXCEPT ![p] =
                   [config EXCEPT !.enc = [gen |-> g + 1, key |-> id[p], wrap |-> args[p].pub]]]
  /\ Go(p, "write")
  /\ UNCHANGED <<setting, folderVars, configVars, manifests, commandVars, exists, listVars>>

\* DeleteEncryptedGeneration of generation g: the SMB back end deletes nothing.
Without(g) ==
  IF backend = "smb" THEN objects
  ELSE [objects EXCEPT ![g] = [h \in Compressions |-> Nothing]]

\* Mutant: the generation is taken from the configuration already changed.
DeletesActiveGeneration(p) ==
  /\ step[p] = "delete"
  /\ objects' = Without(conf[p].enc.gen)
  /\ Go(p, "idle")
  /\ UNCHANGED <<setting, folderVars, configVars, manifests, commandVars, conf, exists, listVars>>

RekeyDeletes(p) ==
  /\ step[p] = "delete"
  /\ objects' = Without(conf[p].enc.gen - 1)
  /\ Go(p, "idle")
  /\ UNCHANGED <<setting, folderVars, configVars, manifests, commandVars, conf, exists, listVars>>

-----------------------------------------------------------------------------
(* snapshot list                                                             *)

WholeManifests == {i \in Ids : manifests[i].state = "whole"}

\* The names in snapshots/.
Present == {i \in Ids : manifests[i].state # "none"}

CanList == snapshots \/ ListOf(backend).missing = "empty"

\* What one page may hold, given the names passed already.  A name is the second its
\* create ended in and a random tail, so that a new one may lie before or after any other.
\* A listing that is not paged gets all names at once.
PagesAfter(done) ==
  IF ListOf(backend).paged THEN {upto \in SUBSET Ids : done \subseteq upto /\ upto # done}
  ELSE {Ids}

NextPage(p, done) ==
  \E upto \in PagesAfter(done) :
    /\ passed' = [passed EXCEPT ![p] = upto]
    /\ entries' = [entries EXCEPT ![p] = Present \cap (upto \ done)]

\* ReadDir, or the first page.
ListNames(p) ==
  /\ step[p] = "list" /\ CanList
  /\ whole' = [whole EXCEPT ![p] = WholeManifests]
  /\ NextPage(p, {})
  /\ listed' = [listed EXCEPT ![p] = {}]
  /\ Go(p, "reading")
  /\ UNCHANGED <<setting, folderVars, configVars, objects, manifests, commandVars, conf, exists>>

\* The manifests of the page are read and there are more pages.
ListNextPage(p) ==
  /\ step[p] = "reading" /\ entries[p] = {} /\ passed[p] # Ids
  /\ NextPage(p, passed[p])
  /\ UNCHANGED <<setting, folderVars, configVars, objects, manifests, commandVars, step, conf, exists,
                 whole, listed>>

\* The next manifest is read and parsed.
ListReads(p) ==
  /\ step[p] = "reading"
  /\ \E i \in entries[p] :
       /\ manifests[i].state = "whole"
       /\ entries' = [entries EXCEPT ![p] = @ \ {i}]
       /\ listed' = [listed EXCEPT ![p] = @ \cup {i}]
  /\ UNCHANGED <<setting, folderVars, configVars, objects, manifests, commandVars, step, conf, exists,
                 whole, passed>>

\* Mutant: nobody asks whether there are more pages.
ReturnsFirstPage(p) ==
  /\ step[p] = "reading" /\ entries[p] = {}
  /\ Go(p, "idle")
  /\ UNCHANGED <<setting, folderVars, configVars, objects, manifests, commandVars, conf, exists, listVars>>

ListReturns(p) ==
  /\ step[p] = "reading" /\ entries[p] = {} /\ passed[p] = Ids
  /\ Go(p, "idle")
  /\ UNCHANGED <<setting, folderVars, configVars, objects, manifests, commandVars, conf, exists, listVars>>

-----------------------------------------------------------------------------
(* Failure.                                                                  *)

\* The command cannot go on: what it reads is not there, not readable, or not opened by
\* the key given.
Refused(p) ==
  \/ step[p] = "previous" /\ ~Readable(config)
  \/ step[p] \in {"create", "rewrap", "rekey"} /\ ~Readable(config)
  \/ step[p] = "create" /\ Readable(config) /\ args[p].priv # None /\ ~Unwraps(p, config)
  \/ step[p] \in {"rewrap", "rekey"} /\ Readable(config) /\ ~Unwraps(p, config)
  \/ step[p] = "rekey" /\ Readable(config) /\ Unwraps(p, config) /\ ~Decrypts(config)
  \/ step[p] = "publish" /\ ~HasSnapshots /\ Folder.publishing # "creates"
  \/ step[p] = "list" /\ ~CanList
  \/ step[p] = "reading" /\ \E i \in entries[p] : manifests[i].state # "whole"

\* What a failing command leaves of the objects: the deferred AbortRekey of a rekey that
\* has listed its objects and not committed removes the new generation.
AfterAbort(p) ==
  CASE op[p] = "rekey" /\ step[p] \in {"write", "writing"} -> {Without(conf[p].enc.gen)}
    [] step[p] = "rekey" /\ Readable(config) /\ Unwraps(p, config) ->
         {objects, Without(config.enc.gen + 1)}
    [] OTHER -> {objects}

\* Nothing is returned of what a listing has read.
ForgetListing(p) ==
  /\ whole' = [whole EXCEPT ![p] = {}] /\ passed' = [passed EXCEPT ![p] = {}]
  /\ entries' = [entries EXCEPT ![p] = {}] /\ listed' = [listed EXCEPT ![p] = {}]

\* It fails there, or any call fails: the command returns an error.
CommandFails(p) ==
  /\ step[p] # "idle"
  /\ Refused(p) \/ "error" \in Faults
  /\ config' \in IF step[p] = "writing" /\ "lost reply" \in Faults
                 THEN {config, conf[p]} ELSE {config}
  /\ established' = IF established = NoConfig /\ Readable(config') THEN config' ELSE established
  /\ objects' \in AfterAbort(p)
  /\ IF step[p] = "publishing"
     THEN \E s \in ManifestSaveOf(backend).failed :
            /\ manifests[id[p]].state = "whole" => s # "torn"
            /\ manifests' = [manifests EXCEPT ![id[p]].state = s]
     ELSE manifests' = manifests
  /\ Go(p, "idle") /\ ForgetListing(p)
  /\ UNCHANGED <<setting, folderVars, commandVars, conf, exists>>

\* The process dies.
Crash(p) ==
  /\ "crash" \in Faults /\ step[p] # "idle"
  /\ Go(p, "idle") /\ ForgetListing(p)
  /\ UNCHANGED <<setting, folderVars, configVars, objects, manifests, commandVars, conf, exists>>

CommandStep(p) ==
  \/ InitExists(p) \/ InitFolder(p) \/ InitPrevious(p) \/ InitFolders(p)
  \/ CreateConfigStarts(p) \/ CreateConfigReturns(p)
  \/ CreateReads(p) \/ CreateSaves(p) \/ PublishStarts(p) \/ PublishReturns(p)
  \/ RewrapReads(p) \/ RekeyCopies(p) \/ RekeyDeletes(p)
  \/ ListNames(p) \/ ListNextPage(p) \/ ListReads(p) \/ ListReturns(p)
  \/ CommandFails(p) \/ Crash(p)

Next == \E p \in Procs : CommandStep(p) \/ \E o \in Operations : StartCommand(p, o)

Spec == Init /\ [][Next]_vars

-----------------------------------------------------------------------------
(* Properties.                                                              *)

\* config.json can be lost where it is rewritten in place: on disk, over SMB and WebDAV.
InPlace == "torn" \in Folder.writing

\* Every snapshot published stays readable through all later commands, failures and
\* crashes: without a key the one made without, with the key config.json wraps, in the
\* generation it names, the one made with a key.  Only where config.json is rewritten in
\* place may a crash take the key away (README.md:682-686; create.go:158, rewrap.go:16,
\* update_config.go:5).
SnapshotsReadable ==
  \A i \in WholeManifests :
    LET m == manifests[i] IN
    IF ~m.keyed THEN objects[0][m.comp] = Plain
    ELSE \/ config = Torn /\ InPlace
         \/ /\ Readable(config) /\ Encrypted(config)
            /\ objects[config.enc.gen][m.comp] = config.enc.key

\* However often init is run again, fails, or dies: the repository keeps the identity and
\* the format it was created with, and never loses its encryption or goes back to an
\* earlier generation (init.go:26-32, update_config.go:5-20).
ConfigKeepsIdentity ==
  [][Readable(config) /\ Readable(config') =>
       /\ config'.id = established.id /\ config'.format = established.format
       /\ config'.enc.gen >= config.enc.gen
       /\ Encrypted(config) /\ config'.enc.gen = config.enc.gen
            => config'.enc.key = config.enc.key]_vars

\* A create may remove a manifest that others could read: over SSH, if the Chmod fails.
Retracts == "whole" \in ManifestSaveOf(backend).open

\* A listing that returns has every snapshot published before it started, whatever page it
\* is on, and none that is incomplete, whatever is published or fails meanwhile; only one
\* that its own create has taken back since may be missing (listing.go:9-27 and List of
\* each back end).
ListingComplete ==
  \A p \in Procs :
    /\ \A i \in listed[p] :
         manifests[i].state = "whole" \/ (Retracts /\ manifests[i].state = "none")
    /\ op[p] = "list" /\ step[p] = "idle" => whole[p] \subseteq listed[p]

=============================================================================
