------------------------------- MODULE Restore -------------------------------
(***************************************************************************)
(* Restoring a snapshot (Restore.Restore of restore.go) or one file of it  *)
(* (RestoreFile.Restore of restore_file.go), on any back end.  The files   *)
(* of the manifest are restored one after the other: the destination is    *)
(* opened, which truncates what the user has there, the objects are copied *)
(* into it in order, the size is compared, and after an error the          *)
(* destination is removed.                                                 *)
(*                                                                         *)
(* Paths are sequences of characters, because ChangeSourcePath moves a     *)
(* file with strings.ReplaceAll: every occurrence of the source path is    *)
(* replaced, not only the one the path begins with.                        *)
(*                                                                         *)
(* Any call may fail, the context may be cancelled, the process may die,   *)
(* and objects may be absent or altered.                                   *)
(***************************************************************************)
EXTENDS Naturals, Sequences, FiniteSets, Functions, SequencesExt, ObjectStore

CONSTANTS
  Hashes,    \* hashes of encoded content
  NoHash,    \* the empty hash of a damaged manifest
  Old,       \* what the user has at a destination before the restore
  Settings   \* the settings under study: a set of records, see Setting

\* A snapshot and a command: the back end; whether the repository is read with a key;
\* the files of the manifest in order (path, objects, recorded size); the source path;
\* the destination, or the source itself when none is given; the one file asked for, or
\* <<>> for all; the faults of the environment.
Setting(s) ==
  /\ s.backend \in AllBackends
  /\ s.key \in BOOLEAN
  /\ s.source \in Seq(STRING) \ {<<>>} /\ s.destination \in Seq(STRING)
  /\ s.manifest \in Seq([path : Seq(STRING), pieces : Seq(Hashes \cup {NoHash}) \ {<<>>}, size : Nat])
  \* WalkDir comes to every file once.
  /\ \A i, k \in 1..Len(s.manifest) : s.manifest[i].path = s.manifest[k].path => i = k
  /\ s.faults \subseteq {"error", "cancel", "crash", "unremoved"}

VARIABLES
  setting,   \* never changes
  stored,    \* what an object decodes to; never changes
  local,     \* the files at the destination paths
  pc,        \* where the restore is
  index,     \* the file of the manifest it is at
  part,      \* objects of it already copied
  restored,  \* files reported as restored (indexes of the manifest)
  failed,    \* files reported as failed
  ctxDone    \* the caller's context is cancelled

vars == <<setting, stored, local, pc, index, part, restored, failed, ctxDone>>

Manifest == setting.manifest
Faults == setting.faults
Traits == RestoreObjectOf(setting.backend)

\* A part of a local file: the content a hash stands for, of one unit, or any other
\* content of n units (read without a key: nothing authenticates it).
Other(n) == <<"other", n>>
SizeOf(c) == IF c \in Hashes THEN 1 ELSE c[2]
Content == Hashes \cup {Other(n) : n \in 0..2}
TotalSize(parts) ==
  LET total[i \in 0..Len(parts)] == IF i = 0 THEN 0 ELSE total[i - 1] + SizeOf(parts[i])
  IN  total[Len(parts)]

\* "absent"; "broken": it fails to decode; else what it decodes to.
Absent == <<"absent">>
Broken == <<"broken">>
States(h) == {Absent, Broken, h} \cup {Other(n) : n \in 0..2}

ASSUME RestoreSettingsAssumption == \A s \in Settings : Setting(s)
ASSUME RestoreHashesAssumption ==
  /\ NoHash \notin Hashes /\ Old \notin Hashes /\ Absent \notin Hashes /\ Broken \notin Hashes
  /\ \A n \in 0..2 : Other(n) \notin Hashes

NoFile == [there |-> FALSE, content |-> <<>>]
File(parts) == [there |-> TRUE, content |-> parts]

-----------------------------------------------------------------------------
(* ChangeSourcePath.                                                         *)

OccursAt(path, source, i) ==
  /\ i + Len(source) - 1 <= Len(path)
  /\ SubSeq(path, i, i + Len(source) - 1) = source

\* strings.ReplaceAll: occurrences from the left, none overlapping.
ReplaceOccurrences(path, source, destination) ==
  LET from[i \in 1..(Len(path) + Len(source))] ==
        IF i > Len(path) THEN <<>>
        ELSE IF OccursAt(path, source, i) THEN destination \o from[i + Len(source)]
        ELSE <<path[i]>> \o from[i + 1]
  IN  from[1]

\* Where the file goes.
Target(i) == ReplaceOccurrences(Manifest[i].path, setting.source, setting.destination)

\* Where it belongs: at the same place under the destination as it had under the source.
Proper(i) ==
  setting.destination
    \o SubSeq(Manifest[i].path, Len(setting.source) + 1, Len(Manifest[i].path))

\* The source path occurs in the file's path only as its beginning.
OccursOnce(i) ==
  \A k \in 1..Len(Manifest[i].path) : OccursAt(Manifest[i].path, setting.source, k) => k = 1

Targets == {Target(i) : i \in 1..Len(Manifest)}
             \cup {Proper(i) : i \in 1..Len(Manifest)}

-----------------------------------------------------------------------------

\* Types; the part being copied is one the file has.
TypeOK ==
  /\ setting \in Settings
  /\ DOMAIN stored = Hashes /\ \A h \in Hashes : stored[h] \in States(h)
  /\ local \in [Targets -> [there : BOOLEAN, content : Seq(Content \cup {Old})]]
  /\ pc \in {"start", "next", "copy", "remove", "done", "error", "dead"}
  /\ index \in 0..Len(Manifest)
  /\ part \in IF index = 0 THEN {0} ELSE 0..Len(Manifest[index].pieces)
  /\ restored \subseteq 1..Len(Manifest) /\ failed \subseteq 1..Len(Manifest)
  /\ ctxDone \in BOOLEAN

Init ==
  /\ setting \in Settings
  /\ stored \in [Hashes -> UNION {States(h) : h \in Hashes}]
  /\ \A h \in Hashes : stored[h] \in States(h)
  \* AES-GCM: with a key an altered object cannot decode to anything else.
  /\ setting.key => \A h \in Hashes : stored[h] \in {Absent, Broken, h}
  /\ local \in [Targets -> {NoFile, File(<<Old>>)}]
  /\ pc = "start" /\ index = 0 /\ part = 0
  /\ restored = {} /\ failed = {} /\ ctxDone = FALSE

-----------------------------------------------------------------------------

\* The files to restore: all, or the first whose path is the one asked for (findFile).
Wanted(i) ==
  \/ setting.only = <<>>
  \/ /\ Manifest[i].path = setting.only
     /\ \A k \in 1..(i - 1) : Manifest[k].path # setting.only

Later == {i \in (index + 1)..Len(Manifest) : Wanted(i)}

\* Handle and manifestRepo.Get.
Start ==
  /\ pc = "start" /\ ~ctxDone
  /\ pc' = IF setting.only # <<>> /\ Later = {} THEN "error" ELSE "next"
  /\ UNCHANGED <<setting, stored, local, index, part, restored, failed, ctxDone>>

StartFails ==
  /\ pc = "start" /\ (ctxDone \/ "error" \in Faults)
  /\ pc' = "error"
  /\ UNCHANGED <<setting, stored, local, index, part, restored, failed, ctxDone>>

\* Mutant: the first file that fails ends the loop.
StopsAtFailure ==
  /\ pc = "next" /\ (Later = {} \/ failed # {})
  /\ pc' = "done"
  /\ UNCHANGED <<setting, stored, local, index, part, restored, failed, ctxDone>>

\* The loop over the files ends.
Return ==
  /\ pc = "next" /\ Later = {}
  /\ pc' = "done"
  /\ UNCHANGED <<setting, stored, local, index, part, restored, failed, ctxDone>>

NextFile(i) == i \in Later /\ \A k \in Later : i <= k

ValidHashes(i) == NoHash \notin Range(Manifest[i].pieces)

\* Mutant: the position within a file is kept for the next one.
OpenAtOldPart ==
  /\ pc = "next" /\ ~ctxDone
  /\ \E i \in 1..Len(Manifest) :
       /\ NextFile(i) /\ ValidHashes(i)
       /\ index' = i
       /\ local' = [local EXCEPT ![Target(i)] = File(<<>>)]
  /\ part' = part /\ pc' = "copy"
  /\ UNCHANGED <<setting, stored, restored, failed, ctxDone>>

\* RestoreObject: the directory, and the destination opened with O_TRUNC.
OpenDestination ==
  /\ pc = "next" /\ ~ctxDone
  /\ \E i \in 1..Len(Manifest) :
       /\ NextFile(i) /\ ValidHashes(i)
       /\ index' = i
       /\ local' = [local EXCEPT ![Target(i)] = File(<<>>)]
  /\ part' = 0 /\ pc' = "copy"
  /\ UNCHANGED <<setting, stored, restored, failed, ctxDone>>

\* An error before anything is opened: the context, an invalid hash, MkdirAll, OpenFile.
OpenFails ==
  /\ pc = "next"
  /\ \E i \in 1..Len(Manifest) :
       /\ NextFile(i)
       /\ ctxDone \/ ~ValidHashes(i) \/ "error" \in Faults
       /\ index' = i /\ failed' = failed \cup {i}
  /\ part' = 0 /\ pc' = "next"
  /\ UNCHANGED <<setting, stored, local, restored, ctxDone>>

Pieces == Manifest[index].pieces
Destination == Target(index)

\* Mutant: the parts of a file are fetched last to first.
CopyLastFirst ==
  /\ pc = "copy" /\ part < Len(Pieces) /\ ~ctxDone
  /\ stored[Pieces[Len(Pieces) - part]] \in Content
  /\ local' = [local EXCEPT ![Destination] =
                 File(Append(@.content, stored[Pieces[Len(Pieces) - part]]))]
  /\ part' = part + 1
  /\ UNCHANGED <<setting, stored, pc, index, restored, failed, ctxDone>>

\* restoreObjectPart: read, decrypt, decode, append.
CopyPart ==
  /\ pc = "copy" /\ part < Len(Pieces) /\ ~ctxDone
  /\ stored[Pieces[part + 1]] \in Content
  /\ local' = [local EXCEPT ![Destination] = File(Append(@.content, stored[Pieces[part + 1]]))]
  /\ part' = part + 1
  /\ UNCHANGED <<setting, stored, pc, index, restored, failed, ctxDone>>

\* The part is absent or broken, the context is done, or a call fails.
CopyFails ==
  /\ pc = "copy" /\ part < Len(Pieces)
  /\ ctxDone \/ "error" \in Faults \/ stored[Pieces[part + 1]] \notin Content
  /\ pc' = "remove"
  /\ UNCHANGED <<setting, stored, local, index, part, restored, failed, ctxDone>>

SizeMatches == Traits.sized => TotalSize(local[Destination].content) = Manifest[index].size

\* The size is right and Close succeeds: AddSuccess.
CloseDestination ==
  /\ pc = "copy" /\ part = Len(Pieces) /\ SizeMatches
  /\ restored' = restored \cup {index} /\ pc' = "next"
  /\ UNCHANGED <<setting, stored, local, index, part, failed, ctxDone>>

\* The size is wrong, or Close fails.
CloseFails ==
  /\ pc = "copy" /\ part = Len(Pieces)
  /\ ~SizeMatches \/ "error" \in Faults
  /\ pc' = "remove"
  /\ UNCHANGED <<setting, stored, local, index, part, restored, failed, ctxDone>>

\* The deferred os.Remove(destinationPath), whose error is ignored; AddFailed, or the
\* error returned where only one file was asked for.
RemoveDestination ==
  /\ pc = "remove"
  /\ \/ Traits.removes /\ local' = [local EXCEPT ![Destination] = NoFile]
     \/ ("unremoved" \in Faults \/ ~Traits.removes) /\ local' = local
  /\ failed' = failed \cup {index} /\ pc' = "next"
  /\ UNCHANGED <<setting, stored, index, part, restored, ctxDone>>

Running == pc \notin {"done", "error", "dead"}

Cancel ==
  /\ "cancel" \in Faults /\ Running /\ ~ctxDone
  /\ ctxDone' = TRUE
  /\ UNCHANGED <<setting, stored, local, pc, index, part, restored, failed>>

\* The process dies; what it has written stays.
Crash ==
  /\ "crash" \in Faults /\ Running
  /\ pc' = "dead"
  /\ UNCHANGED <<setting, stored, local, index, part, restored, failed, ctxDone>>

Next ==
  \/ Start \/ StartFails \/ Return \/ OpenDestination \/ OpenFails
  \/ CopyPart \/ CopyFails \/ CloseDestination \/ CloseFails \/ RemoveDestination
  \/ Cancel \/ Crash

Spec == Init /\ [][Next]_vars

-----------------------------------------------------------------------------
(* Properties.                                                              *)

\* Every path of the manifest begins with the source path (WalkDir cleans what it joins: a
\* source ./a gives a/x), and that is all that is replaced in it, or nothing moves.  The root
\* directory is a source that ends with the separator: /a becomes <dest>a.
PathsPlain ==
  /\ \A i \in 1..Len(Manifest) : OccursAt(Manifest[i].path, setting.source, 1)
  /\ \/ setting.destination = setting.source
     \/ setting.source # <<"/">> /\ \A i \in 1..Len(Manifest) : OccursOnce(i)

\* Every object of the file is the one its hash stands for.
Intact(i) == \A k \in 1..Len(Manifest[i].pieces) :
               LET h == Manifest[i].pieces[k] IN h # NoHash /\ stored[h] = h

\* A file reported as restored is at its place under the destination with exactly the
\* content that was backed up, its chunks in order, and stays so while later files are
\* restored, fail, or the process dies.  Without a key nothing authenticates an object:
\* there only the size is certain for a file with an altered object
\* (restore.go:39-48; README.md:643-645).
RestoredIsBackedUp ==
  PathsPlain =>
    \A i \in restored :
      /\ setting.key \/ Intact(i) => local[Proper(i)] = File(Manifest[i].pieces)
      /\ TotalSize(local[Proper(i)].content) = Manifest[i].size

\* README.md:645: after a failure "the incomplete destination file is removed".  What is
\* left is what the user had, if the failure came before the destination was opened, or
\* nothing; unless the removal itself failed.
FailedLeavesNothing ==
  PathsPlain /\ "unremoved" \notin Faults =>
    \A i \in failed : local[Proper(i)] \in {NoFile, File(<<Old>>)}

\* What verification accepts can be restored: without a failing call or a cancellation a
\* file fails only if an object of it is not intact, or its recorded size is not that of
\* its objects.  A restore that returns has tried every file.
FailureHasCause ==
  /\ \A i \in failed :
       \/ "error" \in Faults \/ ctxDone
       \/ ~Intact(i) \/ Manifest[i].size # Len(Manifest[i].pieces)
  /\ pc = "done" /\ setting.only = <<>> => restored \cup failed = 1..Len(Manifest)

=============================================================================
