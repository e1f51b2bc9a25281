------------------------------ MODULE MCRestore ------------------------------
(* Model-checking instances of Restore: a file of two chunks, one that shares *)
(* a chunk with it, one with an empty hash, one whose recorded size is wrong. *)
EXTENDS Restore

CONSTANTS a, b

Entry(path, pieces, size) == [path |-> path, pieces |-> pieces, size |-> size]

Src == <<"/", "s">>
Dst == <<"/", "d", "/", "s">>
X == <<"/", "s", "/", "x", "s">>
Y == <<"/", "s", "/", "d", "/", "y">>
Z == <<"/", "s", "/", "s">>

Sound == <<Entry(X, <<a, b>>, 2), Entry(Y, <<b>>, 1)>>
Flawed == <<Entry(X, <<a, NoHash>>, 2), Entry(Y, <<a, b>>, 3), Entry(Z, <<b, a>>, 2)>>

AllFaults == {"error", "cancel", "crash", "unremoved"}

\* Every back end, with and without a key: a whole snapshot moved to a destination.
Moved ==
  [backend : AllBackends, key : BOOLEAN, manifest : {Sound}, source : {Src},
   destination : {Dst}, only : {<<>>}, faults : {{"cancel", "crash"}, AllFaults}]

\* In place, or moved though a path contains the source twice: all files, one, or one
\* that is not there.
InPlace ==
  [backend : {"disk", "s3"}, key : BOOLEAN, manifest : {Flawed}, source : {Src},
   destination : {Src, Dst}, only : {<<>>, Y, Src}, faults : {{}, {"error", "cancel"}}]

RestoreSettings == Moved \cup InPlace
=============================================================================
