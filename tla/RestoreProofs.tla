---------------------------- MODULE RestoreProofs ----------------------------
(***************************************************************************)
(* Proofs about Restore: what strings.ReplaceAll does to a path, what the  *)
(* sizes of the parts add up to, and that the files reported as restored   *)
(* and as failed are what the report says, for every manifest, back end,   *)
(* choice of faults and state of the object store.                         *)
(***************************************************************************)
EXTENDS Restore, SequenceFacts

-----------------------------------------------------------------------------
(* TotalSize                                                                 *)

\* f holds the sizes of the first, the first two, ... m of the parts.
Totals(f, m, parts) ==
  f = [i \in 0..m |-> IF i = 0 THEN 0 ELSE f[i - 1] + SizeOf(parts[i])]

\* There is such a function, however many parts there are.
LEMMA TotalsExist == ASSUME NEW parts PROVE \A m \in Nat : \E f : Totals(f, m, parts)
<1> DEFINE S == {m \in Nat : \E f : Totals(f, m, parts)}
<1>1. 0 \in S
  <2> DEFINE g == [i \in 0..0 |-> 0]
  <2>1. Totals(g, 0, parts)
    BY DEF Totals
  <2> QED
    BY <2>1
<1>2. ASSUME NEW m \in Nat, m \in S PROVE m + 1 \in S
  <2>1. PICK f : Totals(f, m, parts)
    BY <1>2
  <2> DEFINE g == [i \in 0..(m + 1) |-> IF i \in 0..m THEN f[i] ELSE f[i - 1] + SizeOf(parts[i])]
  <2>2. \A i \in 0..m : g[i] = f[i]
    OBVIOUS
  <2>3. \A i \in 0..(m + 1) : i # 0 => i - 1 \in 0..m
    OBVIOUS
  <2>4. \A i \in 0..(m + 1) : g[i] = IF i = 0 THEN 0 ELSE g[i - 1] + SizeOf(parts[i])
    <3> TAKE i \in 0..(m + 1)
    <3>1. i # 0 => g[i - 1] = f[i - 1]
      BY <2>2, <2>3
    <3>2. i \in 0..m => f[i] = IF i = 0 THEN 0 ELSE f[i - 1] + SizeOf(parts[i])
      BY <2>1 DEF Totals
    <3>3. g[i] = IF i \in 0..m THEN f[i] ELSE f[i - 1] + SizeOf(parts[i])
      OBVIOUS
    <3>4. i \notin 0..m => i # 0
      OBVIOUS
    <3> HIDE DEF g
    <3> QED
      BY <3>1, <3>2, <3>3, <3>4
  <2>5. g = [i \in 0..(m + 1) |-> g[i]]
    OBVIOUS
  <2> HIDE DEF g
  <2>6. Totals(g, m + 1, parts)
    BY <2>4, <2>5 DEF Totals
  <2> QED
    BY <2>6
<1> HIDE DEF S
<1>3. Nat \subseteq S
  BY <1>1, <1>2, InductionOverNat
<1> QED
  BY <1>3 DEF S

\* Parts that are what their hashes stand for have as many units as there are parts.
LEMMA TotalSizeOfHashes ==
  ASSUME NEW parts \in Seq(Hashes)
  PROVE  TotalSize(parts) = Len(parts)
<1> DEFINE n == Len(parts)
           f == CHOOSE f : Totals(f, n, parts)
<1>1. n \in Nat
  OBVIOUS
<1>2. Totals(f, n, parts)
  <2>1. \E g : Totals(g, n, parts)
    BY <1>1, TotalsExist
  <2> QED
    BY <2>1, Zenon
<1>3. TotalSize(parts) = f[n]
  BY DEF TotalSize, Totals
<1>4. \A i \in 0..n : f[i] = IF i = 0 THEN 0 ELSE f[i - 1] + SizeOf(parts[i])
  BY <1>2 DEF Totals
<1>5. \A i \in 1..n : SizeOf(parts[i]) = 1
  BY DEF SizeOf
<1> HIDE DEF f, n
<1> DEFINE T == {m \in Nat : m \in 0..n => f[m] = m}
<1>6. 0 \in T
  BY <1>4
<1>7. ASSUME NEW m \in Nat, m \in T PROVE m + 1 \in T
  <2> SUFFICES ASSUME m + 1 \in 0..n PROVE f[m + 1] = m + 1
    OBVIOUS
  <2>1. m \in 0..n /\ m + 1 \in 1..n /\ (m + 1) - 1 = m /\ m + 1 # 0
    BY <1>1
  <2>2. f[m] = m
    BY <1>7, <2>1
  <2> QED
    BY <1>4, <1>5, <2>1, <2>2
<1> HIDE DEF T
<1>8. Nat \subseteq T
  BY <1>6, <1>7, InductionOverNat
<1>9. f[n] = n
  BY <1>1, <1>8 DEF T
<1> QED
  BY <1>3, <1>9 DEF n

-----------------------------------------------------------------------------
(* ReplaceOccurrences                                                        *)

\* What follows place i of the path, replaced, given what follows the later places.
ReplacedFrom(f, path, source, destination, i) ==
  IF i > Len(path) THEN <<>>
  ELSE IF OccursAt(path, source, i) THEN destination \o f[i + Len(source)]
  ELSE <<path[i]>> \o f[i + 1]

\* f is what follows the places from lo to n of the path, replaced.
Replaces(f, lo, n, path, source, destination) ==
  f = [i \in lo..n |-> ReplacedFrom(f, path, source, destination, i)]

\* There is such a function: every place refers only to later ones.
LEMMA ReplacesExist ==
  ASSUME NEW P \in Nat, NEW L \in Nat, L # 0, NEW path, NEW source, NEW destination,
         Len(path) = P, Len(source) = L
  PROVE  \A k \in Nat : \E f : Replaces(f, P + L + 1 - k, P + L, path, source, destination)
<1> DEFINE n == P + L
           S == {k \in Nat : \E f : Replaces(f, n + 1 - k, n, path, source, destination)}
<1>1. 0 \in S
  <2> DEFINE g == [i \in (n + 1 - 0)..n |-> 0]
  <2>1. (n + 1 - 0)..n = {}
    OBVIOUS
  <2>2. Replaces(g, n + 1 - 0, n, path, source, destination)
    BY <2>1 DEF Replaces
  <2> QED
    BY <2>2
<1>2. ASSUME NEW k \in Nat, k \in S PROVE k + 1 \in S
  <2> DEFINE lo == n + 1 - k
             m == n + 1 - (k + 1)
  <2>1. PICK f : Replaces(f, lo, n, path, source, destination)
    BY <1>2
  <2> DEFINE g == [i \in m..n |-> IF i \in lo..n THEN f[i]
                                  ELSE ReplacedFrom(f, path, source, destination, i)]
  <2>2. m \in Int /\ lo = m + 1 /\ n \in Int
    OBVIOUS
  <2>3. \A i \in lo..n : g[i] = f[i]
    BY <2>2
  <2>4. \A i \in m..n : g[i] = ReplacedFrom(g, path, source, destination, i)
    <3> TAKE i \in m..n
    <3>1. i \in Int
      BY <2>2
    <3>2. i <= P => i + L \in lo..n /\ i + 1 \in lo..n
      BY <2>2, <3>1
    <3>3. i <= P => g[i + L] = f[i + L] /\ g[i + 1] = f[i + 1]
      BY <2>3, <3>2
    <3>4. i \in lo..n => f[i] = ReplacedFrom(f, path, source, destination, i)
      BY <2>1 DEF Replaces
    <3>5. g[i] = ReplacedFrom(f, path, source, destination, i)
      BY <3>4
    <3> HIDE DEF g
    <3>6. ReplacedFrom(f, path, source, destination, i) = ReplacedFrom(g, path, source, destination, i)
      <4>1. CASE i > P
        BY <4>1 DEF ReplacedFrom
      <4>2. CASE i <= P
        BY <3>3, <4>2 DEF ReplacedFrom
      <4> QED
        BY <3>1, <4>1, <4>2
    <3> QED
      BY <3>5, <3>6
  <2>5. g = [i \in m..n |-> g[i]]
    OBVIOUS
  <2> HIDE DEF g
  <2>6. Replaces(g, m, n, path, source, destination)
    BY <2>4, <2>5 DEF Replaces
  <2> QED
    BY <2>6
<1> HIDE DEF S
<1>3. Nat \subseteq S
  BY <1>1, <1>2, InductionOverNat
<1> QED
  BY <1>3 DEF S

\* So ReplaceOccurrences is what its equation says.
LEMMA ReplaceOccurrencesReplaces ==
  ASSUME NEW path, NEW source, NEW destination, Len(path) \in Nat, Len(source) \in Nat,
         Len(source) # 0
  PROVE  \E f : /\ \A i \in 1..(Len(path) + Len(source)) :
                     f[i] = ReplacedFrom(f, path, source, destination, i)
                /\ ReplaceOccurrences(path, source, destination) = f[1]
<1> DEFINE n == Len(path) + Len(source)
           f == CHOOSE f : f = [i \in 1..n |-> ReplacedFrom(f, path, source, destination, i)]
<1>1. \E g : g = [i \in 1..n |-> ReplacedFrom(g, path, source, destination, i)]
  <2>1. n \in Nat /\ n + 1 - n = 1
    OBVIOUS
  <2>2. \E g : Replaces(g, n + 1 - n, n, path, source, destination)
    BY <2>1, ReplacesExist
  <2> QED
    BY <2>1, <2>2 DEF Replaces
<1>2. f = [i \in 1..n |-> ReplacedFrom(f, path, source, destination, i)]
  BY <1>1, Zenon
<1>3. ReplaceOccurrences(path, source, destination) = f[1]
  BY DEF ReplaceOccurrences, ReplacedFrom
<1>4. \A i \in 1..n : f[i] = ReplacedFrom(f, path, source, destination, i)
  BY <1>2
<1> QED
  BY <1>3, <1>4

\* A sequence is the concatenation of two others if its places are theirs.
LEMMA ConcatByPlaces ==
  ASSUME NEW S, NEW x \in Seq(S), NEW y \in Seq(S), NEW z \in Seq(S),
         Len(z) = Len(x) + Len(y),
         \A i \in 1..Len(x) : z[i] = x[i],
         \A i \in 1..Len(y) : z[Len(x) + i] = y[i]
  PROVE  x \o y = z
<1>1. x \o y \in Seq(S) /\ Len(x \o y) = Len(z)
  OBVIOUS
<1>2. ASSUME NEW i \in 1..Len(z) PROVE (x \o y)[i] = z[i]
  <2>1. CASE i <= Len(x)
    BY <2>1
  <2>2. CASE i > Len(x)
    <3>1. i - Len(x) \in 1..Len(y) /\ Len(x) + (i - Len(x)) = i
      BY <2>2
    <3>2. (x \o y)[i] = y[i - Len(x)]
      BY <2>2
    <3> QED
      BY <3>1, <3>2
  <2> QED
    BY <2>1, <2>2
<1> QED
  BY <1>1, <1>2

\* Two neighbouring parts of a sequence are one part of it.
LEMMA SubSeqJoin ==
  ASSUME NEW S, NEW c \in Seq(S), NEW a \in 1..Len(c), NEW b \in a..Len(c)
  PROVE  SubSeq(c, a, b) \o SubSeq(c, b + 1, Len(c)) = SubSeq(c, a, Len(c))
<1>1. PICK x \in Seq(S) : x = SubSeq(c, a, b)
  <2>1. SubSeq(c, a, b) \in Seq(S)
    OBVIOUS
  <2> QED
    BY <2>1, Zenon
<1>2. PICK y \in Seq(S) : y = SubSeq(c, b + 1, Len(c))
  <2>1. SubSeq(c, b + 1, Len(c)) \in Seq(S)
    OBVIOUS
  <2> QED
    BY <2>1, Zenon
<1>3. PICK z \in Seq(S) : z = SubSeq(c, a, Len(c))
  <2>1. SubSeq(c, a, Len(c)) \in Seq(S)
    OBVIOUS
  <2> QED
    BY <2>1, Zenon
<1>4. Len(x) = b - a + 1 /\ \A i \in 1..(b - a + 1) : x[i] = c[a + i - 1]
  BY <1>1
<1>5. Len(y) = Len(c) - b /\ \A i \in 1..(Len(c) - b) : y[i] = c[b + i]
  BY <1>2
<1>6. Len(z) = Len(c) - a + 1 /\ \A i \in 1..(Len(c) - a + 1) : z[i] = c[a + i - 1]
  BY <1>3
<1>7. \A i \in 1..Len(x) : z[i] = x[i]
  BY <1>4, <1>6
<1>8. \A i \in 1..Len(y) : z[Len(x) + i] = y[i]
  <2> TAKE i \in 1..Len(y)
  <2>1. Len(x) + i \in 1..(Len(c) - a + 1) /\ a + (Len(x) + i) - 1 = b + i
    BY <1>4, <1>5
  <2>2. z[Len(x) + i] = c[b + i]
    BY <1>6, <2>1
  <2> QED
    BY <1>5, <2>2
<1>9. Len(z) = Len(x) + Len(y)
  BY <1>4, <1>5, <1>6
<1>10. x \o y = z
  BY <1>7, <1>8, <1>9, ConcatByPlaces
<1> QED
  BY <1>1, <1>2, <1>3, <1>10

\* A path that begins with the source, and in which either nothing else is replaced or the
\* source is replaced by itself, keeps its place under the destination.
LEMMA ReplacesPrefix ==
  ASSUME NEW S, NEW path \in Seq(S), NEW source \in Seq(S), NEW destination \in Seq(S),
         source # <<>>, OccursAt(path, source, 1),
         \/ destination = source
         \/ \A k \in 1..Len(path) : OccursAt(path, source, k) => k = 1
  PROVE  ReplaceOccurrences(path, source, destination)
           = destination \o SubSeq(path, Len(source) + 1, Len(path))
<1> DEFINE P == Len(path)
           L == Len(source)
           n == P + L
<1>1. P \in Nat /\ L \in Nat /\ L # 0
  OBVIOUS
<1>2. PICK f : /\ \A i \in 1..n : f[i] = ReplacedFrom(f, path, source, destination, i)
               /\ ReplaceOccurrences(path, source, destination) = f[1]
  BY <1>1, ReplaceOccurrencesReplaces
<1>3. L <= P
  BY <1>1 DEF OccursAt
<1> DEFINE T == {k \in Nat : \A i \in 2..n : i >= n - k => f[i] = SubSeq(path, i, P)}
<1>4. 0 \in T
  <2> SUFFICES ASSUME NEW i \in 2..n, i >= n PROVE f[i] = SubSeq(path, i, P)
    BY <1>1
  <2>1. i \in 1..n /\ i > P
    BY <1>1
  <2>2. f[i] = <<>>
    BY <1>2, <2>1 DEF ReplacedFrom
  <2>3. SubSeq(path, i, P) = <<>>
    BY <2>1
  <2> QED
    BY <2>2, <2>3
<1>5. ASSUME NEW k \in Nat, k \in T PROVE k + 1 \in T
  <2> SUFFICES ASSUME NEW i \in 2..n, i >= n - (k + 1) PROVE f[i] = SubSeq(path, i, P)
    OBVIOUS
  <2>1. i \in Nat /\ i \in 1..n
    BY <1>1
  <2>2. f[i] = ReplacedFrom(f, path, source, destination, i)
    BY <1>2, <2>1
  <2>3. CASE i > P
    BY <2>1, <2>2, <2>3 DEF ReplacedFrom
  <2>4. CASE i <= P /\ OccursAt(path, source, i)
    <3>1. destination = source
      BY <1>1, <2>1, <2>4
    <3>2. i + L \in 2..n /\ i + L >= n - k /\ i + L - 1 \in i..P
      BY <1>1, <2>1, <2>4 DEF OccursAt
    <3>3. f[i + L] = SubSeq(path, i + L, P)
      BY <1>5, <3>2
    <3>4. source = SubSeq(path, i, i + L - 1)
      BY <2>4 DEF OccursAt
    <3>5. f[i] = source \o f[i + L]
      BY <1>1, <2>1, <2>2, <2>4, <3>1 DEF ReplacedFrom
    <3>6. (i + L - 1) + 1 = i + L /\ i \in 1..P
      BY <1>1, <2>1, <2>4
    <3> QED
      BY <3>2, <3>3, <3>4, <3>5, <3>6, SubSeqJoin
  <2>5. CASE i <= P /\ ~OccursAt(path, source, i)
    <3>1. i + 1 \in 2..n /\ i + 1 >= n - k /\ i \in 1..P
      BY <1>1, <2>1, <2>5
    <3>2. f[i + 1] = SubSeq(path, i + 1, P)
      BY <1>5, <3>1
    <3>3. f[i] = <<path[i]>> \o f[i + 1]
      BY <1>1, <2>1, <2>2, <2>5 DEF ReplacedFrom
    <3>4. <<path[i]>> = SubSeq(path, i, i)
      BY <3>1
    <3> QED
      BY <3>1, <3>2, <3>3, <3>4, SubSeqJoin
  <2> QED
    BY <1>1, <2>1, <2>3, <2>4, <2>5
<1> HIDE DEF T
<1>6. Nat \subseteq T
  BY <1>4, <1>5, InductionOverNat
<1>7. f[1 + L] = SubSeq(path, 1 + L, P)
  <2>1. n \in T /\ 1 + L \in 2..n /\ 1 + L >= n - n
    BY <1>1, <1>3, <1>6
  <2> QED
    BY <2>1 DEF T
<1>8. f[1] = destination \o f[1 + L]
  <2>1. 1 \in 1..n /\ ~(1 > P)
    BY <1>1, <1>3
  <2> QED
    BY <1>2, <2>1 DEF ReplacedFrom
<1> QED
  BY <1>1, <1>2, <1>7, <1>8

\* Sequences that are equal after the same beginning are equal.
LEMMA ConcatCancels ==
  ASSUME NEW S, NEW a \in Seq(S), NEW b \in Seq(S), NEW c \in Seq(S), a \o b = a \o c
  PROVE  b = c
<1>1. Len(b) = Len(c)
  BY Len(a \o b) = Len(a) + Len(b), Len(a \o c) = Len(a) + Len(c)
<1>2. \A i \in 1..Len(b) : b[i] = (a \o b)[Len(a) + i] /\ c[i] = (a \o c)[Len(a) + i]
  BY <1>1
<1> QED
  BY <1>1, <1>2

-----------------------------------------------------------------------------
(* The inductive invariant.                                                  *)

\* What the first n objects of file i decode to, and that they do.
Copied(i, n) == [k \in 1..n |-> stored[Manifest[i].pieces[k]]]
Decodes(i, n) == \A k \in 1..n : stored[Manifest[i].pieces[k]] \in Content

\* Why a file may fail.
Cause(i) ==
  \/ "error" \in Faults \/ ctxDone
  \/ ~Intact(i) \/ Manifest[i].size # Len(Manifest[i].pieces)

\* What the user may find at a place nothing was restored to.
Untouched == {NoFile, File(<<Old>>)}

\* The files up to index, and no others, are reported, the one being copied not yet.
LoopInv ==
  /\ restored \subseteq 1..index /\ failed \subseteq 1..index
  /\ pc \in {"copy", "remove"} =>
       index # 0 /\ index \notin restored /\ index \notin failed /\ ValidHashes(index)
  /\ setting.only = <<>> /\ pc # "dead" =>
       IF pc \in {"copy", "remove"}
       THEN 1..(index - 1) \subseteq restored \cup failed
       ELSE 1..index \subseteq restored \cup failed
  /\ pc = "done" /\ setting.only = <<>> => index = Len(Manifest)

\* With a key an object decodes to what its hash stands for or not at all.
StoreInv == setting.key => \A h \in Hashes : stored[h] \in {Absent, Broken, h}

\* The open destination holds the parts copied so far.
CopyInv ==
  pc = "copy" => local[Target(index)] = File(Copied(index, part)) /\ Decodes(index, part)

\* Every failure, reported or about to be, has a cause.
CauseInv == (\A i \in failed : Cause(i)) /\ (pc = "remove" => Cause(index))

\* A file that is restored is complete, in order and of the recorded size.
Whole(i) ==
  /\ ValidHashes(i)
  /\ local[Target(i)] = File(Copied(i, Len(Manifest[i].pieces)))
  /\ Decodes(i, Len(Manifest[i].pieces))
  /\ TotalSize(local[Target(i)].content) = Manifest[i].size

\* What is at the places of the files restored, failed and still to come.
PlaceInv ==
  PathsPlain =>
    /\ \A i \in restored : Whole(i)
    /\ \A i \in 1..Len(Manifest) : i > index => local[Target(i)] \in Untouched
    /\ "unremoved" \notin Faults => \A i \in failed : local[Target(i)] \in Untouched

IInv == TypeOK /\ LoopInv /\ StoreInv /\ CopyInv /\ CauseInv /\ PlaceInv

-----------------------------------------------------------------------------
(* Facts about a setting.                                                    *)

\* What a setting gives a restore to work with.
LEMMA SettingFacts ==
  ASSUME setting \in Settings
  PROVE  /\ setting.backend \in AllBackends
         /\ Len(Manifest) \in Nat
         /\ \A i \in 1..Len(Manifest) :
              /\ Manifest[i].path \in Seq(STRING)
              /\ Manifest[i].pieces \in Seq(Hashes \cup {NoHash})
              /\ Len(Manifest[i].pieces) \in Nat
              /\ Manifest[i].size \in Nat
         /\ setting.source \in Seq(STRING) /\ setting.source # <<>>
         /\ setting.destination \in Seq(STRING)
         /\ \A i, k \in 1..Len(Manifest) : Manifest[i].path = Manifest[k].path => i = k
<1> DEFINE E == [path : Seq(STRING), pieces : Seq(Hashes \cup {NoHash}) \ {<<>>}, size : Nat]
<1>1. Setting(setting)
  BY RestoreSettingsAssumption
<1>2. Manifest \in Seq(E)
  BY <1>1 DEF Setting, Manifest
<1>3. ASSUME NEW i \in 1..Len(Manifest)
      PROVE  /\ Manifest[i].path \in Seq(STRING)
             /\ Manifest[i].pieces \in Seq(Hashes \cup {NoHash})
             /\ Manifest[i].size \in Nat
  <2>1. Manifest[i] \in E
    <3> HIDE DEF E
    <3> QED
      BY <1>2
  <2> QED
    BY <2>1
<1>4. \A i \in 1..Len(Manifest) : Len(Manifest[i].pieces) \in Nat
  BY <1>3
<1>5. Len(Manifest) \in Nat
  BY <1>2
<1>6. setting.source \in Seq(STRING) /\ setting.source # <<>> /\ setting.destination \in Seq(STRING)
  BY <1>1 DEF Setting
<1>7. \A i, k \in 1..Len(Manifest) : Manifest[i].path = Manifest[k].path => i = k
  BY <1>1, Zenon DEF Setting, Manifest
<1>8. setting.backend \in AllBackends
  BY <1>1 DEF Setting
<1> QED
  BY <1>3, <1>4, <1>5, <1>6, <1>7, <1>8

\* Every back end compares the size and removes a destination it could not complete.
LEMMA AllSizedAndRemoving ==
  ASSUME NEW b \in AllBackends
  PROVE  RestoreObjectOf(b).sized = TRUE /\ RestoreObjectOf(b).removes = TRUE
BY DEF AllBackends, RestoreObjectOf, DiskRestoreObject, SshRestoreObject, SmbRestoreObject,
       S3RestoreObject, GcsRestoreObject, WebdavRestoreObject

\* Every file goes where it belongs, and no two to the same place.
LEMMA TargetsApart ==
  ASSUME setting \in Settings, PathsPlain
  PROVE  /\ \A i \in 1..Len(Manifest) : Target(i) = Proper(i)
         /\ \A i, k \in 1..Len(Manifest) : Target(i) = Target(k) => i = k
<1> DEFINE s == setting.source
           d == setting.destination
           path(i) == Manifest[i].path
           rest(i) == SubSeq(path(i), Len(s) + 1, Len(path(i)))
<1>1. /\ s \in Seq(STRING) /\ s # <<>> /\ d \in Seq(STRING)
      /\ \A i \in 1..Len(Manifest) : path(i) \in Seq(STRING)
  BY SettingFacts
<1>2. ASSUME NEW i \in 1..Len(Manifest)
      PROVE  Target(i) = d \o rest(i) /\ path(i) = s \o rest(i) /\ rest(i) \in Seq(STRING)
  <2>1. PICK p \in Seq(STRING) : p = path(i)
    BY <1>1
  <2>2. OccursAt(p, s, 1) /\ (d = s \/ \A k \in 1..Len(p) : OccursAt(p, s, k) => k = 1)
    BY <2>1, Zenon DEF PathsPlain, OccursOnce
  <2>3. ReplaceOccurrences(p, s, d) = d \o SubSeq(p, Len(s) + 1, Len(p))
    BY <1>1, <2>2, ReplacesPrefix
  <2>4. Target(i) = d \o rest(i)
    BY <2>1, <2>3 DEF Target
  <2>5. Len(s) \in 1..Len(p) /\ s = SubSeq(p, 1, Len(s)) /\ 1 \in 1..Len(p)
    <3>1. Len(s) \in Nat /\ Len(s) # 0 /\ 1 + Len(s) - 1 = Len(s) /\ Len(p) \in Nat
      BY <1>1
    <3> QED
      BY <2>2, <3>1 DEF OccursAt
  <2>6. s \o SubSeq(p, Len(s) + 1, Len(p)) = SubSeq(p, 1, Len(p))
    BY <2>5, SubSeqJoin
  <2>7. SubSeq(p, 1, Len(p)) = p
    OBVIOUS
  <2>8. SubSeq(p, Len(s) + 1, Len(p)) \in Seq(STRING)
    BY <2>5
  <2> QED
    BY <2>1, <2>4, <2>6, <2>7, <2>8
<1>3. \A i \in 1..Len(Manifest) : Target(i) = Proper(i)
  BY <1>2 DEF Proper
<1>4. ASSUME NEW i \in 1..Len(Manifest), NEW k \in 1..Len(Manifest), Target(i) = Target(k)
      PROVE  i = k
  <2>1. rest(i) = rest(k)
    <3>1. d \o rest(i) = d \o rest(k)
      BY <1>2, <1>4
    <3> HIDE DEF d, rest
    <3>2. d \in Seq(STRING) /\ rest(i) \in Seq(STRING) /\ rest(k) \in Seq(STRING)
      BY <1>1, <1>2
    <3> QED
      BY <3>1, <3>2, ConcatCancels
  <2>2. path(i) = path(k)
    BY <1>2, <2>1
  <2> QED
    BY <2>2, SettingFacts
<1> QED
  BY <1>3, <1>4

-----------------------------------------------------------------------------
(* Steps.                                                                    *)

\* What is said of the files depends on the setting and the store alone.
LEMMA Rigid ==
  ASSUME setting' = setting, stored' = stored
  PROVE  /\ Manifest' = Manifest /\ Faults' = Faults /\ Traits' = Traits /\ Targets' = Targets
         /\ PathsPlain' <=> PathsPlain
         /\ \A i : /\ Target(i)' = Target(i)
                   /\ ValidHashes(i)' <=> ValidHashes(i)
                   /\ Intact(i)' <=> Intact(i)
         /\ \A i, n : Copied(i, n)' = Copied(i, n) /\ (Decodes(i, n)' <=> Decodes(i, n))
<1>1. Manifest' = Manifest /\ Faults' = Faults /\ Traits' = Traits
  BY DEF Manifest, Faults, Traits
<1>2. \A i : Target(i)' = Target(i) /\ Proper(i)' = Proper(i)
  BY <1>1 DEF Target, Proper
<1>3. Targets' = Targets
  BY <1>1, <1>2 DEF Targets
<1>4. PathsPlain' <=> PathsPlain
  BY <1>1, Zenon DEF PathsPlain, OccursOnce
<1>5. \A i : (ValidHashes(i)' <=> ValidHashes(i)) /\ (Intact(i)' <=> Intact(i))
  BY <1>1 DEF ValidHashes, Intact
<1>6. \A i, n : Copied(i, n)' = Copied(i, n) /\ (Decodes(i, n)' <=> Decodes(i, n))
  BY <1>1 DEF Copied, Decodes
<1> QED
  BY <1>1, <1>2, <1>3, <1>4, <1>5, <1>6

\* A cause stays one.
LEMMA CauseStays ==
  ASSUME setting' = setting, stored' = stored, ctxDone => ctxDone'
  PROVE  \A i : Cause(i) => Cause(i)'
BY Rigid DEF Cause

\* A step that moves only pc and perhaps cancels keeps the types, the store and the places.
LEMMA QuietStep ==
  ASSUME TypeOK, StoreInv, PlaceInv, \A i \in failed : Cause(i),
         UNCHANGED <<setting, stored, local, index, part, restored, failed>>,
         pc' \in {"start", "next", "copy", "remove", "done", "error", "dead"},
         ctxDone' \in BOOLEAN, ctxDone => ctxDone'
  PROVE  TypeOK' /\ StoreInv' /\ PlaceInv' /\ \A i \in failed' : Cause(i)'
<1>1. setting' = setting /\ stored' = stored /\ local' = local /\ index' = index /\ part' = part
      /\ restored' = restored /\ failed' = failed
  OBVIOUS
<1>2. TypeOK'
  BY <1>1, Rigid DEF TypeOK
<1>3. StoreInv'
  BY <1>1 DEF StoreInv
<1>4. PlaceInv'
  BY <1>1, Rigid DEF PlaceInv, Whole
<1>5. \A i \in failed' : Cause(i)'
  BY <1>1, CauseStays
<1> QED
  BY <1>2, <1>3, <1>4, <1>5

\* Init
LEMMA InitInv == Init => IInv
<1> SUFFICES ASSUME Init PROVE IInv
  OBVIOUS
<1>1. TypeOK
  <2>1. Len(Manifest) \in Nat
    BY SettingFacts DEF Init
  <2>2. NoFile \in [there : BOOLEAN, content : Seq(Content \cup {Old})]
    BY DEF NoFile
  <2>3. File(<<Old>>) \in [there : BOOLEAN, content : Seq(Content \cup {Old})]
    <3>1. <<Old>> \in Seq(Content \cup {Old})
      OBVIOUS
    <3> QED
      BY <3>1 DEF File
  <2>4. local \in [Targets -> [there : BOOLEAN, content : Seq(Content \cup {Old})]]
    BY <2>2, <2>3 DEF Init
  <2>5. DOMAIN stored = Hashes /\ \A h \in Hashes : stored[h] \in States(h)
    BY DEF Init
  <2>6. index \in 0..Len(Manifest) /\ part \in IF index = 0 THEN {0} ELSE 0..Len(Manifest[index].pieces)
    BY <2>1 DEF Init
  <2>7. /\ setting \in Settings /\ ctxDone \in BOOLEAN /\ pc = "start"
        /\ restored \subseteq 1..Len(Manifest) /\ failed \subseteq 1..Len(Manifest)
    BY DEF Init
  <2> QED
    BY <2>4, <2>5, <2>6, <2>7 DEF TypeOK
<1>2. LoopInv
  BY DEF Init, LoopInv
<1>3. StoreInv
  BY DEF Init, StoreInv
<1>4. CopyInv /\ CauseInv
  BY DEF Init, CopyInv, CauseInv
<1>5. PlaceInv
  <2>1. \A i \in 1..Len(Manifest) : Target(i) \in Targets
    BY DEF Targets
  <2> QED
    BY <2>1 DEF Init, PlaceInv, Untouched
<1> QED
  BY <1>1, <1>2, <1>3, <1>4, <1>5 DEF IInv

\* Start and StartFails
LEMMA StartInv == IInv /\ (Start \/ StartFails) => IInv'
<1> SUFFICES ASSUME IInv, Start \/ StartFails PROVE IInv'
  OBVIOUS
<1> USE DEF IInv
<1>1. pc = "start" /\ pc' \in {"next", "error"}
      /\ UNCHANGED <<setting, stored, local, index, part, restored, failed, ctxDone>>
  BY DEF Start, StartFails
<1>2. ctxDone' \in BOOLEAN /\ (ctxDone => ctxDone') /\ \A i \in failed : Cause(i)
  BY <1>1 DEF TypeOK, CauseInv
<1>3. TypeOK' /\ StoreInv' /\ PlaceInv' /\ \A i \in failed' : Cause(i)'
  BY <1>1, <1>2, QuietStep
<1>4. LoopInv'
  BY <1>1 DEF LoopInv
<1>5. CopyInv' /\ CauseInv'
  BY <1>1, <1>3 DEF CopyInv, CauseInv
<1> QED
  BY <1>3, <1>4, <1>5

\* Return: every file has been tried.
LEMMA ReturnInv == IInv /\ Return => IInv'
<1> SUFFICES ASSUME IInv, Return PROVE IInv'
  OBVIOUS
<1> USE DEF IInv
<1>1. pc = "next" /\ pc' = "done" /\ Later = {}
      /\ UNCHANGED <<setting, stored, local, index, part, restored, failed, ctxDone>>
  BY DEF Return
<1>2. ctxDone' \in BOOLEAN /\ (ctxDone => ctxDone') /\ \A i \in failed : Cause(i)
  BY <1>1 DEF TypeOK, CauseInv
<1>3. TypeOK' /\ StoreInv' /\ PlaceInv' /\ \A i \in failed' : Cause(i)'
  BY <1>1, <1>2, QuietStep
<1>4. setting.only = <<>> => index = Len(Manifest)
  <2> SUFFICES ASSUME setting.only = <<>>, index # Len(Manifest) PROVE FALSE
    OBVIOUS
  <2>1. index + 1 \in (index + 1)..Len(Manifest)
    BY SettingFacts DEF TypeOK
  <2>2. index + 1 \in Later
    BY <2>1 DEF Later, Wanted
  <2> QED
    BY <1>1, <2>2
<1>5. LoopInv'
  BY <1>1, <1>4, Rigid DEF LoopInv
<1>6. CopyInv' /\ CauseInv'
  BY <1>1, <1>3 DEF CopyInv, CauseInv
<1> QED
  BY <1>3, <1>5, <1>6

\* Cancel
LEMMA CancelInv == IInv /\ Cancel => IInv'
<1> SUFFICES ASSUME IInv, Cancel PROVE IInv'
  OBVIOUS
<1> USE DEF IInv
<1>1. ctxDone' = TRUE /\ UNCHANGED <<setting, stored, local, pc, index, part, restored, failed>>
  BY DEF Cancel
<1>2. /\ ctxDone' \in BOOLEAN /\ (ctxDone => ctxDone') /\ \A i \in failed : Cause(i)
      /\ pc' \in {"start", "next", "copy", "remove", "done", "error", "dead"}
  BY <1>1 DEF TypeOK, CauseInv
<1>3. TypeOK' /\ StoreInv' /\ PlaceInv' /\ \A i \in failed' : Cause(i)'
  BY <1>1, <1>2, QuietStep
<1>4. LoopInv'
  BY <1>1, Rigid DEF LoopInv
<1>5. CopyInv'
  BY <1>1, Rigid DEF CopyInv
<1>6. CauseInv'
  BY <1>1, <1>2, <1>3, CauseStays DEF CauseInv
<1> QED
  BY <1>3, <1>4, <1>5, <1>6

\* Crash
LEMMA CrashInv == IInv /\ Crash => IInv'
<1> SUFFICES ASSUME IInv, Crash PROVE IInv'
  OBVIOUS
<1> USE DEF IInv
<1>1. pc' = "dead" /\ UNCHANGED <<setting, stored, local, index, part, restored, failed, ctxDone>>
  BY DEF Crash
<1>2. ctxDone' \in BOOLEAN /\ (ctxDone => ctxDone') /\ \A i \in failed : Cause(i)
  BY <1>1 DEF TypeOK, CauseInv
<1>3. TypeOK' /\ StoreInv' /\ PlaceInv' /\ \A i \in failed' : Cause(i)'
  BY <1>1, <1>2, QuietStep
<1>4. LoopInv'
  BY <1>1 DEF LoopInv
<1>5. CopyInv' /\ CauseInv'
  BY <1>1, <1>3 DEF CopyInv, CauseInv
<1> QED
  BY <1>3, <1>4, <1>5

\* The file the loop goes on with, when all are wanted, is the next one.
LEMMA NextFileFacts ==
  ASSUME TypeOK, NEW i \in 1..Len(Manifest), NextFile(i)
  PROVE  i > index /\ (setting.only = <<>> => i = index + 1)
<1>1. Len(Manifest) \in Nat /\ index \in Nat /\ index <= Len(Manifest)
  BY SettingFacts DEF TypeOK
<1>2. i \in (index + 1)..Len(Manifest)
  BY DEF NextFile, Later
<1>3. ASSUME setting.only = <<>> PROVE i = index + 1
  <2>1. index + 1 \in Later
    BY <1>1, <1>2, <1>3 DEF Later, Wanted
  <2>2. i <= index + 1
    BY <2>1 DEF NextFile
  <2> QED
    BY <1>1, <1>2, <2>2
<1> QED
  BY <1>1, <1>2, <1>3

\* What the invariant says of the places of other files does not depend on what is written
\* at the place of file i.
LEMMA OtherPlaces ==
  ASSUME setting \in Settings, PathsPlain, setting' = setting, stored' = stored,
         NEW i \in 1..Len(Manifest), NEW file,
         local' = [local EXCEPT ![Target(i)] = file],
         NEW k \in 1..Len(Manifest), k # i
  PROVE  local'[Target(k)] = local[Target(k)] /\ (Whole(k)' <=> Whole(k))
<1>1. Target(k) # Target(i)
  BY TargetsApart
<1>2. local'[Target(k)] = local[Target(k)]
  BY <1>1
<1>3. Whole(k)' <=> Whole(k)
  BY <1>2, Rigid DEF Whole
<1> QED
  BY <1>2, <1>3

\* OpenDestination: what was at the place of the file is gone; nothing else is touched.
LEMMA OpenInv == IInv /\ OpenDestination => IInv'
<1> SUFFICES ASSUME IInv, OpenDestination PROVE IInv'
  OBVIOUS
<1> USE DEF IInv
<1>1. PICK i \in 1..Len(Manifest) :
        /\ NextFile(i) /\ ValidHashes(i) /\ index' = i
        /\ local' = [local EXCEPT ![Target(i)] = File(<<>>)]
  BY DEF OpenDestination
<1>2. /\ pc = "next" /\ pc' = "copy" /\ part' = 0
      /\ setting' = setting /\ stored' = stored /\ restored' = restored /\ failed' = failed
      /\ ctxDone' = ctxDone
  BY DEF OpenDestination
<1>3. /\ Len(Manifest) \in Nat /\ index \in Nat /\ i \in Nat /\ i # 0 /\ setting \in Settings
      /\ Len(Manifest[i].pieces) \in Nat
  BY SettingFacts DEF TypeOK
<1>4. i > index /\ (setting.only = <<>> => i = index + 1)
  BY <1>1, NextFileFacts
<1>5. TypeOK'
  <2>1. <<>> \in Seq(Content \cup {Old})
    OBVIOUS
  <2>2. File(<<>>) \in [there : BOOLEAN, content : Seq(Content \cup {Old})]
    BY <2>1 DEF File
  <2>3. local' \in [Targets -> [there : BOOLEAN, content : Seq(Content \cup {Old})]]
    BY <1>1, <2>2 DEF TypeOK
  <2>4. index' \in 0..Len(Manifest) /\ part' \in 0..Len(Manifest[i].pieces) /\ index' # 0
    BY <1>1, <1>2, <1>3
  <2> QED
    BY <1>1, <1>2, <1>3, <2>3, <2>4, Rigid DEF TypeOK
<1>6. LoopInv'
  <2>1. restored \subseteq 1..index /\ failed \subseteq 1..index
    BY DEF LoopInv
  <2>2. restored \subseteq 1..i /\ failed \subseteq 1..i /\ i \notin restored /\ i \notin failed
    BY <1>3, <1>4, <2>1
  <2>3. setting.only = <<>> => 1..(i - 1) \subseteq restored \cup failed
    <3>1. setting.only = <<>> => i - 1 = index
      BY <1>3, <1>4
    <3> QED
      BY <1>2, <3>1 DEF LoopInv
  <2>4. ValidHashes(i)'
    BY <1>1, <1>2, Rigid
  <2> QED
    BY <1>1, <1>2, <1>3, <2>2, <2>3, <2>4 DEF LoopInv
<1>7. StoreInv'
  BY <1>2 DEF StoreInv
<1>8. CopyInv'
  <2>1. Target(i) \in Targets
    BY DEF Targets
  <2>2. local'[Target(i)] = File(<<>>)
    BY <1>1, <2>1 DEF TypeOK
  <2>3. Copied(i, 0) = <<>> /\ Decodes(i, 0)
    BY DEF Copied, Decodes
  <2>4. Target(i)' = Target(i) /\ Copied(i, 0)' = Copied(i, 0) /\ (Decodes(i, 0)' <=> Decodes(i, 0))
    BY <1>2, Rigid
  <2>5. local'[Target(i)'] = File(Copied(i, 0)') /\ Decodes(i, 0)'
    BY <2>2, <2>3, <2>4
  <2> QED
    BY <1>1, <1>2, <2>5 DEF CopyInv, File, Copied, Decodes, Target
<1>9. CauseInv'
  BY <1>2, CauseStays DEF CauseInv
<1>10. PlaceInv'
  <2> SUFFICES ASSUME PathsPlain
               PROVE  /\ \A k \in restored : Whole(k)'
                      /\ \A k \in 1..Len(Manifest) : k > i => local'[Target(k)] \in Untouched
                      /\ "unremoved" \notin Faults => \A k \in failed : local'[Target(k)] \in Untouched
    BY <1>1, <1>2, Rigid DEF PlaceInv, Untouched
  <2>1. \A k \in restored \cup failed : k \in 1..Len(Manifest) /\ k # i
    BY <1>3, <1>4 DEF TypeOK, LoopInv
  <2>2. \A k \in 1..Len(Manifest) :
          k # i => local'[Target(k)] = local[Target(k)] /\ (Whole(k)' <=> Whole(k))
    BY <1>1, <1>2, <1>3, OtherPlaces
  <2> QED
    BY <1>3, <1>4, <2>1, <2>2 DEF PlaceInv
<1> QED
  BY <1>5, <1>6, <1>7, <1>8, <1>9, <1>10

\* OpenFails: the file is reported as failed and its place is untouched.
LEMMA OpenFailsInv == IInv /\ OpenFails => IInv'
<1> SUFFICES ASSUME IInv, OpenFails PROVE IInv'
  OBVIOUS
<1> USE DEF IInv
<1>1. PICK i \in 1..Len(Manifest) :
        /\ NextFile(i) /\ (ctxDone \/ ~ValidHashes(i) \/ "error" \in Faults)
        /\ index' = i /\ failed' = failed \cup {i}
  BY DEF OpenFails
<1>2. /\ pc = "next" /\ pc' = "next" /\ part' = 0
      /\ setting' = setting /\ stored' = stored /\ restored' = restored /\ local' = local
      /\ ctxDone' = ctxDone
  BY DEF OpenFails
<1>3. /\ Len(Manifest) \in Nat /\ index \in Nat /\ i \in Nat /\ i # 0
      /\ Len(Manifest[i].pieces) \in Nat /\ Manifest[i].pieces \in Seq(Hashes \cup {NoHash})
  BY SettingFacts DEF TypeOK
<1>4. i > index /\ (setting.only = <<>> => i = index + 1)
  BY <1>1, NextFileFacts
<1>5. TypeOK'
  <2>1. index' \in 0..Len(Manifest) /\ part' \in 0..Len(Manifest[i].pieces) /\ index' # 0
    BY <1>1, <1>2, <1>3
  <2>2. failed' \subseteq 1..Len(Manifest)
    BY <1>1 DEF TypeOK
  <2> QED
    BY <1>1, <1>2, <1>3, <2>1, <2>2, Rigid DEF TypeOK
<1>6. LoopInv'
  <2>1. restored \subseteq 1..index /\ failed \subseteq 1..index
    BY DEF LoopInv
  <2>2. restored \subseteq 1..i /\ failed \cup {i} \subseteq 1..i
    <3>1. 1..index \subseteq 1..i /\ i \in 1..i
      BY <1>3, <1>4
    <3> QED
      BY <2>1, <3>1
  <2>3. setting.only = <<>> => 1..i \subseteq restored \cup (failed \cup {i})
    <3>1. setting.only = <<>> => 1..index \subseteq restored \cup failed
      BY <1>2 DEF LoopInv
    <3> QED
      BY <1>3, <1>4, <3>1
  <2> QED
    BY <1>1, <1>2, <2>2, <2>3 DEF LoopInv
<1>7. StoreInv' /\ CopyInv'
  BY <1>2 DEF StoreInv, CopyInv
<1>8. CauseInv'
  <2>1. ~ValidHashes(i) => ~Intact(i)
    BY <1>3 DEF ValidHashes, Intact, Range
  <2>2. Cause(i)
    BY <1>1, <2>1 DEF Cause
  <2>3. \A k \in failed' : Cause(k)
    BY <1>1, <2>2 DEF CauseInv
  <2> QED
    BY <1>2, <2>3, CauseStays DEF CauseInv
<1>9. PlaceInv'
  <2> SUFFICES ASSUME PathsPlain
               PROVE  /\ \A k \in restored : Whole(k)'
                      /\ \A k \in 1..Len(Manifest) : k > i => local[Target(k)] \in Untouched
                      /\ "unremoved" \notin Faults =>
                           \A k \in failed \cup {i} : local[Target(k)] \in Untouched
    BY <1>1, <1>2, Rigid DEF PlaceInv, Untouched
  <2>1. \A k \in restored : Whole(k)'
    BY <1>2, Rigid DEF PlaceInv, Whole
  <2> QED
    BY <1>3, <1>4, <2>1 DEF PlaceInv
<1> QED
  BY <1>5, <1>6, <1>7, <1>8, <1>9

\* A file being copied: the objects it is made of.
LEMMA CopyFacts ==
  ASSUME IInv, pc \in {"copy", "remove"}
  PROVE  /\ index \in 1..Len(Manifest) /\ part \in 0..Len(Pieces) /\ Len(Pieces) \in Nat
         /\ Pieces \in Seq(Hashes) /\ setting \in Settings
         /\ Target(index) \in Targets /\ Destination = Target(index)
         /\ local \in [Targets -> [there : BOOLEAN, content : Seq(Content \cup {Old})]]
<1>1. index # 0 /\ ValidHashes(index) /\ TypeOK
  BY DEF IInv, LoopInv
<1>2. setting \in Settings
  BY <1>1 DEF TypeOK
<1>3. index \in 1..Len(Manifest) /\ part \in 0..Len(Pieces)
  BY <1>1, <1>2, SettingFacts DEF TypeOK, Pieces
<1>4. Len(Pieces) \in Nat /\ Pieces \in Seq(Hashes \cup {NoHash})
  BY <1>2, <1>3, SettingFacts DEF Pieces
<1>5. Pieces \in Seq(Hashes)
  <2>1. NoHash \notin Range(Pieces)
    BY <1>1 DEF ValidHashes, Pieces
  <2>2. \A k \in 1..Len(Pieces) : Pieces[k] \in Hashes
    BY <1>4, <2>1 DEF Range
  <2> QED
    BY <1>4, <2>2
<1>6. Target(index) \in Targets
  BY <1>3 DEF Targets
<1> QED
  BY <1>1, <1>2, <1>3, <1>4, <1>5, <1>6 DEF TypeOK, Destination

\* What is at the places of all files but the one being copied stays when only that is
\* written to and pc moves.
LEMMA PlacesKept ==
  ASSUME IInv, pc \in {"copy", "remove"}, NEW file,
         local' = [local EXCEPT ![Target(index)] = file],
         UNCHANGED <<setting, stored, index, restored, failed>>
  PROVE  PlaceInv'
<1>1. index \in 1..Len(Manifest) /\ setting \in Settings /\ Len(Manifest) \in Nat
  BY CopyFacts, SettingFacts
<1>2. /\ restored \subseteq 1..Len(Manifest) /\ failed \subseteq 1..Len(Manifest)
      /\ index \notin restored /\ index \notin failed
  BY DEF IInv, TypeOK, LoopInv
<1> SUFFICES ASSUME PathsPlain
             PROVE  /\ \A k \in restored : Whole(k)'
                    /\ \A k \in 1..Len(Manifest) : k > index => local'[Target(k)] \in Untouched
                    /\ "unremoved" \notin Faults => \A k \in failed : local'[Target(k)] \in Untouched
  BY Rigid DEF PlaceInv, Untouched
<1>3. \A k \in 1..Len(Manifest) :
        k # index => local'[Target(k)] = local[Target(k)] /\ (Whole(k)' <=> Whole(k))
  BY <1>1, OtherPlaces
<1>4. \A k \in restored \cup failed : k \in 1..Len(Manifest) /\ k # index
  BY <1>2
<1> QED
  BY <1>1, <1>3, <1>4 DEF IInv, PlaceInv

\* Append by places.
LEMMA AppendByPlaces ==
  ASSUME NEW S, NEW s \in Seq(S), NEW x \in S, NEW n \in Nat, n = Len(s)
  PROVE  Append(s, x) = [k \in 1..(n + 1) |-> IF k = n + 1 THEN x ELSE s[k]]
<1>1. PICK t \in Seq(S) : t = Append(s, x)
  <2>1. Append(s, x) \in Seq(S)
    OBVIOUS
  <2> QED
    BY <2>1, Zenon
<1>2. Len(t) = n + 1 /\ \A k \in 1..(n + 1) : t[k] = IF k = n + 1 THEN x ELSE s[k]
  BY <1>1
<1>3. t = [k \in 1..(n + 1) |-> t[k]]
  BY <1>2
<1> QED
  BY <1>1, <1>2, <1>3

\* CopyPart: the next object is appended.
LEMMA CopyPartInv == IInv /\ CopyPart => IInv'
<1> SUFFICES ASSUME IInv, CopyPart PROVE IInv'
  OBVIOUS
<1>1. /\ pc = "copy" /\ pc' = "copy" /\ part < Len(Pieces) /\ part' = part + 1
      /\ stored[Pieces[part + 1]] \in Content
      /\ local' = [local EXCEPT ![Destination] = File(Append(@.content, stored[Pieces[part + 1]]))]
      /\ UNCHANGED <<setting, stored, pc, index, restored, failed, ctxDone>>
  BY DEF CopyPart
<1>2. /\ index \in 1..Len(Manifest) /\ part \in 0..Len(Pieces) /\ Len(Pieces) \in Nat
      /\ Target(index) \in Targets /\ Destination = Target(index) /\ setting \in Settings
      /\ local \in [Targets -> [there : BOOLEAN, content : Seq(Content \cup {Old})]]
  BY <1>1, CopyFacts
<1>3. part \in Nat /\ part + 1 \in Nat
  BY <1>2
<1>4. local[Target(index)] = File(Copied(index, part)) /\ Decodes(index, part)
  BY <1>1 DEF IInv, CopyInv
<1>5. PICK x \in Content : x = stored[Pieces[part + 1]]
  BY <1>1
<1>6. Copied(index, part) \in Seq(Content) /\ Len(Copied(index, part)) = part
  <2>1. \A k \in 1..part : stored[Manifest[index].pieces[k]] \in Content
    BY <1>4 DEF Decodes
  <2> QED
    BY <1>3, <2>1 DEF Copied
<1>7. Append(Copied(index, part), x) = Copied(index, part + 1)
  <2>1. Append(Copied(index, part), x)
          = [k \in 1..(part + 1) |-> IF k = part + 1 THEN x ELSE Copied(index, part)[k]]
    BY <1>3, <1>6, AppendByPlaces
  <2>2. \A k \in 1..(part + 1) :
          (IF k = part + 1 THEN x ELSE Copied(index, part)[k]) = stored[Manifest[index].pieces[k]]
    BY <1>3, <1>5 DEF Copied, Pieces
  <2> QED
    BY <2>1, <2>2 DEF Copied
<1>8. local' = [local EXCEPT ![Target(index)] = File(Copied(index, part + 1))]
  <2>1. local[Target(index)].content = Copied(index, part)
    BY <1>4 DEF File
  <2>2. local' = [local EXCEPT ![Target(index)] = File(Append(local[Target(index)].content, x))]
    BY <1>1, <1>2, <1>5, Zenon
  <2> QED
    BY <1>7, <2>1, <2>2
<1>9. Copied(index, part + 1) \in Seq(Content \cup {Old}) /\ Decodes(index, part + 1)
  <2>1. Append(Copied(index, part), x) \in Seq(Content \cup {Old})
    BY <1>6
  <2>2. Decodes(index, part + 1)
    BY <1>1, <1>3, <1>4 DEF Decodes, Pieces
  <2> QED
    BY <1>7, <2>1, <2>2
<1>10. TypeOK'
  <2>1. local' \in [Targets -> [there : BOOLEAN, content : Seq(Content \cup {Old})]]
    BY <1>2, <1>8, <1>9 DEF File
  <2>2. part' \in 0..Len(Manifest[index].pieces) /\ index # 0
    BY <1>1, <1>2 DEF Pieces
  <2>3. setting' = setting /\ stored' = stored /\ index' = index
    BY <1>1
  <2> QED
    BY <1>1, <2>1, <2>2, <2>3, Rigid DEF IInv, TypeOK
<1>11. LoopInv'
  BY <1>1, Rigid DEF IInv, LoopInv
<1>12. StoreInv'
  BY <1>1 DEF IInv, StoreInv
<1>13. CopyInv'
  <2>1. local'[Target(index)] = File(Copied(index, part + 1))
    BY <1>2, <1>8
  <2> QED
    BY <1>1, <1>9, <2>1 DEF CopyInv, File, Copied, Decodes, Target, Manifest
<1>14. CauseInv'
  BY <1>1, CauseStays DEF IInv, CauseInv
<1>15. PlaceInv'
  BY <1>1, <1>8, PlacesKept
<1> QED
  BY <1>10, <1>11, <1>12, <1>13, <1>14, <1>15 DEF IInv

\* CopyFails: an object that does not decode is not intact.
LEMMA CopyFailsInv == IInv /\ CopyFails => IInv'
<1> SUFFICES ASSUME IInv, CopyFails PROVE IInv'
  OBVIOUS
<1>1. /\ pc = "copy" /\ pc' = "remove" /\ part < Len(Pieces)
      /\ ctxDone \/ "error" \in Faults \/ stored[Pieces[part + 1]] \notin Content
      /\ UNCHANGED <<setting, stored, local, index, part, restored, failed, ctxDone>>
  BY DEF CopyFails
<1>2. /\ index \in 1..Len(Manifest) /\ part \in 0..Len(Pieces) /\ Len(Pieces) \in Nat
      /\ Pieces \in Seq(Hashes)
  BY <1>1, CopyFacts
<1>3. Cause(index)
  <2>1. part + 1 \in 1..Len(Pieces) /\ Pieces[part + 1] \in Hashes
    BY <1>1, <1>2
  <2>2. stored[Pieces[part + 1]] \notin Content => stored[Pieces[part + 1]] # Pieces[part + 1]
    BY <2>1 DEF Content
  <2>3. stored[Pieces[part + 1]] \notin Content => ~Intact(index)
    BY <2>1, <2>2 DEF Intact, Pieces
  <2> QED
    BY <1>1, <2>3 DEF Cause
<1>4. ctxDone' \in BOOLEAN /\ (ctxDone => ctxDone') /\ \A i \in failed : Cause(i)
  BY <1>1 DEF IInv, TypeOK, CauseInv
<1>5. TypeOK' /\ StoreInv' /\ PlaceInv' /\ \A i \in failed' : Cause(i)'
  BY <1>1, <1>4, QuietStep DEF IInv
<1>6. LoopInv'
  BY <1>1, Rigid DEF IInv, LoopInv
<1>7. CopyInv' /\ CauseInv'
  BY <1>1, <1>3, <1>5, CauseStays DEF CopyInv, CauseInv
<1> QED
  BY <1>5, <1>6, <1>7 DEF IInv

\* Objects that are all intact are, decoded, the objects the manifest names.
LEMMA IntactIsCopied ==
  ASSUME setting \in Settings, NEW i \in 1..Len(Manifest),
         \A k \in 1..Len(Manifest[i].pieces) :
           stored[Manifest[i].pieces[k]] = Manifest[i].pieces[k]
  PROVE  Copied(i, Len(Manifest[i].pieces)) = Manifest[i].pieces
<1>1. PICK p \in Seq(Hashes \cup {NoHash}) : p = Manifest[i].pieces
  BY SettingFacts
<1>2. p = [k \in 1..Len(p) |-> p[k]]
  OBVIOUS
<1>3. \A k \in 1..Len(p) : stored[p[k]] = p[k]
  BY <1>1
<1>4. [k \in 1..Len(p) |-> stored[p[k]]] = p
  BY <1>2, <1>3
<1> QED
  BY <1>1, <1>4 DEF Copied

\* CloseDestination: the file is complete and its size is right.
LEMMA CloseInv == IInv /\ CloseDestination => IInv'
<1> SUFFICES ASSUME IInv, CloseDestination PROVE IInv'
  OBVIOUS
<1>1. /\ pc = "copy" /\ pc' = "next" /\ part = Len(Pieces) /\ SizeMatches
      /\ restored' = restored \cup {index}
      /\ UNCHANGED <<setting, stored, local, index, part, failed, ctxDone>>
  BY DEF CloseDestination
<1>2. /\ index \in 1..Len(Manifest) /\ Target(index) \in Targets /\ Destination = Target(index)
      /\ setting \in Settings /\ index \in Nat
  BY <1>1, CopyFacts
<1>3. Whole(index)
  <2>1. Traits.sized = TRUE
    BY <1>2, SettingFacts, AllSizedAndRemoving DEF Traits
  <2>2. TotalSize(local[Target(index)].content) = Manifest[index].size
    BY <1>1, <1>2, <2>1 DEF SizeMatches
  <2>3. local[Target(index)] = File(Copied(index, part)) /\ Decodes(index, part)
    BY <1>1 DEF IInv, CopyInv
  <2>4. ValidHashes(index)
    BY <1>1 DEF IInv, LoopInv
  <2> QED
    BY <1>1, <2>2, <2>3, <2>4 DEF Whole, Pieces
<1>4. TypeOK'
  <2>1. restored' \subseteq 1..Len(Manifest)
    BY <1>1, <1>2 DEF IInv, TypeOK
  <2>2. setting' = setting /\ stored' = stored
    BY <1>1
  <2> QED
    BY <1>1, <2>1, <2>2, Rigid DEF IInv, TypeOK
<1>5. LoopInv'
  <2>1. restored \subseteq 1..index /\ failed \subseteq 1..index
    BY DEF IInv, LoopInv
  <2>2. restored \cup {index} \subseteq 1..index
    <3>1. index \in 1..index
      BY <1>2
    <3> QED
      BY <2>1, <3>1
  <2>3. setting.only = <<>> => 1..index \subseteq (restored \cup {index}) \cup failed
    <3>1. setting.only = <<>> => 1..(index - 1) \subseteq restored \cup failed
      BY <1>1 DEF IInv, LoopInv
    <3>2. 1..index \subseteq 1..(index - 1) \cup {index}
      BY <1>2
    <3> QED
      BY <3>1, <3>2
  <2> QED
    BY <1>1, <2>1, <2>2, <2>3 DEF LoopInv
<1>6. StoreInv' /\ CopyInv'
  BY <1>1 DEF IInv, StoreInv, CopyInv
<1>7. CauseInv'
  BY <1>1, CauseStays DEF IInv, CauseInv
<1>8. PlaceInv'
  <2>1. \A k : Whole(k)' <=> Whole(k)
    BY <1>1, Rigid DEF Whole
  <2> QED
    BY <1>1, <1>3, <2>1, Rigid DEF IInv, PlaceInv, Untouched
<1> QED
  BY <1>4, <1>5, <1>6, <1>7, <1>8 DEF IInv

\* CloseFails: objects that are intact have the size the manifest should record.
LEMMA CloseFailsInv == IInv /\ CloseFails => IInv'
<1> SUFFICES ASSUME IInv, CloseFails PROVE IInv'
  OBVIOUS
<1>1. /\ pc = "copy" /\ pc' = "remove" /\ part = Len(Pieces)
      /\ ~SizeMatches \/ "error" \in Faults
      /\ UNCHANGED <<setting, stored, local, index, part, restored, failed, ctxDone>>
  BY DEF CloseFails
<1>2. /\ index \in 1..Len(Manifest) /\ Pieces \in Seq(Hashes) /\ setting \in Settings
      /\ Destination = Target(index)
  BY <1>1, CopyFacts
<1>3. Cause(index)
  <2> SUFFICES ASSUME ~SizeMatches, Intact(index), Manifest[index].size = Len(Pieces) PROVE FALSE
    BY <1>1 DEF Cause, Pieces
  <2>1. \A k \in 1..Len(Manifest[index].pieces) :
          stored[Manifest[index].pieces[k]] = Manifest[index].pieces[k]
    BY DEF Intact
  <2>2. Copied(index, Len(Pieces)) = Pieces
    BY <1>2, <2>1, IntactIsCopied DEF Pieces
  <2>3. local[Target(index)] = File(Pieces)
    BY <1>1, <2>2 DEF IInv, CopyInv
  <2>4. local[Destination].content = Pieces
    BY <1>2, <2>3 DEF File
  <2>5. TotalSize(Pieces) = Len(Pieces)
    BY <1>2, TotalSizeOfHashes
  <2> QED
    BY <2>4, <2>5 DEF SizeMatches
<1>4. ctxDone' \in BOOLEAN /\ (ctxDone => ctxDone') /\ \A i \in failed : Cause(i)
  BY <1>1 DEF IInv, TypeOK, CauseInv
<1>5. TypeOK' /\ StoreInv' /\ PlaceInv' /\ \A i \in failed' : Cause(i)'
  BY <1>1, <1>4, QuietStep DEF IInv
<1>6. LoopInv'
  BY <1>1, Rigid DEF IInv, LoopInv
<1>7. CopyInv' /\ CauseInv'
  BY <1>1, <1>3, <1>5, CauseStays DEF CopyInv, CauseInv
<1> QED
  BY <1>5, <1>6, <1>7 DEF IInv

\* RemoveDestination: nothing is left, unless the removal may fail.
LEMMA RemoveInv == IInv /\ RemoveDestination => IInv'
<1> SUFFICES ASSUME IInv, RemoveDestination PROVE IInv'
  OBVIOUS
<1>1. /\ pc = "remove" /\ pc' = "next" /\ failed' = failed \cup {index}
      /\ UNCHANGED <<setting, stored, index, part, restored, ctxDone>>
  BY DEF RemoveDestination
<1>2. /\ index \in 1..Len(Manifest) /\ Target(index) \in Targets /\ Destination = Target(index)
      /\ setting \in Settings /\ index \in Nat
      /\ local \in [Targets -> [there : BOOLEAN, content : Seq(Content \cup {Old})]]
  BY <1>1, CopyFacts
<1>3. Traits.removes = TRUE
  BY <1>2, SettingFacts, AllSizedAndRemoving DEF Traits
<1>4. \/ local' = [local EXCEPT ![Target(index)] = NoFile]
      \/ "unremoved" \in Faults /\ local' = local
  BY <1>2, <1>3 DEF RemoveDestination
<1>5. TypeOK'
  <2>1. NoFile \in [there : BOOLEAN, content : Seq(Content \cup {Old})]
    BY DEF NoFile
  <2>2. local' \in [Targets -> [there : BOOLEAN, content : Seq(Content \cup {Old})]]
    BY <1>2, <1>4, <2>1
  <2>3. failed' \subseteq 1..Len(Manifest)
    BY <1>1, <1>2 DEF IInv, TypeOK
  <2>4. setting' = setting /\ stored' = stored
    BY <1>1
  <2> QED
    BY <1>1, <2>2, <2>3, <2>4, Rigid DEF IInv, TypeOK
<1>6. LoopInv'
  <2>1. restored \subseteq 1..index /\ failed \subseteq 1..index
    BY DEF IInv, LoopInv
  <2>2. failed \cup {index} \subseteq 1..index
    <3>1. index \in 1..index
      BY <1>2
    <3> QED
      BY <2>1, <3>1
  <2>3. setting.only = <<>> => 1..index \subseteq restored \cup (failed \cup {index})
    <3>1. setting.only = <<>> => 1..(index - 1) \subseteq restored \cup failed
      BY <1>1 DEF IInv, LoopInv
    <3>2. 1..index \subseteq 1..(index - 1) \cup {index}
      BY <1>2
    <3> QED
      BY <3>1, <3>2
  <2> QED
    BY <1>1, <2>1, <2>2, <2>3 DEF LoopInv
<1>7. StoreInv' /\ CopyInv'
  BY <1>1 DEF IInv, StoreInv, CopyInv
<1>8. CauseInv'
  <2>1. \A i \in failed' : Cause(i)
    BY <1>1 DEF IInv, CauseInv
  <2> QED
    BY <1>1, <2>1, CauseStays DEF CauseInv
<1>9. PlaceInv'
  <2>1. CASE local' = local
    <3>1. "unremoved" \in Faults \/ local[Target(index)] = NoFile
      BY <1>2, <1>4, <2>1
    <3>2. \A k : Whole(k)' <=> Whole(k)
      BY <1>1, <2>1, Rigid DEF Whole
    <3> QED
      BY <1>1, <2>1, <3>1, <3>2, Rigid DEF IInv, PlaceInv, Untouched
  <2>2. CASE local' = [local EXCEPT ![Target(index)] = NoFile]
    <3> SUFFICES ASSUME PathsPlain
                 PROVE  /\ \A k \in restored : Whole(k)'
                        /\ \A k \in 1..Len(Manifest) : k > index => local'[Target(k)] \in Untouched
                        /\ "unremoved" \notin Faults =>
                             \A k \in failed \cup {index} : local'[Target(k)] \in Untouched
      BY <1>1, Rigid DEF PlaceInv, Untouched
    <3>1. \A k \in 1..Len(Manifest) :
            k # index => local'[Target(k)] = local[Target(k)] /\ (Whole(k)' <=> Whole(k))
      BY <1>1, <1>2, <2>2, OtherPlaces
    <3>2. local'[Target(index)] \in Untouched
      BY <1>2, <2>2 DEF Untouched
    <3>3. /\ restored \subseteq 1..Len(Manifest) /\ failed \subseteq 1..Len(Manifest)
          /\ index \notin restored /\ index \notin failed
      BY <1>1 DEF IInv, TypeOK, LoopInv
    <3>4. \A k \in 1..Len(Manifest) : k > index => k # index
      BY <1>2
    <3> QED
      BY <3>1, <3>2, <3>3, <3>4 DEF IInv, PlaceInv
  <2> QED
    BY <1>4, <2>1, <2>2
<1> QED
  BY <1>5, <1>6, <1>7, <1>8, <1>9 DEF IInv

\* A step that changes nothing.
LEMMA StutterInv == IInv /\ UNCHANGED vars => IInv'
<1> SUFFICES ASSUME IInv, UNCHANGED vars PROVE IInv'
  OBVIOUS
<1>1. UNCHANGED <<setting, stored, local, pc, index, part, restored, failed, ctxDone>>
  BY DEF vars
<1>2. /\ ctxDone' \in BOOLEAN /\ (ctxDone => ctxDone') /\ \A i \in failed : Cause(i)
      /\ pc' \in {"start", "next", "copy", "remove", "done", "error", "dead"}
  BY <1>1 DEF IInv, TypeOK, CauseInv
<1>3. TypeOK' /\ StoreInv' /\ PlaceInv' /\ \A i \in failed' : Cause(i)'
  BY <1>1, <1>2, QuietStep DEF IInv
<1>4. LoopInv' /\ CopyInv'
  BY <1>1, Rigid DEF IInv, LoopInv, CopyInv
<1>5. CauseInv'
  BY <1>1, <1>2, <1>3, CauseStays DEF IInv, CauseInv
<1> QED
  BY <1>3, <1>4, <1>5 DEF IInv

-----------------------------------------------------------------------------
(* The theorems.                                                             *)

\* The invariant holds of every behaviour of a restore, whichever calls fail, whenever the
\* context is cancelled or the process dies, and whatever the objects have become.
THEOREM Inductive == Spec => []IInv
<1>1. IInv /\ [Next]_vars => IInv'
  BY StartInv, ReturnInv, OpenInv, OpenFailsInv, CopyPartInv, CopyFailsInv, CloseInv,
     CloseFailsInv, RemoveInv, CancelInv, CrashInv, StutterInv
  DEF Next
<1> QED
  BY InitInv, <1>1, PTL DEF Spec

\* The variables of a restore keep their types; the part being copied is one the file has
\* (restore.go:30-50).
THEOREM TypeCorrect == Spec => []TypeOK
<1>1. IInv => TypeOK
  BY DEF IInv
<1> QED
  BY Inductive, <1>1, PTL

\* A file reported as restored is at its place under the destination, complete, its chunks in
\* order, and no later step of the restore changes that: for manifests of any length, files of
\* any number of chunks and paths of any form (restore.go:39-48, README.md:643-645).
THEOREM RestoredFilesAreBackedUp == Spec => []RestoredIsBackedUp
<1>1. IInv => RestoredIsBackedUp
  <2> SUFFICES ASSUME IInv, PathsPlain, NEW i \in restored
               PROVE  /\ setting.key \/ Intact(i) => local[Proper(i)] = File(Manifest[i].pieces)
                      /\ TotalSize(local[Proper(i)].content) = Manifest[i].size
    BY DEF RestoredIsBackedUp
  <2>1. setting \in Settings /\ i \in 1..Len(Manifest) /\ Whole(i)
    BY DEF IInv, TypeOK, PlaceInv
  <2>2. Target(i) = Proper(i)
    BY <2>1, TargetsApart
  <2>3. TotalSize(local[Proper(i)].content) = Manifest[i].size
    BY <2>1, <2>2 DEF Whole
  <2>4. ASSUME setting.key \/ Intact(i)
        PROVE  \A k \in 1..Len(Manifest[i].pieces) :
                 stored[Manifest[i].pieces[k]] = Manifest[i].pieces[k]
    <3>1. CASE Intact(i)
      BY <3>1 DEF Intact
    <3>2. CASE setting.key
      <4> TAKE k \in 1..Len(Manifest[i].pieces)
      <4>1. PICK h : h = Manifest[i].pieces[k]
        OBVIOUS
      <4>2. stored[h] \in Content
        BY <2>1, <4>1 DEF Whole, Decodes
      <4>3. h \in Hashes => stored[h] \in {Absent, Broken, h}
        BY <3>2 DEF IInv, StoreInv
      <4>4. Absent \notin Content /\ Broken \notin Content
        BY RestoreHashesAssumption DEF Absent, Broken, Content, Other
      <4>5. h \in Hashes
        <5>1. NoHash \notin Range(Manifest[i].pieces)
          BY <2>1 DEF Whole, ValidHashes
        <5>2. Manifest[i].pieces \in Seq(Hashes \cup {NoHash})
          BY <2>1, SettingFacts
        <5> QED
          BY <4>1, <5>1, <5>2 DEF Range
      <4> QED
        BY <4>1, <4>2, <4>3, <4>4, <4>5
    <3> QED
      BY <2>4, <3>1, <3>2
  <2>5. setting.key \/ Intact(i) => local[Proper(i)] = File(Manifest[i].pieces)
    BY <2>1, <2>2, <2>4, IntactIsCopied DEF Whole
  <2> QED
    BY <2>3, <2>5
<1> QED
  BY Inductive, <1>1, PTL

\* After a failure nothing of the file is left at its place: what the user had, if the
\* destination was not opened, or no file (README.md:645).
THEOREM FailedFilesLeaveNothing == Spec => []FailedLeavesNothing
<1>1. IInv => FailedLeavesNothing
  <2> SUFFICES ASSUME IInv, PathsPlain, "unremoved" \notin Faults, NEW i \in failed
               PROVE  local[Proper(i)] \in {NoFile, File(<<Old>>)}
    BY DEF FailedLeavesNothing
  <2>1. setting \in Settings /\ i \in 1..Len(Manifest) /\ local[Target(i)] \in Untouched
    BY DEF IInv, TypeOK, PlaceInv
  <2> QED
    BY <2>1, TargetsApart DEF Untouched
<1> QED
  BY Inductive, <1>1, PTL

\* Without a failing call or a cancellation a file fails only if an object of it is not
\* intact or its recorded size is wrong, and a restore that returns has tried every file
\* (restore.go:39-50).
THEOREM FailuresHaveCause == Spec => []FailureHasCause
<1>1. IInv => FailureHasCause
  <2> SUFFICES ASSUME IInv PROVE FailureHasCause
    OBVIOUS
  <2>1. \A i \in failed : Cause(i)
    BY DEF IInv, CauseInv
  <2>2. ASSUME pc = "done", setting.only = <<>> PROVE restored \cup failed = 1..Len(Manifest)
    <3>1. index = Len(Manifest) /\ 1..index \subseteq restored \cup failed
      BY <2>2 DEF IInv, LoopInv
    <3>2. restored \subseteq 1..index /\ failed \subseteq 1..index
      BY DEF IInv, LoopInv
    <3> QED
      BY <3>1, <3>2
  <2> QED
    BY <2>1, <2>2 DEF FailureHasCause, Cause
<1> QED
  BY Inductive, <1>1, PTL

=============================================================================
