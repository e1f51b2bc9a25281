---------------------------- MODULE SequenceFacts ----------------------------
(***************************************************************************)
(* What the operators the models are built from compute for every input:   *)
(* the concatenation of the chunks of a file.  A recursive function is     *)
(* known by its equation only once a function that satisfies it is shown   *)
(* to exist; both that and what it computes are shown by induction over    *)
(* the sets of the numbers for which they hold.                            *)
(***************************************************************************)
EXTENDS Integers, Sequences, SequencesExt, WellFoundedInduction, TLAPS

-----------------------------------------------------------------------------
(* Induction.                                                                *)

\* Every set of natural numbers that is not empty has a least element.
LEMMA LeastNumber ==
  ASSUME NEW T, T \subseteq Nat, T # {}
  PROVE  \E x \in T : \A y \in T : x <= y
<1> DEFINE R == {ss \in Nat \X Nat : ss[1] < ss[2]}
<1>1. IsWellFoundedOn(R, Nat)
  BY NatLessThanWellFounded DEF OpToRel
<1>2. \A x, y \in Nat : <<y, x>> \in R <=> y < x
  OBVIOUS
<1> HIDE DEF R
<1>3. PICK x \in T : \A y \in T : ~(<<y, x>> \in R)
  BY <1>1, WFMin
<1>4. \A y \in T : x <= y
  <2> TAKE y \in T
  <2>1. x \in Nat /\ y \in Nat
    OBVIOUS
  <2>2. ~(y < x)
    BY <1>2, <1>3, <2>1
  <2> QED
    BY <2>1, <2>2
<1> QED
  BY <1>4

\* A set that holds 0, and with every number the next one, holds all.
LEMMA InductionOverNat ==
  ASSUME NEW S, 0 \in S, \A n \in Nat : n \in S => n + 1 \in S
  PROVE  Nat \subseteq S
<1> DEFINE T == {n \in Nat : n \notin S}
<1> SUFFICES ASSUME T # {} PROVE FALSE
  OBVIOUS
<1>1. PICK x \in T : \A y \in T : x <= y
  BY LeastNumber
<1>2. x # 0 /\ x - 1 \in Nat /\ x - 1 \notin T
  BY <1>1
<1> QED
  BY <1>1, <1>2

-----------------------------------------------------------------------------
(* FlattenSeq                                                                *)

\* f is the concatenation of the first, the first two, ... m of the sequences ss.
Flattens(f, m, ss) ==
  f = [i \in 1..m |-> IF i = 1 THEN ss[i] ELSE f[i - 1] \o ss[i]]

\* There is such a function, however many sequences there are.
LEMMA FlattensExists == ASSUME NEW ss PROVE \A m \in Nat : \E f : Flattens(f, m, ss)
<1> DEFINE S == {m \in Nat : \E f : Flattens(f, m, ss)}
<1>1. 0 \in S
  <2>1. Flattens(<<>>, 0, ss)
    BY DEF Flattens
  <2> QED
    BY <2>1
<1>2. ASSUME NEW m \in Nat, m \in S PROVE m + 1 \in S
  <2>1. PICK f : Flattens(f, m, ss)
    BY <1>2
  <2> DEFINE g == [i \in 1..(m + 1) |->
                     IF i \in 1..m THEN f[i] ELSE IF i = 1 THEN ss[i] ELSE f[i - 1] \o ss[i]]
  <2>2. \A i \in 1..m : g[i] = f[i]
    OBVIOUS
  <2>3. \A i \in 1..(m + 1) : i # 1 => i - 1 \in 1..m
    OBVIOUS
  <2>4. \A i \in 1..(m + 1) : g[i] = IF i = 1 THEN ss[i] ELSE g[i - 1] \o ss[i]
    <3> TAKE i \in 1..(m + 1)
    <3>1. i # 1 => g[i - 1] = f[i - 1]
      BY <2>2, <2>3
    <3>2. i \in 1..m => f[i] = IF i = 1 THEN ss[i] ELSE f[i - 1] \o ss[i]
      BY <2>1 DEF Flattens
    <3>3. g[i] = IF i \in 1..m THEN f[i] ELSE IF i = 1 THEN ss[i] ELSE f[i - 1] \o ss[i]
      OBVIOUS
    <3> HIDE DEF g
    <3> QED
      BY <3>1, <3>2, <3>3
  <2>5. g = [i \in 1..(m + 1) |-> g[i]]
    OBVIOUS
  <2> HIDE DEF g
  <2>6. Flattens(g, m + 1, ss)
    BY <2>4, <2>5 DEF Flattens
  <2> QED
    BY <2>6
<1> HIDE DEF S
<1>3. Nat \subseteq S
  BY <1>1, <1>2, InductionOverNat
<1> QED
  BY <1>3 DEF S

\* So FlattenSeq is what its equation says.
LEMMA FlattenSeqFlattens ==
  ASSUME NEW ss, Len(ss) \in Nat, Len(ss) # 0
  PROVE  \E f : Flattens(f, Len(ss), ss) /\ FlattenSeq(ss) = f[Len(ss)]
<1> DEFINE f == CHOOSE f : Flattens(f, Len(ss), ss)
<1>1. \E g : Flattens(g, Len(ss), ss)
  BY FlattensExists
<1>2. Flattens(f, Len(ss), ss)
  BY <1>1, Zenon
<1>3. FlattenSeq(ss) = f[Len(ss)]
  BY DEF FlattenSeq, Flattens
<1> QED
  BY <1>2, <1>3

\* A beginning of a sequence and what follows it.
LEMMA SubSeqConcat ==
  ASSUME NEW S, NEW c \in Seq(S), NEW a \in Nat, NEW b \in Nat, a <= b, b <= Len(c)
  PROVE  SubSeq(c, 1, a) \o SubSeq(c, a + 1, b) = SubSeq(c, 1, b)
OBVIOUS

\* The parts of a sequence, one after the other, are the sequence.
LEMMA FlattenPartition ==
  ASSUME NEW S, NEW c \in Seq(S), NEW n \in Nat, n # 0, NEW ends \in [0..n -> Nat],
         NEW ss, Len(ss) = n, ends[0] = 0, ends[n] = Len(c),
         \A i \in 1..n : /\ ends[i - 1] <= ends[i] /\ ends[i] <= Len(c)
                         /\ ss[i] = SubSeq(c, ends[i - 1] + 1, ends[i])
  PROVE  FlattenSeq(ss) = c
<1>1. PICK f : Flattens(f, n, ss) /\ FlattenSeq(ss) = f[n]
  BY FlattenSeqFlattens
<1>2. \A i \in 1..n : f[i] = IF i = 1 THEN ss[i] ELSE f[i - 1] \o ss[i]
  BY <1>1 DEF Flattens
<1> DEFINE T == {m \in Nat : m \in 1..n => f[m] = SubSeq(c, 1, ends[m])}
<1>3. 0 \in T
  OBVIOUS
<1>4. ASSUME NEW m \in Nat, m \in T PROVE m + 1 \in T
  <2> SUFFICES ASSUME m + 1 \in 1..n PROVE f[m + 1] = SubSeq(c, 1, ends[m + 1])
    OBVIOUS
  <2>1. /\ ends[m] \in Nat /\ ends[m + 1] \in Nat /\ ends[m] <= ends[m + 1]
        /\ ends[m + 1] <= Len(c) /\ ss[m + 1] = SubSeq(c, ends[m] + 1, ends[m + 1])
    OBVIOUS
  <2>2. CASE m = 0
    <3>1. 1 \in 1..n /\ m + 1 = 1
      BY <2>2
    <3>2. f[1] = ss[1]
      BY <1>2, <3>1
    <3>3. ss[1] = SubSeq(c, 1, ends[1])
      <4>1. ends[m] + 1 = 1
        BY <2>2
      <4> QED
        BY <2>1, <3>1, <4>1
    <3> QED
      BY <3>1, <3>2, <3>3
  <2>3. CASE m # 0
    <3>1. f[m] = SubSeq(c, 1, ends[m])
      BY <1>4, <2>3
    <3>2. f[m + 1] = f[m] \o ss[m + 1]
      <4>1. m + 1 # 1 /\ (m + 1) - 1 = m
        BY <2>3
      <4> QED
        BY <1>2, <4>1
    <3> QED
      BY <2>1, <3>1, <3>2, SubSeqConcat
  <2> QED
    BY <2>2, <2>3
<1> HIDE DEF T
<1>5. n \in T
  BY <1>3, <1>4, InductionOverNat
<1>6. f[n] = SubSeq(c, 1, Len(c))
  <2>1. n \in 1..n
    OBVIOUS
  <2> QED
    BY <1>5, <2>1 DEF T
<1>7. SubSeq(c, 1, Len(c)) = c
  OBVIOUS
<1> QED
  BY <1>1, <1>6, <1>7

=============================================================================
