--------------------------- MODULE SequenceLemmas ----------------------------
(***************************************************************************)
(* Facts about sequences that the proofs about several components share:   *)
(* lists in which nothing occurs twice, with insertion and removal as the  *)
(* linked list of src/src/qsf_node.c and the session table of              *)
(* src/src/net/qsf_net_server.c have them; least elements, and induction   *)
(* by them; the concatenation of a sequence of sequences, as packets       *)
(* follow each other on a connection; sequences that are cut in parts, or  *)
(* that keep only a part, as pipes and streams do; and division with a     *)
(* remainder, for what is counted off in groups or blocks.                 *)
(***************************************************************************)
EXTENDS Integers, SequencesExt, SequenceTheorems, FiniteSetTheorems, WellFoundedInduction, TLAPS

\* A function on 1 .. n is a sequence.
LEMMA FunctionsAreSequences ==
    ASSUME NEW n \in Nat, NEW S, NEW f \in [1 .. n -> S]  PROVE f \in Seq(S)
  BY SeqDef

\* A set of numbers that is not empty has a least element, and Min is it.
LEMMA MinIsLeast ==
    ASSUME NEW S \in SUBSET Nat, S # {}
    PROVE  Min(S) \in S /\ \A n \in S : Min(S) <= n
<1> DEFINE R == StrictSubsetOrdering(Nat)
           T == {0 .. m : m \in S}
<1>1. T \subseteq FiniteSubsetsOf(Nat) /\ T # {}
  <2>1. ASSUME NEW m \in S PROVE 0 .. m \in FiniteSubsetsOf(Nat)
    <3>1. m \in Int /\ 0 .. m \in SUBSET Nat  OBVIOUS
    <3>2. IsFiniteSet(0 .. m)  BY <3>1, FS_Interval
    <3> QED  BY <3>1, <3>2 DEF FiniteSubsetsOf
  <2> QED  BY <2>1
<1>2. IsWellFoundedOn(R, FiniteSubsetsOf(Nat))
  BY FS_StrictSubsetOrderingWellFounded
<1> HIDE DEF R, T
<1>3. \E x \in T : \A y \in T : ~(<<y, x>> \in R)
  BY <1>1, <1>2, WFMin
<1>4. PICK m \in S : \A n \in S : ~(<<0 .. n, 0 .. m>> \in R)
  BY <1>3 DEF T
<1>5. ASSUME NEW n \in S, n < m PROVE FALSE
  <2>1. 0 .. n \subseteq 0 .. m /\ m \in 0 .. m /\ m \notin 0 .. n  BY <1>5
  <2>2. 0 .. n # 0 .. m  BY <2>1
  <2>3. <<0 .. n, 0 .. m>> \in R  BY <2>1, <2>2 DEF R, StrictSubsetOrdering
  <2> QED  BY <2>3, <1>4
<1>6. \A n \in S : m <= n  BY <1>5
<1> QED  BY <1>6 DEF Min

\* RemoveAt takes out one element and shifts those behind it.
LEMMA RemoveAtDef ==
    ASSUME NEW S, NEW s \in Seq(S), NEW i \in 1 .. Len(s)
    PROVE  /\ RemoveAt(s, i) \in Seq(S)
           /\ Len(RemoveAt(s, i)) = Len(s) - 1
           /\ \A j \in 1 .. Len(s) - 1 :
                RemoveAt(s, i)[j] = IF j < i THEN s[j] ELSE s[j + 1]
<1> DEFINE front == SubSeq(s, 1, i - 1)
           rest == SubSeq(s, i + 1, Len(s))
<1>0. Len(s) \in Nat  OBVIOUS
<1>1. front \in Seq(S) /\ Len(front) = i - 1 /\ \A j \in 1 .. i - 1 : front[j] = s[j]
  BY SubSeqProperties
<1>2. /\ rest \in Seq(S) /\ Len(rest) = Len(s) - i
      /\ \A j \in 1 .. Len(s) - i : rest[j] = s[i + j]
  <2>1. \A k \in i + 1 .. Len(s) : s[k] \in S  OBVIOUS
  <2>2. Len(s) - (i + 1) + 1 = Len(s) - i  BY <1>0
  <2>3. /\ rest \in Seq(S)
        /\ Len(rest) = IF i + 1 <= Len(s) THEN Len(s) - (i + 1) + 1 ELSE 0
        /\ \A j \in 1 .. Len(s) - (i + 1) + 1 : rest[j] = s[(i + 1) + j - 1]
    BY <2>1, <1>0, SubSeqProperties
  <2> HIDE DEF rest
  <2>4. Len(rest) = Len(s) - i
    <3>1. CASE i = Len(s)
      <4>1. ~(i + 1 <= Len(s)) /\ Len(s) - i = 0  BY <3>1, <1>0
      <4> QED  BY <4>1, <2>3
    <3>2. CASE i < Len(s)
      <4>1. i + 1 <= Len(s)  BY <3>2, <1>0, SMTT(40)
      <4> QED  BY <4>1, <2>2, <2>3
    <3> QED  BY <3>1, <3>2, <1>0
  <2>5. \A j \in 1 .. Len(s) - i : rest[j] = s[i + j]
    <3> TAKE j \in 1 .. Len(s) - i
    <3>1. (i + 1) + j - 1 = i + j  BY <1>0
    <3> QED  BY <2>2, <2>3, <3>1
  <2> QED  BY <2>3, <2>4, <2>5
<1>3. RemoveAt(s, i) = front \o rest  BY DEF RemoveAt
<1> HIDE DEF front, rest
<1>4. /\ front \o rest \in Seq(S)
      /\ Len(front \o rest) = Len(front) + Len(rest)
      /\ \A j \in 1 .. Len(front) + Len(rest) :
            (front \o rest)[j] = IF j <= Len(front) THEN front[j] ELSE rest[j - Len(front)]
  BY <1>1, <1>2, ConcatProperties
<1>5. Len(front) + Len(rest) = Len(s) - 1  BY <1>0, <1>1, <1>2
<1>6. ASSUME NEW j \in 1 .. Len(s) - 1
      PROVE  (front \o rest)[j] = IF j < i THEN s[j] ELSE s[j + 1]
  <2>1. CASE j < i  BY <2>1, <1>0, <1>1, <1>4, <1>5
  <2>2. CASE ~(j < i)
    <3>1. (front \o rest)[j] = rest[j - (i - 1)]  BY <2>2, <1>0, <1>1, <1>4, <1>5
    <3>2. j - (i - 1) \in 1 .. Len(s) - i  BY <2>2, <1>0
    <3>3. rest[j - (i - 1)] = s[i + (j - (i - 1))]  BY <3>2, <1>2
    <3>4. i + (j - (i - 1)) = j + 1  BY <1>0
    <3> QED  BY <2>2, <3>1, <3>3, <3>4
  <2> QED  BY <2>1, <2>2
<1> QED  BY <1>3, <1>4, <1>5, <1>6

\* Without duplicates, it takes out exactly that element.
LEMMA RemoveAtSet ==
    ASSUME NEW S, NEW s \in Seq(S), IsInjective(s), NEW i \in 1 .. Len(s)
    PROVE  /\ IsInjective(RemoveAt(s, i))
           /\ ToSet(RemoveAt(s, i)) = ToSet(s) \ {s[i]}
<1> DEFINE r == RemoveAt(s, i)
<1>1. /\ r \in Seq(S) /\ Len(r) = Len(s) - 1
      /\ \A j \in 1 .. Len(s) - 1 : r[j] = IF j < i THEN s[j] ELSE s[j + 1]
  BY RemoveAtDef
<1> HIDE DEF r
<1>2. /\ DOMAIN r = 1 .. Len(s) - 1 /\ DOMAIN s = 1 .. Len(s) /\ Len(s) \in Nat
  BY <1>1
<1>3. IsInjective(r)
  <2>1. ASSUME NEW j \in DOMAIN r, NEW k \in DOMAIN r, r[j] = r[k]  PROVE j = k
    <3>1. /\ j \in DOMAIN s /\ j + 1 \in DOMAIN s /\ k \in DOMAIN s /\ k + 1 \in DOMAIN s
      BY <1>2
    <3>2. /\ r[j] = IF j < i THEN s[j] ELSE s[j + 1]
          /\ r[k] = IF k < i THEN s[k] ELSE s[k + 1]
      BY <1>1, <1>2
    <3>3. \A l, m \in DOMAIN s : s[l] = s[m] => l = m  BY DEF IsInjective
    <3>4. CASE j < i /\ k < i  BY <3>4, <2>1, <3>1, <3>2, <3>3
    <3>5. CASE j < i /\ ~(k < i)
      <4>1. s[j] = s[k + 1] /\ j = k + 1  BY <3>5, <2>1, <3>1, <3>2, <3>3
      <4> QED  BY <4>1, <3>5, <1>2
    <3>6. CASE ~(j < i) /\ k < i
      <4>1. s[j + 1] = s[k] /\ j + 1 = k  BY <3>6, <2>1, <3>1, <3>2, <3>3
      <4> QED  BY <4>1, <3>6, <1>2
    <3>7. CASE ~(j < i) /\ ~(k < i)
      <4>1. s[j + 1] = s[k + 1] /\ j + 1 = k + 1  BY <3>7, <2>1, <3>1, <3>2, <3>3
      <4> QED  BY <4>1, <1>2
    <3> QED  BY <3>4, <3>5, <3>6, <3>7
  <2> QED  BY <2>1 DEF IsInjective
<1>4. ASSUME NEW j \in DOMAIN r  PROVE r[j] \in ToSet(s) \ {s[i]}
  <2>1. CASE j < i  BY <2>1, <1>1, <1>2, SMTT(40) DEF IsInjective, ToSet
  <2>2. CASE ~(j < i)
    <3>1. j + 1 \in DOMAIN s /\ j + 1 # i /\ r[j] = s[j + 1]  BY <2>2, <1>1, <1>2
    <3> QED  BY <3>1, <1>2 DEF IsInjective, ToSet
  <2> QED  BY <2>1, <2>2
<1>5. ASSUME NEW k \in DOMAIN s, s[k] # s[i]  PROVE \E j \in DOMAIN r : r[j] = s[k]
  <2>1. CASE k < i
    <3>1. k \in DOMAIN r /\ r[k] = s[k]  BY <2>1, <1>1, <1>2
    <3> QED  BY <3>1
  <2>2. CASE k > i
    <3>1. k - 1 \in DOMAIN r /\ r[k - 1] = s[k]  BY <2>2, <1>1, <1>2
    <3> QED  BY <3>1
  <2>3. k # i  BY <1>5
  <2> QED  BY <2>1, <2>2, <2>3, <1>2
<1>6. ToSet(r) = ToSet(s) \ {s[i]}  BY <1>4, <1>5 DEF ToSet
<1> QED  BY <1>3, <1>6 DEF r

\* Appending a new element keeps a sequence free of duplicates.
LEMMA AppendSet ==
    ASSUME NEW S, NEW s \in Seq(S), IsInjective(s), NEW e \in S, e \notin ToSet(s)
    PROVE  /\ Append(s, e) \in Seq(S)
           /\ Len(Append(s, e)) = Len(s) + 1
           /\ IsInjective(Append(s, e))
           /\ ToSet(Append(s, e)) = ToSet(s) \cup {e}
<1> DEFINE r == Append(s, e)
<1>1. /\ r \in Seq(S) /\ Len(r) = Len(s) + 1
      /\ \A i \in 1 .. Len(s) : r[i] = s[i]
      /\ r[Len(s) + 1] = e
  BY AppendProperties
<1> HIDE DEF r
<1>2. DOMAIN r = 1 .. Len(s) + 1 /\ DOMAIN s = 1 .. Len(s) /\ Len(s) \in Nat
  BY <1>1
<1>3. \A i \in DOMAIN r : (i \in DOMAIN s /\ r[i] = s[i]) \/ (i = Len(s) + 1 /\ r[i] = e)
  BY <1>1, <1>2
<1>4. IsInjective(r)  BY <1>2, <1>3 DEF IsInjective, ToSet
<1>5. ToSet(r) = ToSet(s) \cup {e}
  <2>1. ToSet(r) \subseteq ToSet(s) \cup {e}  BY <1>3 DEF ToSet
  <2>2. ToSet(s) \subseteq ToSet(r)  BY <1>1, <1>2 DEF ToSet
  <2>3. e \in ToSet(r)  BY <1>1, <1>2 DEF ToSet
  <2> QED  BY <2>1, <2>2, <2>3
<1> QED  BY <1>1, <1>4, <1>5 DEF r

\* Removal keeps the order of the others.
LEMMA RemoveAtOrder ==
    ASSUME NEW S, NEW s \in Seq(S), NEW i \in 1 .. Len(s),
           NEW j \in 1 .. Len(s), NEW k \in 1 .. Len(s), j < k, j # i, k # i
    PROVE  \E l, m \in 1 .. Len(RemoveAt(s, i)) :
              l < m /\ RemoveAt(s, i)[l] = s[j] /\ RemoveAt(s, i)[m] = s[k]
<1> DEFINE r == RemoveAt(s, i)
           new(n) == IF n < i THEN n ELSE n - 1
<1>1. /\ Len(r) = Len(s) - 1 /\ Len(s) \in Nat
      /\ \A n \in 1 .. Len(s) - 1 : r[n] = IF n < i THEN s[n] ELSE s[n + 1]
  BY RemoveAtDef
<1> HIDE DEF r
<1>2. ASSUME NEW n \in 1 .. Len(s), n # i  PROVE new(n) \in 1 .. Len(r) /\ r[new(n)] = s[n]
  <2>1. CASE n < i  BY <2>1, <1>1
  <2>2. CASE n > i
    <3>1. n - 1 \in 1 .. Len(s) - 1 /\ ~(n - 1 < i) /\ (n - 1) + 1 = n  BY <2>2, <1>1
    <3> QED  BY <3>1, <2>2, <1>1
  <2> QED  BY <2>1, <2>2, <1>2
<1>3. new(j) < new(k)  OBVIOUS
<1>4. new(j) \in 1 .. Len(r) /\ r[new(j)] = s[j]  BY <1>2
<1>5. new(k) \in 1 .. Len(r) /\ r[new(k)] = s[k]  BY <1>2
<1> HIDE DEF new
<1>6. \E l, m \in 1 .. Len(r) : l < m /\ r[l] = s[j] /\ r[m] = s[k]  BY <1>3, <1>4, <1>5
<1> QED  BY <1>6 DEF r

\* A sequence has at most as many elements as it is long, and exactly as many when
\* nothing occurs twice.
LEMMA ElementsOfSequence ==
    ASSUME NEW S, NEW s \in Seq(S)
    PROVE  /\ IsFiniteSet(ToSet(s))
           /\ Cardinality(ToSet(s)) <= Len(s)
           /\ IsInjective(s) => Cardinality(ToSet(s)) = Len(s)
<1>1. Len(s) \in Nat /\ s \in [1 .. Len(s) -> S] /\ DOMAIN s = 1 .. Len(s)
  BY LenProperties
<1>2. IsFiniteSet(1 .. Len(s)) /\ Cardinality(1 .. Len(s)) = Len(s)
  BY <1>1, FS_Interval, SMTT(40)
<1>3. s \in Surjection(1 .. Len(s), ToSet(s))
  BY <1>1 DEF Surjection, ToSet
<1>4. IsInjective(s) => s \in Injection(1 .. Len(s), ToSet(s))
  BY <1>1 DEF Injection, IsInjective, ToSet
<1> QED  BY <1>2, <1>3, <1>4, FS_Surjection

\* The image of a finite set is no larger than it.
LEMMA ImageNotLarger ==
    ASSUME NEW D, IsFiniteSet(D), NEW f
    PROVE  /\ IsFiniteSet({f[d] : d \in D})
           /\ Cardinality({f[d] : d \in D}) <= Cardinality(D)
<1>1. [d \in D |-> f[d]] \in Surjection(D, {f[d] : d \in D})  BY DEF Surjection
<1> QED  BY <1>1, FS_Surjection

-----------------------------------------------------------------------------
(* Concatenation of a sequence of sequences.  FlattenSeq is computed by a  *)
(* recursive function; that there is one, and what it is, follows by       *)
(* induction over its domain.                                              *)

\* Induction over the numbers, for a set instead of a predicate.
LEMMA InductiveSet ==
    ASSUME NEW S, 0 \in S, \A n \in Nat : n \in S => n + 1 \in S
    PROVE  Nat \subseteq S
<1> SUFFICES ASSUME Nat \ S # {}  PROVE FALSE  OBVIOUS
<1>1. Nat \ S \in SUBSET Nat  OBVIOUS
<1>2. PICK m \in Nat \ S : \A n \in Nat \ S : m <= n  BY <1>1, MinIsLeast
<1>3. m - 1 \in Nat /\ ~(m <= m - 1)  BY <1>2
<1>4. m - 1 \in S  BY <1>2, <1>3
<1>5. (m - 1) + 1 = m  BY <1>2
<1> QED  BY <1>3, <1>4, <1>5

\* Concatenation is associative.
LEMMA Associative == \A T : \A a, b, c \in Seq(T) : (a \o b) \o c = a \o (b \o c)
  BY ConcatAssociative

\* f is the running concatenation of the first n sequences of ss.
Running(f, ss, n) == f = [i \in 1 .. n |-> IF i = 1 THEN ss[i] ELSE f[i - 1] \o ss[i]]

\* There is such a function, although it is defined by itself.
LEMMA RunningExists ==
    ASSUME NEW ss, NEW n \in Nat  PROVE \E f : Running(f, ss, n)
<1> DEFINE S == {k \in Nat : \E f : Running(f, ss, k)}
<1>1. 0 \in S
  <2>1. Running(<<>>, ss, 0)  BY DEF Running
  <2> QED  BY <2>1
<1>2. ASSUME NEW k \in Nat, k \in S  PROVE k + 1 \in S
  <2>1. PICK f : Running(f, ss, k)  BY <1>2
  <2> DEFINE g == [i \in 1 .. k + 1 |-> IF i <= k THEN f[i]
                                        ELSE IF k = 0 THEN ss[1] ELSE f[k] \o ss[k + 1]]
  <2>2. ASSUME NEW i \in 1 .. k + 1
        PROVE  g[i] = IF i = 1 THEN ss[i] ELSE g[i - 1] \o ss[i]
    <3>1. CASE i <= k
      <4>1. i \in 1 .. k  BY <3>1
      <4>2. f[i] = IF i = 1 THEN ss[i] ELSE f[i - 1] \o ss[i]  BY <4>1, <2>1 DEF Running
      <4>3. i # 1 => g[i - 1] = f[i - 1]  BY <3>1
      <4> QED  BY <3>1, <4>2, <4>3
    <3>2. CASE i = k + 1
      <4>1. k # 0 => k \in 1 .. k + 1 /\ g[k] = f[k]  OBVIOUS
      <4> QED  BY <3>2, <4>1
    <3> QED  BY <3>1, <3>2
  <2>3. Running(g, ss, k + 1)  BY <2>2 DEF Running
  <2> QED  BY <2>3
<1> HIDE DEF S
<1>3. Nat \subseteq S  BY <1>1, <1>2, InductiveSet
<1> QED  BY <1>3 DEF S

\* It is what FlattenSeq uses.
LEMMA FlattenRuns ==
    ASSUME NEW ss, Len(ss) \in Nat, Len(ss) # 0
    PROVE  \E f : Running(f, ss, Len(ss)) /\ FlattenSeq(ss) = f[Len(ss)]
<1> DEFINE f == CHOOSE f : Running(f, ss, Len(ss))
<1>1. Running(f, ss, Len(ss))  BY RunningExists
<1>2. FlattenSeq(ss) = f[Len(ss)]  BY DEF FlattenSeq, Running
<1> QED  BY <1>1, <1>2


\* The same from the empty sequence on.
LEMMA FlattenFrom ==
    ASSUME NEW T, NEW ss \in Seq(Seq(T))
    PROVE  \E f \in [0 .. Len(ss) -> Seq(T)] :
              /\ f[0] = <<>>
              /\ \A i \in 1 .. Len(ss) : f[i] = f[i - 1] \o ss[i]
              /\ FlattenSeq(ss) = f[Len(ss)]
<1>0. Len(ss) \in Nat /\ \A i \in 1 .. Len(ss) : ss[i] \in Seq(T)  OBVIOUS
<1>1. CASE Len(ss) = 0
  <2>1. FlattenSeq(ss) = <<>>  BY <1>1 DEF FlattenSeq
  <2> DEFINE f == [i \in 0 .. 0 |-> <<>>]
  <2>2. f \in [0 .. Len(ss) -> Seq(T)] /\ f[0] = <<>>  BY <1>1
  <2> HIDE DEF f
  <2>3. FlattenSeq(ss) = f[Len(ss)] /\ 1 .. Len(ss) = {}  BY <1>1, <2>1, <2>2
  <2> QED  BY <2>2, <2>3
<1>2. CASE Len(ss) # 0
  <2>1. PICK g : Running(g, ss, Len(ss)) /\ FlattenSeq(ss) = g[Len(ss)]
    BY <1>0, <1>2, FlattenRuns
  <2> DEFINE S == {k \in Nat : k \in 1 .. Len(ss) => g[k] \in Seq(T)}
  <2>2. 0 \in S  OBVIOUS
  <2>3. ASSUME NEW k \in Nat, k \in S  PROVE k + 1 \in S
    <3> SUFFICES ASSUME k + 1 \in 1 .. Len(ss)  PROVE g[k + 1] \in Seq(T)  OBVIOUS
    <3>1. g[k + 1] = IF k + 1 = 1 THEN ss[k + 1] ELSE g[(k + 1) - 1] \o ss[k + 1]
      BY <2>1 DEF Running
    <3>2. CASE k = 0  BY <1>0, <3>1, <3>2
    <3>3. CASE k # 0
      <4>1. k \in 1 .. Len(ss) /\ (k + 1) - 1 = k  BY <3>3, <1>0
      <4>2. g[k] \in Seq(T) /\ ss[k + 1] \in Seq(T)  BY <2>3, <4>1, <1>0
      <4> QED  BY <3>1, <3>3, <4>1, <4>2
    <3> QED  BY <3>2, <3>3
  <2> HIDE DEF S
  <2>4. Nat \subseteq S  BY <2>2, <2>3, InductiveSet
  <2>5. \A k \in 1 .. Len(ss) : g[k] \in Seq(T)  BY <2>4 DEF S
  <2> DEFINE f == [i \in 0 .. Len(ss) |-> IF i = 0 THEN <<>> ELSE g[i]]
  <2>6. f \in [0 .. Len(ss) -> Seq(T)]  BY <2>5
  <2>7. f[0] = <<>> /\ FlattenSeq(ss) = f[Len(ss)]  BY <1>0, <1>2, <2>1
  <2>8. ASSUME NEW i \in 1 .. Len(ss)  PROVE f[i] = f[i - 1] \o ss[i]
    <3>1. g[i] = IF i = 1 THEN ss[i] ELSE g[i - 1] \o ss[i]  BY <2>1 DEF Running
    <3>2. CASE i = 1
      <4>1. <<>> \o ss[1] = ss[1]  BY <1>0, <3>2, ConcatEmptySeq
      <4>2. f[1] = ss[1] /\ f[0] = <<>> /\ i - 1 = 0  BY <3>1, <3>2
      <4> HIDE DEF f
      <4> QED  BY <3>2, <4>1, <4>2
    <3>3. CASE i # 1
      <4>1. i - 1 \in 0 .. Len(ss) /\ i - 1 # 0  BY <3>3
      <4>2. f[i] = g[i] /\ f[i - 1] = g[i - 1]  BY <4>1
      <4> HIDE DEF f
      <4> QED  BY <3>1, <3>3, <4>2
    <3> QED  BY <3>2, <3>3
  <2> HIDE DEF f
  <2> QED  BY <2>6, <2>7, <2>8
<1> QED  BY <1>1, <1>2

\* What FlattenSeq makes of a sequence of sequences is a sequence.
LEMMA FlattenType ==
    ASSUME NEW T, NEW ss \in Seq(Seq(T))  PROVE FlattenSeq(ss) \in Seq(T)
<1>1. Len(ss) \in 0 .. Len(ss)  OBVIOUS
<1>2. PICK f \in [0 .. Len(ss) -> Seq(T)] : FlattenSeq(ss) = f[Len(ss)]  BY FlattenFrom
<1> QED  BY <1>1, <1>2

\* What it makes of none is empty.
LEMMA FlattenEmpty == FlattenSeq(<<>>) = <<>>
  BY DEF FlattenSeq

\* One sequence more at the end: what it makes grows at its end.
LEMMA FlattenAppend ==
    ASSUME NEW T, NEW ss \in Seq(Seq(T)), NEW s \in Seq(T)
    PROVE  FlattenSeq(Append(ss, s)) = FlattenSeq(ss) \o s
<1> DEFINE n == Len(ss)
           tt == Append(ss, s)
<1>1. /\ n \in Nat /\ tt \in Seq(Seq(T)) /\ Len(tt) = n + 1
      /\ \A i \in 1 .. n : tt[i] = ss[i]
      /\ tt[n + 1] = s
  BY AppendProperties
<1>2. PICK f \in [0 .. n -> Seq(T)] :
         f[0] = <<>> /\ (\A i \in 1 .. n : f[i] = f[i - 1] \o ss[i]) /\ FlattenSeq(ss) = f[n]
  BY FlattenFrom
<1> HIDE DEF n, tt
<1>3. PICK g \in [0 .. Len(tt) -> Seq(T)] :
         /\ g[0] = <<>>
         /\ \A i \in 1 .. Len(tt) : g[i] = g[i - 1] \o tt[i]
         /\ FlattenSeq(tt) = g[Len(tt)]
  BY <1>1, FlattenFrom
<1> DEFINE S == {k \in Nat : k \in 0 .. n => g[k] = f[k]}
<1>4. 0 \in S  BY <1>2, <1>3
<1>5. ASSUME NEW k \in Nat, k \in S  PROVE k + 1 \in S
  <2> SUFFICES ASSUME k + 1 \in 0 .. n  PROVE g[k + 1] = f[k + 1]  OBVIOUS
  <2>1. k \in 0 .. n /\ k + 1 \in 1 .. n /\ k + 1 \in 1 .. n + 1 /\ (k + 1) - 1 = k  BY <1>1
  <2> QED  BY <1>1, <1>2, <1>3, <1>5, <2>1
<1> HIDE DEF S
<1>6. Nat \subseteq S  BY <1>4, <1>5, InductiveSet
<1>7. g[n] = f[n]  BY <1>1, <1>6 DEF S
<1>8. g[n + 1] = g[n] \o s
  <2>1. (n + 1) - 1 = n  BY <1>1
  <2>2. n + 1 \in 1 .. Len(tt)  BY <1>1
  <2> QED  BY <1>1, <1>3, <2>1, <2>2
<1> QED  BY <1>1, <1>2, <1>3, <1>7, <1>8 DEF tt

\* It begins with the first sequence.
LEMMA FlattenHead ==
    ASSUME NEW T, NEW ss \in Seq(Seq(T)), ss # <<>>
    PROVE  FlattenSeq(ss) = Head(ss) \o FlattenSeq(Tail(ss))
<1> DEFINE n == Len(ss)
           tt == Tail(ss)
<1>1. /\ n \in Nat /\ n # 0 /\ tt \in Seq(Seq(T)) /\ Len(tt) = n - 1
      /\ \A i \in 1 .. n - 1 : tt[i] = ss[i + 1]
      /\ Head(ss) = ss[1] /\ \A i \in 1 .. n : ss[i] \in Seq(T)
  BY HeadTailProperties
<1>2. PICK f \in [0 .. n -> Seq(T)] :
         f[0] = <<>> /\ (\A i \in 1 .. n : f[i] = f[i - 1] \o ss[i]) /\ FlattenSeq(ss) = f[n]
  BY FlattenFrom
<1> HIDE DEF n, tt
<1>3. PICK g \in [0 .. Len(tt) -> Seq(T)] :
         /\ g[0] = <<>>
         /\ \A i \in 1 .. Len(tt) : g[i] = g[i - 1] \o tt[i]
         /\ FlattenSeq(tt) = g[Len(tt)]
  BY <1>1, FlattenFrom
<1>0. ss[1] \in Seq(T)  BY <1>1
<1> DEFINE P(k) == k \in 0 .. n - 1 => f[k + 1] = ss[1] \o g[k]
           S == {k \in Nat : P(k)}
<1>4. P(0)
  <2>1. 1 \in 1 .. n /\ 1 - 1 = 0  BY <1>1
  <2>2. f[1] = <<>> \o ss[1]  BY <1>2, <2>1
  <2>3. <<>> \o ss[1] = ss[1] /\ ss[1] \o <<>> = ss[1]  BY <1>0, ConcatEmptySeq
  <2> QED  BY <1>3, <2>2, <2>3
<1>5. ASSUME NEW k \in Nat, P(k)  PROVE P(k + 1)
  <2> SUFFICES ASSUME k + 1 \in 0 .. n - 1  PROVE f[(k + 1) + 1] = ss[1] \o g[k + 1]
    OBVIOUS
  <2>1. /\ k \in 0 .. n - 1 /\ k + 1 \in 1 .. n - 1 /\ (k + 1) - 1 = k
        /\ (k + 1) + 1 \in 1 .. n /\ ((k + 1) + 1) - 1 = k + 1
    BY <1>1
  <2>2. f[k + 1] = ss[1] \o g[k]  BY <1>5, <2>1
  <2>3. f[(k + 1) + 1] = f[k + 1] \o tt[k + 1]  BY <1>1, <1>2, <2>1
  <2>4. g[k + 1] = g[k] \o tt[k + 1]  BY <1>1, <1>3, <2>1
  <2> DEFINE a == ss[1]
             b == g[k]
             c == tt[k + 1]
  <2>5. a \in Seq(T) /\ b \in Seq(T) /\ c \in Seq(T)  BY <1>0, <1>1, <1>3, <2>1
  <2> HIDE DEF a, b, c
  <2>6. (a \o b) \o c = a \o (b \o c)  BY ONLY <2>5, Associative, SMTT(40)
  <2> QED  BY <2>2, <2>3, <2>4, <2>6 DEF a, b, c
<1> HIDE DEF P
<1>6. Nat \subseteq S
  <2>1. 0 \in S /\ \A k \in Nat : k \in S => k + 1 \in S  BY <1>4, <1>5
  <2> HIDE DEF S
  <2> QED  BY <2>1, InductiveSet
<1>7. n - 1 \in Nat /\ n - 1 \in 0 .. n - 1 /\ (n - 1) + 1 = n  BY <1>1
<1>8. f[n] = ss[1] \o g[n - 1]  BY <1>6, <1>7 DEF P
<1> QED  BY <1>1, <1>2, <1>3, <1>8 DEF tt

\* Two ways to cut a sequence at the same place are the same.
LEMMA SameCut ==
    ASSUME NEW T, NEW a \in Seq(T), NEW b \in Seq(T), NEW c \in Seq(T), NEW d \in Seq(T),
           a \o b = c \o d, Len(a) = Len(c)
    PROVE  a = c /\ b = d
<1>1. Len(a) \in Nat /\ Len(b) \in Nat /\ Len(d) \in Nat  OBVIOUS
<1>2. Len(b) = Len(d)
  <2>1. Len(a \o b) = Len(a) + Len(b) /\ Len(c \o d) = Len(c) + Len(d)  BY ConcatProperties
  <2> QED  BY <1>1, <2>1
<1>3. \A i \in 1 .. Len(a) : a[i] = c[i]
  <2> SUFFICES ASSUME NEW i \in 1 .. Len(a)  PROVE a[i] = c[i]  OBVIOUS
  <2>1. (a \o b)[i] = a[i] /\ (c \o d)[i] = c[i]  BY <1>1, ConcatProperties
  <2> QED  BY <2>1
<1>4. \A i \in 1 .. Len(b) : b[i] = d[i]
  <2> SUFFICES ASSUME NEW i \in 1 .. Len(b)  PROVE b[i] = d[i]  OBVIOUS
  <2>1. /\ Len(a) + i \in 1 .. Len(a) + Len(b) /\ ~(Len(a) + i <= Len(a))
        /\ (Len(a) + i) - Len(a) = i
    BY <1>1
  <2>2. (a \o b)[Len(a) + i] = b[i]  BY <2>1, ConcatProperties, SMTT(40)
  <2>3. (c \o d)[Len(a) + i] = d[i]  BY <1>2, <2>1, ConcatProperties
  <2> QED  BY <2>2, <2>3
<1>5. a = c  BY <1>3, SeqEqual
<1>6. b = d  BY <1>2, <1>4, SeqEqual
<1> QED  BY <1>5, <1>6

\* A sequence cut in two and put together again.
LEMMA CutInTwo ==
    ASSUME NEW T, NEW s \in Seq(T), NEW n \in 0 .. Len(s)
    PROVE  /\ SubSeq(s, 1, n) \in Seq(T) /\ Len(SubSeq(s, 1, n)) = n
           /\ SubSeq(s, n + 1, Len(s)) \in Seq(T) /\ Len(SubSeq(s, n + 1, Len(s))) = Len(s) - n
           /\ SubSeq(s, 1, n) \o SubSeq(s, n + 1, Len(s)) = s
           /\ \A i \in 1 .. n : SubSeq(s, 1, n)[i] = s[i]
           /\ \A i \in 1 .. Len(s) - n : SubSeq(s, n + 1, Len(s))[i] = s[n + i]
<1> DEFINE a == SubSeq(s, 1, n)
           b == SubSeq(s, n + 1, Len(s))
<1>1. Len(s) \in Nat /\ n \in Nat /\ n <= Len(s) /\ \A i \in 1 .. Len(s) : s[i] \in T
  OBVIOUS
<1>2. a \in Seq(T) /\ Len(a) = n /\ \A i \in 1 .. n : a[i] = s[i]
  <2>1. \A i \in 1 .. n : s[i] \in T  BY <1>1
  <2> QED  BY <1>1, <2>1, SubSeqProperties
<1>3. b \in Seq(T) /\ Len(b) = Len(s) - n /\ \A i \in 1 .. Len(s) - n : b[i] = s[n + i]
  <2>1. \A i \in n + 1 .. Len(s) : s[i] \in T  BY <1>1
  <2>2. /\ b \in Seq(T)
        /\ Len(b) = IF n + 1 <= Len(s) THEN Len(s) - (n + 1) + 1 ELSE 0
        /\ \A i \in 1 .. Len(s) - (n + 1) + 1 : b[i] = s[(n + 1) + i - 1]
    BY <1>1, <2>1, SubSeqProperties
  <2>3. Len(b) = Len(s) - n  BY <1>1, <2>2
  <2>4. Len(s) - (n + 1) + 1 = Len(s) - n  BY <1>1
  <2>5. \A i \in 1 .. Len(s) - n : (n + 1) + i - 1 = n + i  BY <1>1, SMTT(40)
  <2> HIDE DEF b
  <2>6. \A i \in 1 .. Len(s) - n : b[i] = s[n + i]  BY <2>2, <2>4, <2>5
  <2> QED  BY <2>2, <2>3, <2>6
<1> HIDE DEF a, b
<1>4. /\ a \o b \in Seq(T) /\ Len(a \o b) = Len(s)
      /\ \A i \in 1 .. Len(s) : (a \o b)[i] = IF i <= n THEN a[i] ELSE b[i - n]
  BY <1>1, <1>2, <1>3, ConcatProperties
<1>5. \A i \in 1 .. Len(s) : (a \o b)[i] = s[i]
  <2> SUFFICES ASSUME NEW i \in 1 .. Len(s)  PROVE (a \o b)[i] = s[i]  OBVIOUS
  <2>1. CASE i <= n  BY <1>1, <1>2, <1>4, <2>1
  <2>2. CASE ~(i <= n)
    <3>1. i - n \in 1 .. Len(s) - n /\ n + (i - n) = i  BY <1>1, <2>2
    <3> QED  BY <1>3, <1>4, <2>2, <3>1
  <2> QED  BY <2>1, <2>2
<1>6. a \o b = s  BY <1>4, <1>5, SeqEqual
<1> QED  BY <1>2, <1>3, <1>6 DEF a, b

\* A concatenation, cut where it was put together.
LEMMA CutBack ==
    ASSUME NEW T, NEW x \in Seq(T), NEW y \in Seq(T)
    PROVE  SubSeq(x \o y, 1, Len(x)) = x /\ SubSeq(x \o y, Len(x) + 1, Len(x \o y)) = y
<1> DEFINE s == x \o y
           a == SubSeq(s, 1, Len(x))
           b == SubSeq(s, Len(x) + 1, Len(s))
<1>1. s \in Seq(T) /\ Len(x) \in 0 .. Len(s)  BY ConcatProperties
<1> HIDE DEF s
<1>2. a \in Seq(T) /\ Len(a) = Len(x) /\ b \in Seq(T) /\ a \o b = s  BY <1>1, CutInTwo, ZenonT(40)
<1> HIDE DEF a, b
<1>3. a \o b = x \o y  BY <1>2 DEF s
<1>4. a = x /\ b = y  BY <1>2, <1>3, SameCut
<1> QED  BY <1>4 DEF a, b, s

\* The middle one of three.
LEMMA MiddleOf ==
    ASSUME NEW T, NEW x \in Seq(T), NEW y \in Seq(T), NEW z \in Seq(T)
    PROVE  SubSeq((x \o y) \o z, Len(x) + 1, Len(x) + Len(y)) = y
<1> DEFINE xy == x \o y
           s == xy \o z
           b == SubSeq(s, Len(x) + 1, Len(x) + Len(y))
<1>0. Len(x) \in Nat /\ Len(y) \in Nat /\ Len(z) \in Nat  OBVIOUS
<1>1. xy \in Seq(T) /\ Len(xy) = Len(x) + Len(y)
      /\ \A i \in 1 .. Len(x) + Len(y) : xy[i] = IF i <= Len(x) THEN x[i] ELSE y[i - Len(x)]
  BY ConcatProperties
<1> HIDE DEF xy
<1>2. s \in Seq(T) /\ Len(s) = Len(xy) + Len(z)
      /\ \A i \in 1 .. Len(xy) + Len(z) : s[i] = IF i <= Len(xy) THEN xy[i] ELSE z[i - Len(xy)]
  <2>1. xy \in Seq(T) /\ z \in Seq(T)  BY <1>1
  <2> QED  BY ONLY <2>1, ConcatProperties DEF s
<1> HIDE DEF s
<1>3. \A i \in Len(x) + 1 .. Len(x) + Len(y) : i \in 1 .. Len(s) /\ s[i] \in T
  BY <1>0, <1>1, <1>2
<1>4. /\ b \in Seq(T)
      /\ Len(b) = IF Len(x) + 1 <= Len(x) + Len(y) THEN Len(x) + Len(y) - (Len(x) + 1) + 1 ELSE 0
      /\ \A i \in 1 .. Len(x) + Len(y) - (Len(x) + 1) + 1 : b[i] = s[Len(x) + 1 + i - 1]
  BY <1>0, <1>3, SubSeqProperties
<1> HIDE DEF b
<1>5. Len(b) = Len(y)  BY <1>0, <1>4
<1>6. \A i \in 1 .. Len(y) : b[i] = y[i]
  <2> SUFFICES ASSUME NEW i \in 1 .. Len(y)  PROVE b[i] = y[i]  OBVIOUS
  <2>1. /\ i \in 1 .. Len(x) + Len(y) - (Len(x) + 1) + 1 /\ Len(x) + 1 + i - 1 = Len(x) + i
        /\ Len(x) + i \in 1 .. Len(x) + Len(y) /\ ~(Len(x) + i <= Len(x))
        /\ (Len(x) + i) - Len(x) = i /\ Len(x) + i \in 1 .. Len(xy) + Len(z)
        /\ Len(x) + i <= Len(xy)
    BY <1>0, <1>1
  <2>2. b[i] = s[Len(x) + i]  BY <1>4, <2>1
  <2>3. s[Len(x) + i] = xy[Len(x) + i]  BY <1>2, <2>1
  <2>4. xy[Len(x) + i] = y[i]  BY <1>1, <2>1
  <2> QED  BY <2>2, <2>3, <2>4
<1>7. b = y  BY <1>4, <1>5, <1>6, SeqEqual
<1> QED  BY <1>7 DEF b, s, xy

\* One element between two sequences, taken out.
LEMMA TakenOut ==
    ASSUME NEW T, NEW x \in Seq(T), NEW one \in Seq(T), NEW z \in Seq(T), Len(one) = 1
    PROVE  \E i \in DOMAIN ((x \o one) \o z) : RemoveAt((x \o one) \o z, i) = x \o z
<1> DEFINE xe == x \o one
           ez == one \o z
           s == xe \o z
           i == Len(x) + 1
<1>0. s = xe \o z  OBVIOUS
<1>1. one \in Seq(T) /\ Len(one) = 1 /\ Len(x) \in Nat /\ Len(z) \in Nat  OBVIOUS
<1>2. xe \in Seq(T) /\ Len(xe) = i /\ ez \in Seq(T)
  <2>1. x \in Seq(T) /\ one \in Seq(T) /\ z \in Seq(T)  BY <1>1
  <2>2. xe \in Seq(T) /\ Len(xe) = Len(x) + Len(one)  BY ONLY <2>1, ConcatProperties DEF xe
  <2>3. ez \in Seq(T)  BY ONLY <2>1, ConcatProperties DEF ez
  <2> QED  BY <1>1, <2>2, <2>3
<1>3. s = x \o ez
  <2>1. x \in Seq(T) /\ one \in Seq(T) /\ z \in Seq(T)  BY <1>1
  <2>2. xe \o z = x \o ez  BY ONLY <2>1, Associative, SMTT(40) DEF xe, ez
  <2> QED  BY <1>0, <2>2
<1>4. SubSeq(xe \o z, Len(xe) + 1, Len(xe \o z)) = z
  <2> HIDE DEF xe
  <2> QED  BY <1>2, CutBack
<1>5. SubSeq(x \o ez, 1, Len(x)) = x
  <2> HIDE DEF ez
  <2> QED  BY <1>2, CutBack
<1>6. Len(s) = Len(xe) + Len(z)
  <2>1. xe \in Seq(T) /\ z \in Seq(T)  BY <1>2
  <2> HIDE DEF xe
  <2>2. Len(xe \o z) = Len(xe) + Len(z)  BY ONLY <2>1, ConcatProperties
  <2> QED  BY <1>0, <2>2
<1> HIDE DEF xe, ez
<1> HIDE DEF s
<1>7. i - 1 = Len(x) /\ i \in 1 .. Len(s)  BY <1>1, <1>2, <1>6
<1>8. SubSeq(s, i + 1, Len(s)) = z  BY <1>0, <1>2, <1>4
<1>9. SubSeq(s, 1, i - 1) = x  BY <1>3, <1>5, <1>7
<1>10. i \in DOMAIN s
  <2>1. s \in Seq(T)
    <3>1. xe \in Seq(T) /\ z \in Seq(T)  BY <1>2
    <3> QED  BY <1>0, <3>1
  <2> QED  BY <1>7, <2>1
<1> HIDE DEF i
<1>11. RemoveAt(s, i) = x \o z  BY <1>8, <1>9 DEF RemoveAt
<1> QED  BY <1>10, <1>11 DEF s, xe

\* A sequence that is not empty ends with an element.
LEMMA FrontAndLast ==
    ASSUME NEW T, NEW n \in Nat, NEW t \in Seq(T), Len(t) = n + 1
    PROVE  LET u == [i \in 1 .. n |-> t[i]]
           IN  u \in Seq(T) /\ Len(u) = n /\ t[n + 1] \in T /\ t = Append(u, t[n + 1])
<1> DEFINE u == [i \in 1 .. n |-> t[i]]
           e == t[n + 1]
<1>1. e \in T /\ \A i \in 1 .. n : t[i] \in T  OBVIOUS
<1>2. u \in Seq(T) /\ Len(u) = n /\ \A i \in 1 .. n : u[i] = t[i]  BY <1>1
<1> HIDE DEF u, e
<1>3. /\ Append(u, e) \in Seq(T) /\ Len(Append(u, e)) = n + 1
      /\ \A i \in 1 .. n : Append(u, e)[i] = u[i]
      /\ Append(u, e)[n + 1] = e
  BY <1>1, <1>2, AppendProperties
<1>4. \A i \in 1 .. n + 1 : Append(u, e)[i] = t[i]
  <2> SUFFICES ASSUME NEW i \in 1 .. n + 1  PROVE Append(u, e)[i] = t[i]  OBVIOUS
  <2>1. i \in 1 .. n \/ i = n + 1  OBVIOUS
  <2> QED  BY <1>2, <1>3, <2>1 DEF e
<1>5. t = Append(u, e)  BY <1>3, <1>4, SeqEqual
<1> QED  BY <1>1, <1>2, <1>5 DEF u, e

\* The elements of s that are in S, in their order.
Kept(s, S) == FlattenSeq([i \in DOMAIN s |-> IF s[i] \in S THEN <<s[i]>> ELSE <<>>])

\* One element.
KeptOne(e, S) == IF e \in S THEN <<e>> ELSE <<>>

\* It is a sequence of the same kind.
LEMMA KeptType ==
    ASSUME NEW T, NEW s \in Seq(T), NEW S
    PROVE  /\ [i \in DOMAIN s |-> IF s[i] \in S THEN <<s[i]>> ELSE <<>>] \in Seq(Seq(T))
           /\ Kept(s, S) \in Seq(T)
<1>1. /\ DOMAIN s = 1 .. Len(s) /\ Len(s) \in Nat
      /\ \A i \in 1 .. Len(s) : (IF s[i] \in S THEN <<s[i]>> ELSE <<>>) \in Seq(T)
  OBVIOUS
<1>2. [i \in DOMAIN s |-> IF s[i] \in S THEN <<s[i]>> ELSE <<>>] \in Seq(Seq(T))
  BY <1>1, FunctionsAreSequences
<1> QED  BY <1>2, FlattenType DEF Kept

\* Of nothing, nothing is kept.
LEMMA KeptEmpty == ASSUME NEW S PROVE Kept(<<>>, S) = <<>>
<1>1. [i \in DOMAIN <<>> |-> IF <<>>[i] \in S THEN << <<>>[i] >> ELSE <<>>] = <<>>  OBVIOUS
<1> QED  BY <1>1, FlattenEmpty DEF Kept

\* One element more.
LEMMA KeptAppend ==
    ASSUME NEW T, NEW s \in Seq(T), NEW e \in T, NEW S
    PROVE  Kept(Append(s, e), S) = Kept(s, S) \o KeptOne(e, S)
<1> DEFINE n == Len(s)
           t == Append(s, e)
           ks == [i \in DOMAIN s |-> IF s[i] \in S THEN <<s[i]>> ELSE <<>>]
           kt == [i \in DOMAIN t |-> IF t[i] \in S THEN <<t[i]>> ELSE <<>>]
           one == KeptOne(e, S)
<1>1. /\ n \in Nat /\ DOMAIN s = 1 .. n /\ DOMAIN t = 1 .. n + 1 /\ t \in Seq(T)
      /\ \A i \in 1 .. n : t[i] = s[i]
      /\ t[n + 1] = e
  BY AppendProperties
<1>2. ks \in Seq(Seq(T)) /\ Len(ks) = n  BY <1>1, KeptType
<1>3. kt \in Seq(Seq(T)) /\ Len(kt) = n + 1
  <2> HIDE DEF t
  <2>1. kt \in Seq(Seq(T))  BY <1>1, KeptType
  <2>2. DOMAIN kt = 1 .. n + 1  BY <1>1
  <2> HIDE DEF kt, n
  <2> QED  BY <1>1, <2>1, <2>2
<1>4. one \in Seq(T)  BY DEF KeptOne
<1>5. \A i \in 1 .. n : kt[i] = ks[i]  BY <1>1
<1>6. kt[n + 1] = one  BY <1>1 DEF KeptOne
<1>7. Kept(t, S) = FlattenSeq(kt) /\ Kept(s, S) = FlattenSeq(ks)  BY DEF Kept
<1> HIDE DEF n, t, ks, kt, one
<1>8. /\ Append(ks, one) \in Seq(Seq(T)) /\ Len(Append(ks, one)) = n + 1
      /\ \A i \in 1 .. n : Append(ks, one)[i] = ks[i]
      /\ Append(ks, one)[n + 1] = one
  BY <1>2, <1>4, AppendProperties
<1>9. \A i \in 1 .. n + 1 : Append(ks, one)[i] = kt[i]
  <2> SUFFICES ASSUME NEW i \in 1 .. n + 1  PROVE Append(ks, one)[i] = kt[i]  OBVIOUS
  <2>1. i \in 1 .. n \/ i = n + 1  BY <1>1
  <2> QED  BY <1>5, <1>6, <1>8, <2>1
<1>10. kt = Append(ks, one)  BY <1>3, <1>8, <1>9, SeqEqual
<1>11. FlattenSeq(Append(ks, one)) = FlattenSeq(ks) \o one  BY <1>2, <1>4, FlattenAppend
<1> QED  BY <1>7, <1>10, <1>11 DEF t, one

\* An element behind the second of two sequences is behind both.
LEMMA ConcatAppend ==
    ASSUME NEW T, NEW s \in Seq(T), NEW t \in Seq(T), NEW e \in T
    PROVE  s \o Append(t, e) = Append(s \o t, e)
<1>1. <<e>> \in Seq(T) /\ s \o t \in Seq(T)  OBVIOUS
<1>2. Append(t, e) = t \o <<e>> /\ Append(s \o t, e) = (s \o t) \o <<e>>
  BY <1>1, AppendIsConcat
<1>3. (s \o t) \o <<e>> = s \o (t \o <<e>>)
  <2>1. s \in Seq(T) /\ t \in Seq(T) /\ <<e>> \in Seq(T)  BY <1>1
  <2> QED  BY ONLY <2>1, Associative, SMTT(40)
<1> QED  BY <1>2, <1>3

\* What is kept of a concatenation is what is kept of its parts.
KeptApart(s, t, S) == Kept(s \o t, S) = Kept(s, S) \o Kept(t, S)

\* One element more in the second part.
LEMMA KeptApartOne ==
    ASSUME NEW T, NEW s \in Seq(T), NEW v \in Seq(T), NEW e \in T, NEW S, KeptApart(s, v, S)
    PROVE  KeptApart(s, Append(v, e), S)
<1>1. s \o Append(v, e) = Append(s \o v, e) /\ s \o v \in Seq(T)  BY ConcatAppend
<1>2. Kept(Append(s \o v, e), S) = Kept(s \o v, S) \o KeptOne(e, S)  BY <1>1, KeptAppend
<1>3. Kept(Append(v, e), S) = Kept(v, S) \o KeptOne(e, S)  BY KeptAppend
<1>4. KeptOne(e, S) \in Seq(T)  BY DEF KeptOne
<1>5. Kept(s, S) \in Seq(T) /\ Kept(v, S) \in Seq(T) /\ KeptOne(e, S) \in Seq(T)
  BY <1>4, KeptType
<1> DEFINE a == Kept(s, S)
           b == Kept(v, S)
           c == KeptOne(e, S)
<1>6. a \in Seq(T) /\ b \in Seq(T) /\ c \in Seq(T)  BY <1>5
<1> HIDE DEF a, b, c
<1>7. (a \o b) \o c = a \o (b \o c)  BY ONLY <1>6, Associative, SMTT(40)
<1> QED  BY <1>1, <1>2, <1>3, <1>7 DEF KeptApart, a, b, c

\* For all parts, by induction on the length of the second.
LEMMA KeptConcat ==
    ASSUME NEW T, NEW s \in Seq(T), NEW t \in Seq(T), NEW S
    PROVE  Kept(s \o t, S) = Kept(s, S) \o Kept(t, S)
<1> DEFINE N == {n \in Nat : \A u \in Seq(T) : Len(u) = n => KeptApart(s, u, S)}
<1>1. \A u \in Seq(T) : Len(u) = 0 => KeptApart(s, u, S)
  <2> SUFFICES ASSUME NEW u \in Seq(T), Len(u) = 0  PROVE KeptApart(s, u, S)  OBVIOUS
  <2>1. u = <<>> /\ s \o <<>> = s /\ Kept(s, S) \o <<>> = Kept(s, S)
    BY KeptType, ConcatEmptySeq
  <2> QED  BY <2>1, KeptEmpty DEF KeptApart
<1>2. ASSUME NEW v \in Seq(T), NEW e \in T, KeptApart(s, v, S)
      PROVE  KeptApart(s, Append(v, e), S)
  BY <1>2, KeptApartOne
<1>3. 0 \in N  BY <1>1
<1>4. ASSUME NEW n \in Nat, n \in N  PROVE n + 1 \in N
  <2> SUFFICES ASSUME NEW u \in Seq(T), Len(u) = n + 1  PROVE KeptApart(s, u, S)  OBVIOUS
  <2> DEFINE v == [i \in 1 .. n |-> u[i]]
             e == u[n + 1]
  <2>1. v \in Seq(T) /\ Len(v) = n /\ e \in T /\ u = Append(v, e)  BY FrontAndLast
  <2> HIDE DEF v, e
  <2>2. KeptApart(s, v, S)  BY <1>4, <2>1
  <2> QED  BY <1>2, <2>1, <2>2
<1> HIDE DEF N
<1>5. Nat \subseteq N  BY <1>3, <1>4, InductiveSet
<1>6. Len(t) \in N  BY <1>5
<1> QED  BY <1>6 DEF N, KeptApart

\* A number as a multiple and the rest.
LEMMA Division ==
    ASSUME NEW m \in Nat \ {0}, NEW a \in Nat
    PROVE  a \div m \in Nat /\ a % m \in 0 .. m - 1 /\ (a \div m) * m + (a % m) = a
  OBVIOUS

\* There is one way only to divide with a rest.
LEMMA DivisionIs ==
    ASSUME NEW m \in Nat \ {0}, NEW q \in Nat, NEW r \in 0 .. m - 1
    PROVE  (q * m + r) \div m = q /\ (q * m + r) % m = r
<1> DEFINE a == q * m + r
           d == a \div m
           e == a % m
<1>1. q * m \in Nat  OBVIOUS
<1>2. a \in Nat  BY <1>1
<1>3. d \in Nat /\ e \in 0 .. m - 1 /\ d * m + e = a
  <2> HIDE DEF a
  <2> QED  BY <1>2, Division
<1>4. d * m + e = q * m + r  BY <1>3
<1> HIDE DEF a, d, e
<1>5. ~(d < q)
  <2> SUFFICES ASSUME d + 1 <= q PROVE FALSE  BY <1>3
  <2>1. (d + 1) * m <= q * m /\ (d + 1) * m = d * m + m /\ d * m \in Nat  BY <1>3
  <2> QED  BY <1>1, <1>3, <1>4, <2>1
<1>6. ~(q < d)
  <2> SUFFICES ASSUME q + 1 <= d PROVE FALSE  BY <1>3
  <2>1. (q + 1) * m <= d * m /\ (q + 1) * m = q * m + m /\ d * m \in Nat  BY <1>3
  <2> QED  BY <1>1, <1>3, <1>4, <2>1
<1>7. d = q  BY <1>3, <1>5, <1>6
<1>8. e = r  BY <1>1, <1>3, <1>4, <1>7
<1> QED  BY <1>7, <1>8 DEF a, d, e

\* A number in two parts.
LEMMA InTwo ==
    ASSUME NEW m \in Nat \ {0}, NEW n \in Nat \ {0}, NEW x \in 0 .. m * n - 1
    PROVE  x \div m \in 0 .. n - 1 /\ x % m \in 0 .. m - 1 /\ (x \div m) * m + (x % m) = x
<1> DEFINE q == x \div m
           r == x % m
<1>1. m * n \in Nat  OBVIOUS
<1>2. x \in Nat /\ x < m * n  BY <1>1
<1>3. q \in Nat /\ r \in 0 .. m - 1 /\ q * m + r = x  BY <1>2, Division
<1> HIDE DEF q, r
<1>4. ~(n <= q)
  <2> SUFFICES ASSUME n <= q  PROVE FALSE  OBVIOUS
  <2>1. n * m <= q * m /\ n * m = m * n /\ q * m \in Nat  BY <1>3
  <2> QED  BY <1>1, <1>2, <1>3, <2>1
<1>5. q \in 0 .. n - 1  BY <1>3, <1>4
<1> QED  BY <1>3, <1>5 DEF q, r

\* Two parts of a number.
LEMMA OfTwo ==
    ASSUME NEW m \in Nat \ {0}, NEW n \in Nat \ {0}, NEW x \in 0 .. n - 1, NEW y \in 0 .. m - 1
    PROVE  /\ x * m + y \in 0 .. m * n - 1
           /\ (x * m + y) \div m = x /\ (x * m + y) % m = y
<1>1. x \in Nat /\ y \in 0 .. m - 1  OBVIOUS
<1>2. (x * m + y) \div m = x /\ (x * m + y) % m = y  BY <1>1, DivisionIs
<1>3. x * m \in Nat /\ m * n \in Nat /\ x * m + m <= m * n
  <2>1. x + 1 <= n /\ x + 1 \in Nat  OBVIOUS
  <2>2. (x + 1) * m <= n * m /\ (x + 1) * m = x * m + m /\ n * m = m * n  BY <2>1
  <2> QED  BY <2>2
<1>4. x * m + y \in 0 .. m * n - 1  BY <1>3
<1> QED  BY <1>2, <1>4

\* Where a number is in a group of k.
LEMMA InGroup ==
    ASSUME NEW k \in Nat \ {0}, NEW i \in Nat \ {0}
    PROVE  \E g \in Nat, t \in 1 .. k : i = k * g + t
<1> DEFINE g == (i - 1) \div k
           r == (i - 1) % k
<1>1. i - 1 \in Nat  OBVIOUS
<1>2. g \in Nat /\ r \in 0 .. k - 1 /\ g * k + r = i - 1  BY ONLY <1>1, k \in Nat \ {0}, Division
<1> HIDE DEF g, r
<1>3. g * k = k * g /\ g * k \in Nat  BY <1>2
<1>4. r + 1 \in 1 .. k /\ i = k * g + (r + 1)  BY <1>2, <1>3
<1> QED  BY <1>2, <1>4

\* One function value more.
LEMMA OneMore ==
    ASSUME NEW T, NEW n \in Nat, NEW f \in [1 .. n -> T], NEW j \in 0 .. n - 1
    PROVE  /\ [b \in 1 .. j |-> f[b]] \in Seq(T)
           /\ [b \in 1 .. j + 1 |-> f[b]] = Append([b \in 1 .. j |-> f[b]], f[j + 1])
<1> DEFINE g == [b \in 1 .. j |-> f[b]]
           h == [b \in 1 .. j + 1 |-> f[b]]
<1>1. j \in Nat /\ j + 1 \in 1 .. n /\ \A b \in 1 .. j + 1 : f[b] \in T  OBVIOUS
<1>2. g \in Seq(T) /\ Len(g) = j
  <2>1. g \in [1 .. j -> T]  BY <1>1
  <2> QED  BY <1>1, <2>1, FunctionsAreSequences
<1>3. h \in Seq(T) /\ Len(h) = j + 1
  <2>1. h \in [1 .. j + 1 -> T]  BY <1>1
  <2> QED  BY <1>1, <2>1, FunctionsAreSequences
<1>4. \A b \in 1 .. j + 1 : h[b] = f[b]  OBVIOUS
<1>5. \A b \in 1 .. j : g[b] = f[b]  OBVIOUS
<1> HIDE DEF g, h
<1>6. /\ Append(g, f[j + 1]) \in Seq(T) /\ Len(Append(g, f[j + 1])) = j + 1
      /\ \A b \in 1 .. j : Append(g, f[j + 1])[b] = g[b]
      /\ Append(g, f[j + 1])[j + 1] = f[j + 1]
  BY <1>1, <1>2, AppendProperties
<1>7. \A b \in 1 .. Len(h) : h[b] = Append(g, f[j + 1])[b]
  <2> SUFFICES ASSUME NEW b \in 1 .. Len(h)  PROVE h[b] = Append(g, f[j + 1])[b]  OBVIOUS
  <2>1. b = j + 1 \/ b \in 1 .. j  BY <1>1, <1>3
  <2> QED  BY <1>3, <1>4, <1>5, <1>6, <2>1
<1>8. h = Append(g, f[j + 1])  BY <1>3, <1>6, <1>7, SeqEqual
<1> QED  BY <1>2, <1>8 DEF g, h

\* Two sequences, one after the other.
LEMMA Together ==
    ASSUME NEW T, NEW s \in Seq(T), NEW t \in Seq(T)
    PROVE  /\ s \o t \in Seq(T) /\ Len(s \o t) = Len(s) + Len(t)
           /\ \A i \in 1 .. Len(s) : (s \o t)[i] = s[i]
           /\ \A i \in 1 .. Len(t) : (s \o t)[Len(s) + i] = t[i]
  BY ConcatProperties

\* Where the items are of n sequences of length m, one after the other.
EachInPlace(whole, f, n, m) == \A b \in 1 .. n, k \in 1 .. m : whole[(b - 1) * m + k] = f[b][k]

\* Sequences of equal length one after the other.
LEMMA FlattenEqual ==
    ASSUME NEW T, NEW m \in Nat, NEW n \in Nat, NEW f \in [1 .. n -> Seq(T)],
           \A b \in 1 .. n : Len(f[b]) = m
    PROVE  /\ FlattenSeq(f) \in Seq(T) /\ Len(FlattenSeq(f)) = n * m
           /\ EachInPlace(FlattenSeq(f), f, n, m)
<1> DEFINE g(j) == [b \in 1 .. j |-> f[b]]
           Flat(j) == /\ FlattenSeq(g(j)) \in Seq(T) /\ Len(FlattenSeq(g(j))) = j * m
                      /\ \A b \in 1 .. j, k \in 1 .. m : FlattenSeq(g(j))[(b - 1) * m + k] = f[b][k]
           S == {j \in Nat : j <= n => Flat(j)}
<1>1. 0 \in S
  <2>1. g(0) = <<>>  OBVIOUS
  <2> HIDE DEF g
  <2>2. FlattenSeq(g(0)) = <<>> /\ 0 * m = 0  BY <2>1, FlattenEmpty
  <2>3. <<>> \in Seq(T) /\ Len(<<>>) = 0 /\ \A b \in 1 .. 0 : FALSE  OBVIOUS
  <2>4. Flat(0)  BY <2>2, <2>3
  <2> HIDE DEF Flat
  <2> QED  BY <2>4
<1>2. ASSUME NEW j \in Nat, j \in S  PROVE j + 1 \in S
  <2> HIDE DEF g, Flat
  <2> SUFFICES ASSUME j + 1 <= n  PROVE Flat(j + 1)  OBVIOUS
  <2>1. Flat(j) /\ j \in 0 .. n - 1 /\ j + 1 \in 1 .. n  BY <1>2
  <2> USE DEF g
  <2>2. g(j) \in Seq(Seq(T)) /\ g(j + 1) = Append(g(j), f[j + 1])  BY <2>1, OneMore
  <2> DEFINE F == FlattenSeq(g(j))
             s == f[j + 1]
  <2>3. s \in Seq(T) /\ Len(s) = m  BY <2>1
  <2>4. F \in Seq(T) /\ Len(F) = j * m
        /\ \A b \in 1 .. j, k \in 1 .. m : F[(b - 1) * m + k] = f[b][k]
    <3> HIDE DEF g
    <3> QED  BY <2>1 DEF Flat
  <2>5. FlattenSeq(g(j + 1)) = F \o s
    <3> HIDE DEF g
    <3> QED  BY <2>2, <2>3, FlattenAppend
  <2> HIDE DEF F, s, g
  <2>6. /\ F \o s \in Seq(T) /\ Len(F \o s) = j * m + m
        /\ \A i \in 1 .. j * m : (F \o s)[i] = F[i]
        /\ \A i \in 1 .. m : (F \o s)[j * m + i] = s[i]
    <3>1. F \in Seq(T) /\ s \in Seq(T)  BY <2>3, <2>4
    <3>2. /\ F \o s \in Seq(T) /\ Len(F \o s) = Len(F) + Len(s)
          /\ \A i \in 1 .. Len(F) : (F \o s)[i] = F[i]
          /\ \A i \in 1 .. Len(s) : (F \o s)[Len(F) + i] = s[i]
      BY ONLY <3>1, Together
    <3>3. Len(F) = j * m /\ Len(s) = m  BY <2>3, <2>4
    <3> QED  BY <3>2, <3>3
  <2>7. (j + 1) * m = j * m + m  OBVIOUS
  <2>8. ASSUME NEW b \in 1 .. j + 1, NEW k \in 1 .. m
        PROVE  (F \o s)[(b - 1) * m + k] = f[b][k]
    <3>1. CASE b = j + 1
      <4>1. b - 1 = j  BY <3>1
      <4>2. (F \o s)[(b - 1) * m + k] = s[k]  BY <2>6, <4>1
      <4> QED  BY <3>1, <4>2 DEF s
    <3>2. CASE b \in 1 .. j
      <4>1. (b - 1) * m + m <= j * m /\ (b - 1) * m \in Nat  BY <3>2
      <4>2. (b - 1) * m + k \in 1 .. j * m  BY <4>1
      <4> QED  BY <2>4, <2>6, <3>2, <4>2
    <3>3. j \in Nat /\ b \in 1 .. j + 1 => b = j + 1 \/ b \in 1 .. j  OBVIOUS
    <3> QED  BY <3>1, <3>2, <3>3
  <2> QED  BY <2>5, <2>6, <2>7, <2>8 DEF Flat
<1>3. n \in S
  <2> HIDE DEF S
  <2> QED  BY <1>1, <1>2, InductiveSet
<1>4. g(n) = f  OBVIOUS
<1> HIDE DEF g
<1>5. Flat(n)
  <2> HIDE DEF Flat
  <2> QED  BY <1>3
<1> QED  BY <1>4, <1>5 DEF EachInPlace

\* A part of a sequence.
LEMMA PartOf ==
    ASSUME NEW T, NEW s \in Seq(T), NEW a \in Nat, NEW b \in a .. Len(s)
    PROVE  /\ SubSeq(s, a + 1, b) \in Seq(T) /\ Len(SubSeq(s, a + 1, b)) = b - a
           /\ \A i \in 1 .. b - a : SubSeq(s, a + 1, b)[i] = s[a + i]
<1> DEFINE x == SubSeq(s, a + 1, b)
<1>1. /\ b \in Nat /\ a <= b /\ b <= Len(s) /\ Len(s) \in Nat
      /\ \A i \in 1 .. Len(s) : s[i] \in T
  OBVIOUS
<1>2. (\A i \in a + 1 .. b : s[i] \in T) /\ a + 1 \in Int /\ b \in Int  BY <1>1
<1>3. /\ x \in Seq(T) /\ Len(x) = IF a + 1 <= b THEN b - (a + 1) + 1 ELSE 0
      /\ \A i \in 1 .. b - (a + 1) + 1 : x[i] = s[a + 1 + i - 1]
  BY ONLY <1>2, SubSeqProperties
<1> HIDE DEF x
<1>4. Len(x) = b - a  BY <1>1, <1>3
<1>5. \A i \in 1 .. b - a : x[i] = s[a + i]
  <2> SUFFICES ASSUME NEW i \in 1 .. b - a  PROVE x[i] = s[a + i]  OBVIOUS
  <2>1. i \in 1 .. b - (a + 1) + 1 /\ a + 1 + i - 1 = a + i  BY <1>1
  <2> QED  BY <1>3, <2>1
<1> QED  BY <1>3, <1>4, <1>5 DEF x

\* All of a sequence is a part of it.
LEMMA WholePart == ASSUME NEW T, NEW s \in Seq(T)  PROVE SubSeq(s, 0 + 1, Len(s)) = s
<1>1. 0 \in Nat /\ Len(s) \in 0 .. Len(s) /\ Len(s) \in Nat  OBVIOUS
<1> DEFINE x == SubSeq(s, 0 + 1, Len(s))
<1>2. x \in Seq(T) /\ Len(x) = Len(s) - 0 /\ \A i \in 1 .. Len(s) - 0 : x[i] = s[0 + i]
  BY ONLY s \in Seq(T), <1>1, PartOf
<1> HIDE DEF x
<1>3. Len(x) = Len(s) /\ \A i \in 1 .. Len(s) : x[i] = s[i]
  <2>1. Len(s) - 0 = Len(s)  BY <1>1
  <2>2. ASSUME NEW i \in 1 .. Len(s)  PROVE x[i] = s[i]
    <3>1. 0 + i = i  BY <1>1
    <3> QED  BY <1>2, <2>1, <3>1
  <2> QED  BY <1>2, <2>1, <2>2
<1>4. x = s  BY <1>2, <1>3, SeqEqual
<1> QED  BY <1>4 DEF x

\* Two parts of a sequence that meet.
LEMMA PartsMeet ==
    ASSUME NEW T, NEW s \in Seq(T), NEW a \in Nat, NEW b \in a .. Len(s), NEW c \in b .. Len(s)
    PROVE  SubSeq(s, a + 1, b) \o SubSeq(s, b + 1, c) = SubSeq(s, a + 1, c)
<1> DEFINE x == SubSeq(s, a + 1, b)
           y == SubSeq(s, b + 1, c)
           z == SubSeq(s, a + 1, c)
<1>1. /\ a \in Nat /\ b \in Nat /\ c \in Nat /\ a <= b /\ b <= c /\ c <= Len(s) /\ Len(s) \in Nat
      /\ c \in a .. Len(s)
  OBVIOUS
<1>2. x \in Seq(T) /\ Len(x) = b - a /\ \A i \in 1 .. b - a : x[i] = s[a + i]  BY PartOf
<1>3. y \in Seq(T) /\ Len(y) = c - b /\ \A i \in 1 .. c - b : y[i] = s[b + i]
  BY <1>1, PartOf
<1>4. z \in Seq(T) /\ Len(z) = c - a /\ \A i \in 1 .. c - a : z[i] = s[a + i]
  BY <1>1, PartOf
<1> HIDE DEF x, y, z
<1>5. /\ x \o y \in Seq(T) /\ Len(x \o y) = Len(x) + Len(y)
      /\ \A i \in 1 .. Len(x) : (x \o y)[i] = x[i]
      /\ \A i \in 1 .. Len(y) : (x \o y)[Len(x) + i] = y[i]
  <2>1. x \in Seq(T) /\ y \in Seq(T)  BY <1>2, <1>3
  <2> QED  BY ONLY <2>1, Together
<1>6. ASSUME NEW i \in 1 .. c - a  PROVE (x \o y)[i] = z[i]
  <2>1. CASE i <= b - a
    <3>1. i \in 1 .. b - a  BY <1>1, <2>1
    <3> QED  BY <1>2, <1>4, <1>5, <3>1
  <2>2. CASE ~(i <= b - a)
    <3>1. /\ i - (b - a) \in 1 .. c - b /\ (b - a) + (i - (b - a)) = i
          /\ b + (i - (b - a)) = a + i
      BY <1>1, <2>2
    <3>2. (x \o y)[(b - a) + (i - (b - a))] = y[i - (b - a)]  BY <1>2, <1>3, <1>5, <3>1
    <3>3. y[i - (b - a)] = s[a + i]  BY <1>3, <3>1
    <3> QED  BY <1>4, <3>1, <3>2, <3>3
  <2> QED  BY <2>1, <2>2
<1>7. Len(x \o y) = Len(z)  BY <1>1, <1>2, <1>3, <1>4, <1>5
<1>8. x \o y = z  BY <1>4, <1>5, <1>6, <1>7, SeqEqual
<1> QED  BY <1>8 DEF x, y, z
=============================================================================
