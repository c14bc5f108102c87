--------------------------- MODULE SequenceLemmas ---------------------------
(***************************************************************************)
(* What the operators of the community modules on sequences and finite     *)
(* sets do to the elements of their arguments: facts the proofs about the  *)
(* components share.                                                       *)
(***************************************************************************)
EXTENDS SequencesExt, SequenceTheorems, FiniteSetTheorems, NaturalsInduction, TLAPS

-----------------------------------------------------------------------------
(* The elements of a sequence.                                             *)

\* An element of a sequence has a place in it.
LEMMA ToSetPlace ==
  ASSUME NEW S, NEW s \in Seq(S)
  PROVE  \A x : x \in ToSet(s) <=> \E i \in 1 .. Len(s) : s[i] = x
BY LenProperties DEF ToSet

\* The empty sequence has none.
LEMMA ToSetEmpty == ToSet(<<>>) = {} /\ IsInjective(<<>>)
BY DEF ToSet, IsInjective

\* The elements are in the set the sequence is over.
LEMMA ToSetType ==
  ASSUME NEW S, NEW s \in Seq(S)
  PROVE  ToSet(s) \subseteq S
BY DEF ToSet

\* Append adds its element.
LEMMA ToSetAppends ==
  ASSUME NEW S, NEW s \in Seq(S), NEW x \in S
  PROVE  ToSet(Append(s, x)) = ToSet(s) \cup {x}
<1>1. /\ Append(s, x) \in Seq(S) /\ Len(Append(s, x)) = Len(s) + 1 /\ Len(s) \in Nat
      /\ \A i \in 1 .. Len(s) : Append(s, x)[i] = s[i]
      /\ Append(s, x)[Len(s) + 1] = x
  BY AppendProperties
<1>2. \A i : i \in 1 .. Len(s) + 1 <=> i \in 1 .. Len(s) \/ i = Len(s) + 1
  BY <1>1
<1>3. \A y : y \in ToSet(Append(s, x)) <=> \E i \in 1 .. Len(s) + 1 : Append(s, x)[i] = y
  <2>1. \A y : y \in ToSet(Append(s, x)) <=> \E i \in 1 .. Len(Append(s, x)) : Append(s, x)[i] = y
    BY <1>1, ToSetPlace
  <2> QED BY <1>1, <2>1
<1>4. \A y : y \in ToSet(s) <=> \E i \in 1 .. Len(s) : s[i] = y
  BY ToSetPlace
<1>5. \A y : y \in ToSet(Append(s, x)) <=> y \in ToSet(s) \/ y = x
  BY <1>1, <1>2, <1>3, <1>4
<1> QED BY <1>5

\* Appending an element a sequence without repetitions lacks leaves it without them.
LEMMA AppendInjects ==
  ASSUME NEW S, NEW s \in Seq(S), NEW x \in S, IsInjective(s), x \notin ToSet(s)
  PROVE  IsInjective(Append(s, x))
<1>1. /\ Append(s, x) \in Seq(S) /\ Len(Append(s, x)) = Len(s) + 1 /\ Len(s) \in Nat
      /\ \A i \in 1 .. Len(s) : Append(s, x)[i] = s[i]
      /\ Append(s, x)[Len(s) + 1] = x
  BY AppendProperties
<1>2. \A i \in 1 .. Len(s) : s[i] # x
  BY ToSetPlace
<1>3. \A i, j \in 1 .. Len(s) : s[i] = s[j] => i = j
  BY LenProperties DEF IsInjective
<1>4. \A i, j \in 1 .. Len(s) + 1 : Append(s, x)[i] = Append(s, x)[j] => i = j
  <2>1. \A i \in 1 .. Len(s) + 1 : i \in 1 .. Len(s) \/ i = Len(s) + 1
    BY <1>1
  <2> QED BY <1>1, <1>2, <1>3, <2>1
<1> QED BY <1>1, <1>4, LenProperties DEF IsInjective

\* A concatenation has the elements of both.
LEMMA ToSetConcatenates ==
  ASSUME NEW S, NEW s \in Seq(S), NEW t \in Seq(S)
  PROVE  ToSet(s \o t) = ToSet(s) \cup ToSet(t)
<1>1. /\ s \o t \in Seq(S) /\ Len(s \o t) = Len(s) + Len(t) /\ Len(s) \in Nat /\ Len(t) \in Nat
      /\ \A i \in 1 .. Len(s) + Len(t) : (s \o t)[i] = IF i <= Len(s) THEN s[i] ELSE t[i - Len(s)]
  BY ConcatProperties
<1>2. \A y : y \in ToSet(s \o t) <=> \E i \in 1 .. Len(s) + Len(t) : (s \o t)[i] = y
  <2>1. \A y : y \in ToSet(s \o t) <=> \E i \in 1 .. Len(s \o t) : (s \o t)[i] = y
    BY <1>1, ToSetPlace
  <2> QED BY <1>1, <2>1
<1>3. \A y : y \in ToSet(s) <=> \E i \in 1 .. Len(s) : s[i] = y
  BY ToSetPlace
<1>4. \A y : y \in ToSet(t) <=> \E i \in 1 .. Len(t) : t[i] = y
  BY ToSetPlace
<1>5. ASSUME NEW y, y \in ToSet(s \o t) PROVE y \in ToSet(s) \/ y \in ToSet(t)
  <2>1. PICK i \in 1 .. Len(s) + Len(t) : (s \o t)[i] = y
    BY <1>2, <1>5
  <2>2. CASE i <= Len(s)
    BY <1>1, <1>3, <2>1, <2>2
  <2>3. CASE i > Len(s)
    <3>1. i - Len(s) \in 1 .. Len(t) /\ t[i - Len(s)] = y
      BY <1>1, <2>1, <2>3
    <3> QED BY <1>4, <3>1
  <2> QED BY <1>1, <2>2, <2>3
<1>6. ASSUME NEW y, y \in ToSet(s) PROVE y \in ToSet(s \o t)
  <2>1. PICK i \in 1 .. Len(s) : s[i] = y
    BY <1>3, <1>6
  <2>2. i \in 1 .. Len(s) + Len(t) /\ (s \o t)[i] = y
    BY <1>1, <2>1
  <2> QED BY <1>2, <2>2
<1>7. ASSUME NEW y, y \in ToSet(t) PROVE y \in ToSet(s \o t)
  <2>1. PICK i \in 1 .. Len(t) : t[i] = y
    BY <1>4, <1>7
  <2>2. Len(s) + i \in 1 .. Len(s) + Len(t) /\ (s \o t)[Len(s) + i] = t[Len(s) + i - Len(s)]
        /\ Len(s) + i - Len(s) = i
    BY <1>1
  <2> QED BY <1>2, <2>1, <2>2
<1> QED BY <1>5, <1>6, <1>7

\* What is left after the element at place k has been removed.
LEMMA RemoveAtPlaces ==
  ASSUME NEW S, NEW s \in Seq(S), NEW k \in 1 .. Len(s)
  PROVE  /\ RemoveAt(s, k) \in Seq(S)
         /\ Len(RemoveAt(s, k)) = Len(s) - 1
         /\ \A i \in 1 .. Len(s) - 1 : RemoveAt(s, k)[i] = IF i < k THEN s[i] ELSE s[i + 1]
<1> DEFINE a == SubSeq(s, 1, k - 1)
           b == SubSeq(s, k + 1, Len(s))
<1>1. Len(s) \in Nat /\ \A i \in 1 .. Len(s) : s[i] \in S
  BY LenProperties
<1>2. /\ a \in Seq(S) /\ Len(a) = k - 1
      /\ \A i \in 1 .. k - 1 : a[i] = s[i]
  <2>1. 1 \in Int /\ k - 1 \in Int /\ \A i \in 1 .. k - 1 : s[i] \in S
    BY <1>1
  <2>2. /\ a \in Seq(S) /\ Len(a) = IF 1 <= k - 1 THEN k - 1 - 1 + 1 ELSE 0
        /\ \A i \in 1 .. k - 1 - 1 + 1 : a[i] = s[1 + i - 1]
    BY <2>1, SubSeqProperties
  <2> QED BY <2>2, <1>1
<1>3. /\ b \in Seq(S) /\ Len(b) = Len(s) - k
      /\ \A i \in 1 .. Len(s) - k : b[i] = s[k + i]
  <2>1. k + 1 \in Int /\ Len(s) \in Int /\ \A i \in k + 1 .. Len(s) : s[i] \in S
    BY <1>1
  <2>2. /\ b \in Seq(S) /\ Len(b) = IF k + 1 <= Len(s) THEN Len(s) - (k + 1) + 1 ELSE 0
        /\ \A i \in 1 .. Len(s) - (k + 1) + 1 : b[i] = s[k + 1 + i - 1]
    BY <2>1, SubSeqProperties
  <2> QED BY <2>2, <1>1
<1> HIDE DEF a, b
<1>4. /\ a \o b \in Seq(S) /\ Len(a \o b) = Len(a) + Len(b)
      /\ \A i \in 1 .. Len(a) + Len(b) : (a \o b)[i] = IF i <= Len(a) THEN a[i] ELSE b[i - Len(a)]
  BY <1>2, <1>3, ConcatProperties
<1>5. \A i \in 1 .. Len(s) - 1 : (a \o b)[i] = IF i < k THEN s[i] ELSE s[i + 1]
  <2> TAKE i \in 1 .. Len(s) - 1
  <2>1. CASE i < k
    BY <1>1, <1>2, <1>3, <1>4, <2>1
  <2>2. CASE i >= k
    <3>1. (a \o b)[i] = b[i - (k - 1)] /\ i - (k - 1) \in 1 .. Len(s) - k
      BY <1>1, <1>2, <1>3, <1>4, <2>2
    <3>2. b[i - (k - 1)] = s[k + (i - (k - 1))] /\ k + (i - (k - 1)) = i + 1
      BY <1>1, <1>3, <3>1
    <3> QED BY <1>1, <2>2, <3>1, <3>2
  <2>3. i < k \/ i >= k
    OBVIOUS
  <2> QED BY <2>1, <2>2, <2>3
<1>6. Len(a \o b) = Len(s) - 1
  BY <1>1, <1>2, <1>3, <1>4
<1>7. RemoveAt(s, k) = a \o b
  BY DEF RemoveAt, a, b
<1> QED BY <1>4, <1>5, <1>6, <1>7

\* It has no other elements, none more than once if none was, and then all but that one.
LEMMA RemoveAtElements ==
  ASSUME NEW S, NEW s \in Seq(S), NEW k \in 1 .. Len(s)
  PROVE  /\ ToSet(RemoveAt(s, k)) \subseteq ToSet(s)
         /\ IsInjective(s) => /\ IsInjective(RemoveAt(s, k))
                              /\ ToSet(RemoveAt(s, k)) = ToSet(s) \ {s[k]}
<1> DEFINE t == RemoveAt(s, k)
<1>1. /\ Len(s) \in Nat /\ t \in Seq(S) /\ Len(t) = Len(s) - 1
      /\ \A i \in 1 .. Len(s) - 1 : t[i] = IF i < k THEN s[i] ELSE s[i + 1]
  BY RemoveAtPlaces, LenProperties
<1> HIDE DEF t
<1>2. \A x : x \in ToSet(s) <=> \E i \in 1 .. Len(s) : s[i] = x
  BY ToSetPlace
<1>3. \A x : x \in ToSet(t) <=> \E i \in 1 .. Len(s) - 1 : t[i] = x
  BY <1>1, ToSetPlace
<1>4. \A i \in 1 .. Len(s) - 1 : \E j \in 1 .. Len(s) : j # k /\ t[i] = s[j] /\ j = IF i < k THEN i ELSE i + 1
  BY <1>1
<1>5. ToSet(t) \subseteq ToSet(s)
  BY <1>2, <1>3, <1>4
<1>6. ASSUME IsInjective(s) PROVE IsInjective(t) /\ ToSet(t) = ToSet(s) \ {s[k]}
  <2>1. \A i, j \in 1 .. Len(s) : s[i] = s[j] => i = j
    BY <1>6, LenProperties DEF IsInjective
  <2>2. \A i, j \in 1 .. Len(s) - 1 : t[i] = t[j] => i = j
    <3> SUFFICES ASSUME NEW i \in 1 .. Len(s) - 1, NEW j \in 1 .. Len(s) - 1, t[i] = t[j] PROVE i = j
      OBVIOUS
    <3>1. (IF i < k THEN i ELSE i + 1) = (IF j < k THEN j ELSE j + 1)
      BY <1>1, <2>1, <1>4
    <3> QED BY <3>1
  <2>3. IsInjective(t)
    BY <1>1, <2>2, LenProperties DEF IsInjective
  <2>4. s[k] \notin ToSet(t)
    BY <1>3, <1>4, <2>1
  <2>5. ASSUME NEW j \in 1 .. Len(s), j # k PROVE s[j] \in ToSet(t)
    <3>1. CASE j < k
      BY <1>1, <1>3, <3>1
    <3>2. CASE j > k
      <4>1. j - 1 \in 1 .. Len(s) - 1 /\ ~(j - 1 < k) /\ j - 1 + 1 = j
        BY <1>1, <3>2
      <4>2. t[j - 1] = s[j - 1 + 1]
        BY <1>1, <4>1
      <4> QED BY <1>3, <4>1, <4>2
    <3> QED BY <2>5, <3>1, <3>2
  <2> QED BY <1>2, <1>5, <2>3, <2>4, <2>5
<1> QED BY <1>5, <1>6 DEF t

\* Tail is what is left without the first element.
LEMMA TailElements ==
  ASSUME NEW S, NEW s \in Seq(S), s # <<>>
  PROVE  /\ Tail(s) \in Seq(S) /\ Len(Tail(s)) = Len(s) - 1
         /\ Head(s) = s[1] /\ Head(s) \in ToSet(s)
         /\ ToSet(Tail(s)) \subseteq ToSet(s)
         /\ IsInjective(s) => /\ IsInjective(Tail(s))
                              /\ ToSet(Tail(s)) = ToSet(s) \ {Head(s)}
<1>1. /\ Len(s) \in Nat \ {0} /\ Tail(s) \in Seq(S) /\ Len(Tail(s)) = Len(s) - 1
      /\ \A i \in 1 .. Len(Tail(s)) : Tail(s)[i] = s[i + 1]
      /\ Head(s) = s[1]
  BY EmptySeq, HeadTailProperties, LenProperties
<1>2. /\ RemoveAt(s, 1) \in Seq(S) /\ Len(RemoveAt(s, 1)) = Len(s) - 1
      /\ \A i \in 1 .. Len(s) - 1 : RemoveAt(s, 1)[i] = IF i < 1 THEN s[i] ELSE s[i + 1]
  <2>1. 1 \in 1 .. Len(s)
    BY <1>1
  <2> QED BY <2>1, RemoveAtPlaces
<1>3. Tail(s) = RemoveAt(s, 1)
  <2>1. \A i \in 1 .. Len(Tail(s)) : Tail(s)[i] = RemoveAt(s, 1)[i]
    BY <1>1, <1>2
  <2> QED BY <1>1, <1>2, <2>1, SeqEqual
<1>4. 1 \in 1 .. Len(s)
  BY <1>1
<1>5. /\ ToSet(RemoveAt(s, 1)) \subseteq ToSet(s)
      /\ IsInjective(s) => /\ IsInjective(RemoveAt(s, 1))
                           /\ ToSet(RemoveAt(s, 1)) = ToSet(s) \ {s[1]}
  BY <1>4, RemoveAtElements
<1>6. s[1] \in ToSet(s)
  BY <1>4, ToSetPlace
<1> QED BY <1>1, <1>3, <1>5, <1>6

\* Front is what is left without the last one.
LEMMA FrontElements ==
  ASSUME NEW S, NEW s \in Seq(S), s # <<>>
  PROVE  /\ Front(s) \in Seq(S) /\ Len(Front(s)) = Len(s) - 1
         /\ \A i \in 1 .. Len(s) - 1 : Front(s)[i] = s[i]
         /\ ToSet(Front(s)) \subseteq ToSet(s)
<1>1. Len(s) \in Nat \ {0} /\ \A i \in 1 .. Len(s) - 1 : s[i] \in S
  BY EmptySeq, LenProperties
<1>2. /\ Front(s) \in Seq(S)
      /\ Len(Front(s)) = IF 1 <= Len(s) - 1 THEN Len(s) - 1 - 1 + 1 ELSE 0
      /\ \A i \in 1 .. Len(s) - 1 - 1 + 1 : Front(s)[i] = s[1 + i - 1]
  <2>1. 1 \in Int /\ Len(s) - 1 \in Int
    BY <1>1
  <2> QED BY <1>1, <2>1, SubSeqProperties DEF Front
<1>3. Len(Front(s)) = Len(s) - 1 /\ \A i \in 1 .. Len(s) - 1 : Front(s)[i] = s[i]
  <2>1. \A i \in 1 .. Len(s) - 1 : i \in 1 .. Len(s) - 1 - 1 + 1 /\ 1 + i - 1 = i
    BY <1>1
  <2>2. Len(Front(s)) = Len(s) - 1
    <3>1. Len(Front(s)) = IF 1 <= Len(s) - 1 THEN Len(s) - 1 - 1 + 1 ELSE 0
      BY <1>2
    <3>2. ASSUME NEW n \in Nat \ {0}
          PROVE  (IF 1 <= n - 1 THEN n - 1 - 1 + 1 ELSE 0) = n - 1
      OBVIOUS
    <3> QED BY <1>1, <3>1, <3>2
  <2> QED BY <1>2, <2>1, <2>2
<1>4. \A x : x \in ToSet(Front(s)) <=> \E i \in 1 .. Len(s) - 1 : Front(s)[i] = x
  BY <1>2, <1>3, ToSetPlace
<1>5. \A x : x \in ToSet(s) <=> \E i \in 1 .. Len(s) : s[i] = x
  BY ToSetPlace
<1> QED BY <1>1, <1>2, <1>3, <1>4, <1>5

\* RemoveFirst of an element that a sequence has once.
LEMMA RemoveFirstElements ==
  ASSUME NEW S, NEW s \in Seq(S), IsInjective(s), NEW x \in ToSet(s)
  PROVE  /\ RemoveFirst(s, x) \in Seq(S) /\ Len(RemoveFirst(s, x)) = Len(s) - 1
         /\ IsInjective(RemoveFirst(s, x))
         /\ ToSet(RemoveFirst(s, x)) = ToSet(s) \ {x}
<1>1. PICK k \in 1 .. Len(s) : s[k] = x
  BY ToSetPlace
<1>2. {i \in 1 .. Len(s) : s[i] = x} = {k}
  BY <1>1, LenProperties DEF IsInjective
<1>3. Min({k}) = k
  BY <1>1 DEF Min
<1>4. SelectInSeq(s, LAMBDA v : v = x) = k
  BY <1>2, <1>3 DEF SelectInSeq
<1>5. RemoveFirst(s, x) = RemoveAt(s, k)
  BY <1>1, <1>4 DEF RemoveFirst
<1>6. RemoveAt(s, k) \in Seq(S) /\ Len(RemoveAt(s, k)) = Len(s) - 1
  BY RemoveAtPlaces
<1>7. IsInjective(RemoveAt(s, k)) /\ ToSet(RemoveAt(s, k)) = ToSet(s) \ {s[k]}
  BY RemoveAtElements
<1> QED BY <1>1, <1>5, <1>6, <1>7

-----------------------------------------------------------------------------
(* Extrema of sets of naturals.                                            *)

\* A set of naturals that has an element has a least one.
LEMMA LeastNatural ==
  ASSUME NEW S \in SUBSET Nat, S # {}
  PROVE  \E m \in S : \A y \in S : m <= y
<1>1. PICK m \in S : \A y \in S : ~(<<y, m>> \in OpToRel(<, Nat))
  BY NatLessThanWellFounded, WFMin
<1>2. \A y \in S : ~(y < m)
  BY <1>1 DEF OpToRel
<1> QED BY <1>2

\* And a bounded one has a greatest, which Max returns.
LEMMA MaxOfBounded ==
  ASSUME NEW S \in SUBSET Nat, S # {}, NEW n \in Nat, \A x \in S : x <= n
  PROVE  Max(S) \in S /\ \A y \in S : Max(S) >= y
<1> DEFINE D == {n - x : x \in S}
<1>1. D \in SUBSET Nat /\ D # {}
  <2>1. \A x \in S : n - x \in Nat /\ n - x \in D
    OBVIOUS
  <2>2. PICK x : x \in S
    OBVIOUS
  <2>3. \A e \in D : e \in Nat
    BY <2>1
  <2>4. n - x \in D
    BY <2>1, <2>2
  <2> QED BY <2>3, <2>4
<1>2. PICK d \in D : \A e \in D : d <= e
  <2> HIDE DEF D
  <2> QED BY <1>1, LeastNatural
<1>3. PICK m \in S : d = n - m
  OBVIOUS
<1>4. \A y \in S : m >= y
  BY <1>2, <1>3
<1> QED BY <1>4, Zenon DEF Max
-----------------------------------------------------------------------------
(* The elements of a finite set of naturals in order.                      *)

\* For each number below the cardinality there is an element with so many greater ones: these
\* numbers are different for different elements.
LEMMA RankFromTop ==
  ASSUME NEW S \in SUBSET Nat, IsFiniteSet(S)
  PROVE  \A k \in 1 .. Cardinality(S) : \E i \in S : Cardinality({j \in S : j > i}) = k - 1
<1> DEFINE n == Cardinality(S)
           newer == [i \in S |-> Cardinality({j \in S : j > i})]
<1>1. n \in Nat
  BY FS_CardinalityType
<1>2. ASSUME NEW i \in S
      PROVE  /\ IsFiniteSet({j \in S : j > i})
             /\ Cardinality({j \in S : j > i}) \in Nat /\ Cardinality({j \in S : j > i}) <= n - 1
  <2> DEFINE A == {j \in S : j > i}
  <2>1. A \in SUBSET (S \ {i})
    <3>1. \A j \in A : j \in S /\ j > i /\ j \in Nat /\ i \in Nat
      OBVIOUS
    <3>2. \A j \in A : j # i
      BY <3>1
    <3> QED BY <3>1, <3>2
  <2>2. IsFiniteSet(S \ {i}) /\ Cardinality(S \ {i}) = n - 1
    BY FS_RemoveElement
  <2> HIDE DEF A, n
  <2>3. IsFiniteSet(A) /\ Cardinality(A) <= n - 1 /\ Cardinality(A) \in Nat
    BY <2>1, <2>2, FS_Subset, FS_CardinalityType
  <2> QED BY <2>3 DEF A
<1>3. ASSUME NEW i \in S, NEW k \in S, i < k
      PROVE  Cardinality({j \in S : j > k}) < Cardinality({j \in S : j > i})
  <2> DEFINE A == {j \in S : j > i}
             B == {j \in S : j > k}
  <2>1. k \in A /\ k \notin B /\ IsFiniteSet(A) /\ IsFiniteSet(B)
    BY <1>2, <1>3
  <2>2. B \in SUBSET (A \ {k})
    <3>1. i \in Nat /\ k \in Nat /\ \A j \in B : j \in S /\ j > k /\ j \in Nat
      OBVIOUS
    <3>2. \A j \in B : j > i /\ j # k
      BY <1>3, <3>1
    <3> QED BY <3>1, <3>2
  <2> HIDE DEF A, B
  <2>3. /\ IsFiniteSet(A \ {k}) /\ Cardinality(A \ {k}) = Cardinality(A) - 1
    BY <2>1, FS_RemoveElement
  <2>4. /\ Cardinality(B) <= Cardinality(A \ {k})
        /\ Cardinality(A) \in Nat /\ Cardinality(B) \in Nat
    BY <2>1, <2>2, <2>3, FS_Subset, FS_CardinalityType
  <2>5. Cardinality(B) < Cardinality(A)
    BY <2>3, <2>4
  <2> QED BY <2>5 DEF A, B
<1>4. newer \in Injection(S, 0 .. n - 1)
  <2>1. newer \in [S -> 0 .. n - 1]
    BY <1>1, <1>2
  <2>2. ASSUME NEW i \in S, NEW k \in S, newer[i] = newer[k]
        PROVE  i = k
    <3>1. newer[i] \in Nat /\ newer[k] \in Nat /\ i \in Nat /\ k \in Nat
      BY <1>2
    <3>2. ~(i < k) /\ ~(k < i)
      BY <1>3, <2>2, <3>1
    <3> QED BY <3>1, <3>2
  <2> HIDE DEF newer
  <2> QED BY <2>1, <2>2 DEF Injection, IsInjective
<1>5. newer \in Surjection(S, 0 .. n - 1)
  <2>1. IsFiniteSet(0 .. n - 1) /\ Cardinality(0 .. n - 1) = n
    <3>1. 0 \in Int /\ n - 1 \in Int
      BY <1>1
    <3> HIDE DEF n
    <3>2. /\ IsFiniteSet(0 .. n - 1)
          /\ Cardinality(0 .. n - 1) = IF 0 > n - 1 THEN 0 ELSE n - 1 - 0 + 1
      BY <3>1, FS_Interval
    <3> QED BY <1>1, <3>2
  <2> HIDE DEF newer
  <2> QED BY <1>4, <2>1, FS_Injection
<1>6. ASSUME NEW k \in 1 .. n PROVE \E i \in S : Cardinality({j \in S : j > i}) = k - 1
  <2>1. k - 1 \in 0 .. n - 1
    BY <1>1
  <2>2. PICK i \in S : newer[i] = k - 1
    <3> HIDE DEF newer
    <3> QED BY <1>5, <2>1 DEF Surjection
  <2> QED BY <2>2
<1> QED BY <1>6

\* And one with so many less ones.
LEMMA RankFromBottom ==
  ASSUME NEW S \in SUBSET Nat, IsFiniteSet(S)
  PROVE  \A k \in 1 .. Cardinality(S) : \E i \in S : Cardinality({j \in S : j < i}) = k - 1
<1> SUFFICES ASSUME NEW k \in 1 .. Cardinality(S)
             PROVE  \E i \in S : Cardinality({j \in S : j < i}) = k - 1
  OBVIOUS
<1>1. Cardinality(S) \in Nat
  BY FS_CardinalityType
<1> DEFINE m == Cardinality(S) + 1 - k
<1>2. m \in 1 .. Cardinality(S)
  BY <1>1
<1>3. PICK i \in S : Cardinality({j \in S : j > i}) = m - 1
  <2> HIDE DEF m
  <2> QED BY <1>2, RankFromTop
<1> DEFINE A == {j \in S : j > i}
           B == {j \in S : j < i}
<1>4. A \in SUBSET S /\ i \in S \ A /\ B = (S \ A) \ {i}
  <2>1. \A j \in S : j \in Nat /\ i \in Nat
    OBVIOUS
  <2>2. \A j \in S : j < i <=> ~(j > i) /\ j # i
    BY <2>1
  <2> QED BY <2>1, <2>2
<1> HIDE DEF A, B
<1>5. /\ IsFiniteSet(S \ A) /\ S \cap A = A
      /\ Cardinality(S \ A) = Cardinality(S) - Cardinality(S \cap A)
  BY <1>4, FS_Difference
<1>6. Cardinality(B) = Cardinality(S \ A) - 1
  BY <1>4, <1>5, FS_RemoveElement
<1>7. Cardinality(A) = m - 1
  BY <1>3 DEF A
<1>8. Cardinality(B) = k - 1
  BY <1>1, <1>5, <1>6, <1>7
<1> QED BY <1>8 DEF B

=============================================================================
