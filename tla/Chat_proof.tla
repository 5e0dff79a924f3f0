----------------------------- MODULE Chat_proof -----------------------------
(***************************************************************************)
(* Proofs about Chat, for every number of requests, limit and corpus: the  *)
(* lists the operators of Guidance make, the questions of the day, the     *)
(* sources of an answer and the pins.                                      *)
(***************************************************************************)
EXTENDS Chat, FiniteSetTheorems, SequenceTheorems, FunctionTheorems,
        NaturalsInduction, WellFoundedInduction, TLAPS

-----------------------------------------------------------------------------
(* Positions in order.                                                     *)

\* before is a strict order that compares any two elements of I.
StrictOrder(I, before) ==
  /\ \A i \in I : <<i, i>> \notin before
  /\ \A i, j, k \in I : <<i, j>> \in before /\ <<j, k>> \in before => <<i, k>> \in before
  /\ \A i, j \in I : i = j \/ <<i, j>> \in before \/ <<j, i>> \in before

Below(I, before, i) == {j \in I : <<j, i>> \in before}

\* Every number below that of the elements is the rank of exactly one of them.
LEMMA Ranks ==
  ASSUME NEW I, IsFiniteSet(I), NEW before, StrictOrder(I, before)
  PROVE  /\ Cardinality(I) \in Nat
         /\ \A k \in 1 .. Cardinality(I) :
              \E i \in I : Cardinality(Below(I, before, i)) = k - 1
         /\ \A i \in I : Cardinality(Below(I, before, i)) + 1 \in 1 .. Cardinality(I)
         /\ \A i, j \in I : Cardinality(Below(I, before, i)) = Cardinality(Below(I, before, j)) => i = j
<1> DEFINE B(i) == Below(I, before, i)
           n == Cardinality(I)
<1>1. n \in Nat
  BY FS_CardinalityType
<1>2. \A i \in I : B(i) \in SUBSET I /\ i \notin B(i) /\ IsFiniteSet(B(i)) /\ Cardinality(B(i)) \in Nat
  <2> SUFFICES ASSUME NEW i \in I
               PROVE  B(i) \in SUBSET I /\ i \notin B(i) /\ IsFiniteSet(B(i)) /\ Cardinality(B(i)) \in Nat
    OBVIOUS
  <2>1. B(i) \in SUBSET I /\ i \notin B(i)
    BY DEF Below, StrictOrder
  <2>2. IsFiniteSet(B(i))
    BY <2>1, FS_Subset
  <2>3. QED
    BY <2>1, <2>2, FS_CardinalityType
<1>3. ASSUME NEW i \in I, NEW S \in SUBSET I, B(i) \cup {i} \subseteq S
      PROVE  Cardinality(B(i)) + 1 <= Cardinality(S)
  <2>1. IsFiniteSet(S)
    BY FS_Subset
  <2>2. Cardinality(B(i) \cup {i}) = Cardinality(B(i)) + 1
    BY <1>2, FS_AddElement
  <2>3. Cardinality(B(i) \cup {i}) <= Cardinality(S)
    BY <1>3, <2>1, FS_Subset
  <2>4. QED
    BY <2>2, <2>3
<1>4. \A i \in I : Cardinality(B(i)) + 1 \in 1 .. n
  <2> SUFFICES ASSUME NEW i \in I PROVE Cardinality(B(i)) + 1 \in 1 .. n
    OBVIOUS
  <2>1. Cardinality(B(i)) \in Nat /\ B(i) \cup {i} \subseteq I
    BY <1>2
  <2>2. Cardinality(B(i)) + 1 <= n
    BY <1>3, <2>1
  <2> HIDE DEF B, n
  <2>3. QED
    BY <1>1, <2>1, <2>2
<1>5. ASSUME NEW i \in I, NEW j \in I, <<i, j>> \in before
      PROVE  Cardinality(B(i)) + 1 <= Cardinality(B(j))
  <2>1. B(i) \cup {i} \subseteq B(j) /\ B(j) \in SUBSET I
    BY <1>5 DEF Below, StrictOrder
  <2>2. QED
    BY <1>3, <2>1
<1>6. ASSUME NEW i \in I, NEW j \in I, Cardinality(B(i)) = Cardinality(B(j))
      PROVE  i = j
  <2>1. Cardinality(B(i)) \in Nat /\ Cardinality(B(j)) \in Nat
    BY <1>2
  <2>2. <<i, j>> \notin before
    <3>1. SUFFICES ASSUME <<i, j>> \in before PROVE FALSE
      OBVIOUS
    <3>2. Cardinality(B(i)) + 1 <= Cardinality(B(j))
      BY <1>5, <3>1
    <3> HIDE DEF B
    <3>3. QED
      BY <1>6, <2>1, <3>2
  <2>3. <<j, i>> \notin before
    <3>1. SUFFICES ASSUME <<j, i>> \in before PROVE FALSE
      OBVIOUS
    <3>2. Cardinality(B(j)) + 1 <= Cardinality(B(i))
      BY <1>5, <3>1
    <3> HIDE DEF B
    <3>3. QED
      BY <1>6, <2>1, <3>2
  <2>4. QED
    BY <2>2, <2>3 DEF StrictOrder
<1> DEFINE f == [i \in I |-> Cardinality(B(i)) + 1]
<1>7. f \in [I -> 1 .. n]
  BY <1>4
<1>8. \A i, j \in I : f[i] = f[j] => i = j
  <2> SUFFICES ASSUME NEW i \in I, NEW j \in I, f[i] = f[j] PROVE i = j
    OBVIOUS
  <2>1. Cardinality(B(i)) + 1 = Cardinality(B(j)) + 1
    OBVIOUS
  <2>2. Cardinality(B(i)) \in Nat /\ Cardinality(B(j)) \in Nat
    BY <1>2
  <2> HIDE DEF B
  <2>3. Cardinality(B(i)) = Cardinality(B(j))
    BY <2>1, <2>2
  <2>4. QED
    BY <1>6, <2>3
<1>9. IsFiniteSet(1 .. n) /\ Cardinality(1 .. n) = n
  BY <1>1, FS_Interval
<1>10. ASSUME NEW k \in 1 .. n PROVE \E i \in I : f[i] = k
  <2> HIDE DEF f, n
  <2>1. f \in Injection(I, 1 .. n)
    BY <1>7, <1>8 DEF Injection, IsInjective
  <2>2. f \in Surjection(I, 1 .. n)
    BY <1>9, <2>1, FS_Injection DEF n
  <2>3. QED
    BY <2>2 DEF Surjection
<1>11. ASSUME NEW k \in 1 .. n PROVE \E i \in I : Cardinality(B(i)) = k - 1
  <2>1. PICK i \in I : f[i] = k
    BY <1>10
  <2>2. Cardinality(B(i)) \in Nat /\ Cardinality(B(i)) + 1 = k
    BY <1>2, <2>1
  <2> HIDE DEF B, f
  <2>3. QED
    BY <1>1, <2>2
<1>12. QED
  BY <1>1, <1>4, <1>6, <1>11

\* f numbers the elements of I.
Numbers(f, I) ==
  /\ f \in [1 .. Cardinality(I) -> I]
  /\ \A k, l \in 1 .. Cardinality(I) : f[k] = f[l] => k = l
  /\ \A i \in I : \E k \in 1 .. Cardinality(I) : f[k] = i

\* An order lists every element once.
LEMMA InOrderNumbers ==
  ASSUME NEW I, IsFiniteSet(I), NEW before, StrictOrder(I, before)
  PROVE  Numbers(InOrder(I, before), I)
<1> DEFINE R(i) == Cardinality(Below(I, before, i))
           n == Cardinality(I)
           f == InOrder(I, before)
<1>1. /\ n \in Nat
      /\ \A k \in 1 .. n : \E i \in I : R(i) = k - 1
      /\ \A i \in I : R(i) + 1 \in 1 .. n
      /\ \A i, j \in I : R(i) = R(j) => i = j
  BY Ranks
<1>2. \A i \in I : R(i) \in Nat
  <2> SUFFICES ASSUME NEW i \in I PROVE R(i) \in Nat
    OBVIOUS
  <2>1. IsFiniteSet(Below(I, before, i))
    BY FS_Subset DEF Below
  <2>2. QED
    BY <2>1, FS_CardinalityType
<1>3. f = [k \in 1 .. n |-> CHOOSE i \in I : R(i) = k - 1]
  BY DEF InOrder, Below
<1> HIDE DEF R, n, f
<1>4. \A k \in 1 .. n : f[k] \in I /\ R(f[k]) = k - 1
  BY <1>1, <1>3
<1>5. f \in [1 .. n -> I]
  BY <1>3, <1>4
<1>6. \A k, l \in 1 .. n : f[k] = f[l] => k = l
  BY <1>1, <1>4
<1>7. ASSUME NEW i \in I PROVE \E k \in 1 .. n : f[k] = i
  <2> DEFINE k == R(i) + 1
  <2>1. k \in 1 .. n /\ R(i) \in Nat
    BY <1>1, <1>2
  <2>2. f[k] \in I /\ R(f[k]) = k - 1
    BY <1>4, <2>1
  <2>3. R(f[k]) = R(i)
    BY <2>1, <2>2
  <2>4. f[k] = i
    BY <1>1, <2>2, <2>3
  <2>5. QED
    BY <2>1, <2>4
<1>8. QED
  BY <1>5, <1>6, <1>7 DEF Numbers, f, n

\* So do numbers, ascending.
LEMMA AscendingNumbers ==
  ASSUME NEW I \in SUBSET Int, IsFiniteSet(I)
  PROVE  Numbers(Ascending(I), I)
<1> DEFINE before == {p \in I \X I : p[1] < p[2]}
<1>1. \A i, j \in I : <<i, j>> \in before <=> i < j
  OBVIOUS
<1> HIDE DEF before
<1>2. StrictOrder(I, before)
  BY <1>1 DEF StrictOrder
<1>3. Numbers(InOrder(I, before), I)
  BY <1>2, InOrderNumbers
<1>4. QED
  BY <1>3 DEF Ascending, before

-----------------------------------------------------------------------------
(* Lists: sequences of whatever they hold.                                 *)

Values(s) == {s[i] : i \in DOMAIN s}

Listed(s) == s \in Seq(Values(s))

OneOfEach(s) == \A i, j \in DOMAIN s : s[i] = s[j] => i = j

\* A function over the first n numbers is a list.
LEMMA FunctionIsList ==
  ASSUME NEW n \in Nat, NEW s, DOMAIN s = 1 .. n, s = [i \in 1 .. n |-> s[i]]
  PROVE  Listed(s) /\ Len(s) = n
<1>1. s \in [1 .. n -> Values(s)]
  BY DEF Values
<1>2. s \in Seq(Values(s))
  BY <1>1
<1>3. Len(s) \in Nat /\ DOMAIN s = 1 .. Len(s)
  BY <1>2, LenProperties
<1>4. QED
  BY <1>2, <1>3 DEF Listed

LEMMA ListShape ==
  ASSUME NEW s, Listed(s)
  PROVE  Len(s) \in Nat /\ DOMAIN s = 1 .. Len(s) /\ s = [i \in 1 .. Len(s) |-> s[i]]
<1>1. s \in Seq(Values(s))
  BY DEF Listed
<1>2. Len(s) \in Nat /\ s \in [1 .. Len(s) -> Values(s)] /\ DOMAIN s = 1 .. Len(s)
  BY <1>1, LenProperties
<1>3. QED
  BY <1>2

\* A list of distinct values has as many values as places; any list has no more.
LEMMA HowManyValues ==
  ASSUME NEW s, Listed(s)
  PROVE  /\ IsFiniteSet(Values(s))
         /\ Cardinality(Values(s)) \in Nat
         /\ Cardinality(Values(s)) <= Len(s)
         /\ OneOfEach(s) => Cardinality(Values(s)) = Len(s)
<1>1. Len(s) \in Nat /\ DOMAIN s = 1 .. Len(s) /\ s = [i \in 1 .. Len(s) |-> s[i]]
  BY ListShape
<1>2. IsFiniteSet(1 .. Len(s)) /\ Cardinality(1 .. Len(s)) = Len(s)
  <2>1. PICK n \in Nat : n = Len(s)
    BY <1>1
  <2>2. IsFiniteSet(1 .. n) /\ Cardinality(1 .. n) = n
    BY FS_Interval
  <2>3. QED
    BY <2>1, <2>2
<1>3. s \in [1 .. Len(s) -> Values(s)]
  BY <1>1 DEF Values
<1>4. \A v \in Values(s) : \E i \in 1 .. Len(s) : s[i] = v
  BY <1>1 DEF Values
<1>5. s \in Surjection(1 .. Len(s), Values(s))
  BY <1>3, <1>4 DEF Surjection
<1>6. /\ IsFiniteSet(Values(s))
      /\ Cardinality(Values(s)) <= Len(s)
      /\ s \in Injection(1 .. Len(s), Values(s)) => Cardinality(Values(s)) = Len(s)
  BY <1>2, <1>5, FS_Surjection
<1>7. OneOfEach(s) => s \in Injection(1 .. Len(s), Values(s))
  BY <1>1, <1>3 DEF OneOfEach, Injection, IsInjective
<1>8. QED
  BY <1>6, <1>7, FS_CardinalityType

\* The elements kept are those at the positions.
LEMMA KeptIsList ==
  ASSUME NEW s, NEW I \in SUBSET Int, IsFiniteSet(I)
  PROVE  /\ Listed(Kept(s, I)) /\ Len(Kept(s, I)) = Cardinality(I)
         /\ Values(Kept(s, I)) = {s[i] : i \in I}
         /\ (\A i, j \in I : s[i] = s[j] => i = j) => OneOfEach(Kept(s, I))
<1> DEFINE n == Cardinality(I)
           order == Ascending(I)
           k == Kept(s, I)
<1>1. n \in Nat
  BY FS_CardinalityType
<1>2. /\ order \in [1 .. n -> I]
      /\ \A i, j \in 1 .. n : order[i] = order[j] => i = j
      /\ \A i \in I : \E j \in 1 .. n : order[j] = i
  BY AscendingNumbers DEF Numbers
<1>3. k = [i \in 1 .. n |-> s[order[i]]]
  BY DEF Kept
<1> HIDE DEF n, order, k
<1>4. DOMAIN k = 1 .. n /\ k = [i \in 1 .. n |-> k[i]] /\ \A i \in 1 .. n : k[i] = s[order[i]]
  BY <1>3
<1>5. Listed(k) /\ Len(k) = n
  BY <1>1, <1>4, FunctionIsList
<1>6. Values(k) = {s[i] : i \in I}
  <2>1. ASSUME NEW v \in Values(k) PROVE v \in {s[i] : i \in I}
    BY <1>2, <1>4, <2>1 DEF Values
  <2>2. ASSUME NEW i \in I PROVE s[i] \in Values(k)
    <3>1. PICK j \in 1 .. n : order[j] = i
      BY <1>2
    <3>2. k[j] = s[i]
      BY <1>4, <3>1
    <3>3. QED
      BY <1>4, <3>1, <3>2 DEF Values
  <2>3. QED
    BY <2>1, <2>2
<1>7. (\A i, j \in I : s[i] = s[j] => i = j) => OneOfEach(k)
  BY <1>2, <1>4 DEF OneOfEach
<1>8. QED
  BY <1>5, <1>6, <1>7 DEF k, n

\* A least element of a set of natural numbers.
LEMMA SmallestIndex ==
  ASSUME NEW T \in SUBSET Nat, T # {}
  PROVE  \E m \in T : \A k \in T : ~(k < m)
<1>1. IsWellFoundedOn(OpToRel(<, Nat), Nat)
  BY NatLessThanWellFounded
<1>2. \E m \in T : \A k \in T : ~(<<k, m>> \in OpToRel(<, Nat))
  BY <1>1, WFMin
<1>3. QED
  BY <1>2 DEF OpToRel

\* Distinct loses no value and keeps each once.
LEMMA DistinctIsList ==
  ASSUME NEW s, Listed(s)
  PROVE  /\ Listed(Distinct(s)) /\ OneOfEach(Distinct(s))
         /\ Values(Distinct(s)) = Values(s)
<1> DEFINE I == {i \in DOMAIN s : \A j \in 1 .. i - 1 : s[j] # s[i]}
<1>1. Len(s) \in Nat /\ DOMAIN s = 1 .. Len(s)
  BY ListShape
<1>2. I \in SUBSET (1 .. Len(s)) /\ I \in SUBSET Int /\ IsFiniteSet(I)
  <2>1. I \in SUBSET (1 .. Len(s)) /\ I \in SUBSET Int
    BY <1>1
  <2>2. IsFiniteSet(1 .. Len(s))
    BY <1>1, FS_Interval
  <2> HIDE DEF I
  <2>3. QED
    BY <2>1, <2>2, FS_Subset
<1>3. ASSUME NEW i \in I, NEW j \in I, s[i] = s[j] PROVE i = j
  <2>1. i \in Int /\ j \in Int /\ 1 <= i /\ 1 <= j
    BY <1>1
  <2>2. ~(i < j)
    BY <1>3, <2>1
  <2>3. ~(j < i)
    BY <1>3, <2>1
  <2>4. QED
    BY <2>1, <2>2, <2>3
<1>4. ASSUME NEW i \in DOMAIN s PROVE \E j \in I : s[j] = s[i]
  <2> DEFINE T == {j \in 1 .. Len(s) : s[j] = s[i]}
  <2>1. T \in SUBSET Nat /\ T # {}
    BY <1>1
  <2>2. PICK m \in T : \A k \in T : ~(k < m)
    <3> HIDE DEF T
    <3>1. QED
      BY <2>1, SmallestIndex
  <2>3. ASSUME NEW j \in 1 .. m - 1 PROVE s[j] # s[m]
    <3>1. j \in 1 .. Len(s) /\ j < m
      BY <1>1
    <3>2. s[m] = s[i]
      OBVIOUS
    <3>3. QED
      BY <2>2, <3>1, <3>2
  <2>4. m \in I
    BY <1>1, <2>3
  <2>5. s[m] = s[i]
    OBVIOUS
  <2> HIDE DEF I, T
  <2>6. QED
    BY <2>4, <2>5
<1>5. Distinct(s) = Kept(s, I)
  BY DEF Distinct
<1>6. {s[i] : i \in I} = Values(s)
  <2>1. \A i \in I : i \in DOMAIN s
    OBVIOUS
  <2> HIDE DEF I
  <2>2. QED
    BY <1>4, <2>1 DEF Values
<1> HIDE DEF I
<1>7. \A i, j \in I : s[i] = s[j] => i = j
  BY <1>3
<1>8. /\ Listed(Kept(s, I)) /\ Values(Kept(s, I)) = {s[i] : i \in I}
      /\ (\A i, j \in I : s[i] = s[j] => i = j) => OneOfEach(Kept(s, I))
  BY <1>2, KeptIsList
<1>9. QED
  BY <1>5, <1>6, <1>7, <1>8

\* The first elements of a list.
LEMMA TakeIsList ==
  ASSUME NEW s, Listed(s), NEW n \in Nat
  PROVE  /\ Listed(Take(s, n)) /\ Len(Take(s, n)) = (IF Len(s) < n THEN Len(s) ELSE n)
         /\ Values(Take(s, n)) \subseteq Values(s)
         /\ OneOfEach(s) => OneOfEach(Take(s, n))
         /\ Len(s) <= n => Take(s, n) = s
<1> DEFINE m == IF Len(s) < n THEN Len(s) ELSE n
           t == SubSeq(s, 1, m)
<1>1. Len(s) \in Nat /\ DOMAIN s = 1 .. Len(s)
  BY ListShape
<1>2. s \in Seq(Values(s))
  BY DEF Listed
<1>3. m \in Nat /\ m <= Len(s)
  BY <1>1
<1>4. Take(s, n) = t
  BY DEF Take
<1> HIDE DEF m
<1>5. \A i \in 1 .. m : s[i] \in Values(s)
  BY <1>1, <1>3 DEF Values
<1>6. t \in Seq(Values(s)) /\ Len(t) = m /\ \A i \in 1 .. m : t[i] = s[i]
  <2>1. 1 \in Int /\ m \in Int
    BY <1>3
  <2>2. /\ t \in Seq(Values(s))
        /\ Len(t) = IF 1 <= m THEN m - 1 + 1 ELSE 0
        /\ \A i \in 1 .. m - 1 + 1 : t[i] = s[1 + i - 1]
    BY <1>5, <2>1, SubSeqProperties
  <2> HIDE DEF t
  <2>3. Len(t) = m
    BY <1>3, <2>2
  <2>4. \A i \in 1 .. m : t[i] = s[i]
    <3> SUFFICES ASSUME NEW i \in 1 .. m PROVE t[i] = s[i]
      OBVIOUS
    <3>1. i \in 1 .. m - 1 + 1 /\ 1 + i - 1 = i
      BY <1>3
    <3>2. QED
      BY <2>2, <3>1
  <2>5. QED
    BY <2>2, <2>3, <2>4
<1> HIDE DEF t
<1>7. DOMAIN t = 1 .. m /\ t = [i \in 1 .. m |-> t[i]]
  <2>1. t \in [1 .. Len(t) -> Values(s)]
    BY <1>6, LenProperties
  <2>2. QED
    BY <1>6, <2>1
<1>8. Listed(t)
  BY <1>3, <1>7, FunctionIsList
<1>9. Values(t) \subseteq Values(s)
  BY <1>5, <1>6, <1>7 DEF Values
<1>10. OneOfEach(s) => OneOfEach(t)
  BY <1>1, <1>3, <1>6, <1>7 DEF OneOfEach
<1>11. ASSUME Len(s) <= n PROVE t = s
  <2>1. m = Len(s)
    <3>1. PICK k \in Nat : k = Len(s)
      BY <1>1
    <3>2. k <= n
      BY <1>11, <3>1
    <3>3. m = IF k < n THEN k ELSE n
      BY <3>1 DEF m
    <3>4. QED
      BY <3>1, <3>2, <3>3
  <2>2. s = [i \in 1 .. Len(s) |-> s[i]]
    BY ListShape
  <2>3. QED
    BY <1>6, <1>7, <2>1, <2>2
<1>12. QED
  BY <1>4, <1>6, <1>8, <1>9, <1>10, <1>11 DEF m

LEMMA ReversedIsList ==
  ASSUME NEW s, Listed(s)
  PROVE  Listed(Reversed(s)) /\ Len(Reversed(s)) = Len(s) /\ Values(Reversed(s)) = Values(s)
<1> DEFINE n == Len(s)
           t == Reversed(s)
<1>1. n \in Nat /\ DOMAIN s = 1 .. n
  BY ListShape
<1>2. DOMAIN t = 1 .. n /\ t = [i \in 1 .. n |-> t[i]] /\ \A i \in 1 .. n : t[i] = s[n + 1 - i]
  BY DEF Reversed
<1> HIDE DEF n, t
<1>3. Listed(t) /\ Len(t) = n
  BY <1>1, <1>2, FunctionIsList
<1>4. ASSUME NEW v \in Values(t) PROVE v \in Values(s)
  <2>1. PICK i \in 1 .. n : v = t[i]
    BY <1>2 DEF Values
  <2>2. n + 1 - i \in 1 .. n
    BY <1>1
  <2>3. QED
    BY <1>1, <1>2, <2>1, <2>2 DEF Values
<1>5. ASSUME NEW v \in Values(s) PROVE v \in Values(t)
  <2>1. PICK i \in 1 .. n : v = s[i]
    BY <1>1 DEF Values
  <2>2. n + 1 - i \in 1 .. n /\ n + 1 - (n + 1 - i) = i
    BY <1>1
  <2>3. t[n + 1 - i] = v
    BY <1>2, <2>1, <2>2
  <2>4. QED
    BY <1>2, <2>2, <2>3 DEF Values
<1>6. QED
  BY <1>3, <1>4, <1>5 DEF n, t

\* Two lists one after the other.
LEMMA ConcatIsList ==
  ASSUME NEW s, Listed(s), NEW t, Listed(t)
  PROVE  /\ Listed(s \o t) /\ Len(s \o t) = Len(s) + Len(t)
         /\ Values(s \o t) = Values(s) \cup Values(t)
<1> DEFINE S == Values(s) \cup Values(t)
           u == s \o t
<1>1. Len(s) \in Nat /\ DOMAIN s = 1 .. Len(s) /\ Len(t) \in Nat /\ DOMAIN t = 1 .. Len(t)
  BY ListShape
<1>2. s \in Seq(S) /\ t \in Seq(S)
  BY SeqMonotonic DEF Listed
<1>3. /\ u \in Seq(S) /\ Len(u) = Len(s) + Len(t)
      /\ \A i \in 1 .. Len(s) + Len(t) : u[i] = IF i <= Len(s) THEN s[i] ELSE t[i - Len(s)]
  <2> HIDE DEF S
  <2>1. QED
    BY <1>2, ConcatProperties
<1> HIDE DEF u
<1>4. DOMAIN u = 1 .. Len(u) /\ u = [i \in 1 .. Len(u) |-> u[i]]
  BY <1>3, LenProperties
<1>5. Listed(u)
  <2>1. Len(u) \in Nat
    BY <1>1, <1>3
  <2>2. QED
    BY <1>4, <2>1, FunctionIsList
<1>6. ASSUME NEW v \in Values(u) PROVE v \in S
  <2>1. PICK i \in 1 .. Len(s) + Len(t) : v = u[i]
    BY <1>3, <1>4 DEF Values
  <2>2. CASE i <= Len(s)
    <3>1. i \in DOMAIN s /\ v = s[i]
      BY <1>1, <1>3, <2>1, <2>2
    <3>2. QED
      BY <3>1 DEF Values
  <2>3. CASE ~(i <= Len(s))
    <3>1. i - Len(s) \in DOMAIN t /\ v = t[i - Len(s)]
      BY <1>1, <1>3, <2>1, <2>3
    <3>2. QED
      BY <3>1 DEF Values
  <2>4. QED
    BY <2>2, <2>3
<1>7. ASSUME NEW i \in DOMAIN s PROVE s[i] \in Values(u)
  <2>1. i \in 1 .. Len(s) + Len(t) /\ i <= Len(s)
    BY <1>1
  <2>2. u[i] = s[i]
    BY <1>3, <2>1
  <2>3. QED
    BY <1>3, <1>4, <2>1, <2>2 DEF Values
<1>8. ASSUME NEW i \in DOMAIN t PROVE t[i] \in Values(u)
  <2>1. i + Len(s) \in 1 .. Len(s) + Len(t) /\ ~(i + Len(s) <= Len(s)) /\ i + Len(s) - Len(s) = i
    BY <1>1
  <2>2. u[i + Len(s)] = t[i]
    BY <1>3, <2>1
  <2>3. QED
    BY <1>3, <1>4, <2>1, <2>2 DEF Values
<1>9. Values(u) = S
  <2>1. \A v \in S : v \in Values(u)
    BY <1>7, <1>8 DEF Values
  <2>2. QED
    BY <1>6, <2>1
<1>10. QED
  BY <1>3, <1>5, <1>9 DEF u

-----------------------------------------------------------------------------
(* The sources of an answer.                                               *)

\* The citations of an answer are a list.
LEMMA CitationsAreLists ==
  ASSUME NEW n, NEW citations \in Citations(n)
  PROVE  Listed(citations)
<1>1. CASE citations = <<n + 1>>
  <2> DEFINE x == n + 1
  <2> HIDE DEF x
  <2>1. citations = <<x>>
    BY <1>1 DEF x
  <2>2. DOMAIN citations = 1 .. 1 /\ citations = [i \in 1 .. 1 |-> citations[i]]
    BY <2>1
  <2>3. QED
    BY <2>2, FunctionIsList
<1>2. CASE \E m \in 0 .. MaxCitations : citations \in [1 .. m -> 1 .. n]
  <2>1. PICK m \in 0 .. MaxCitations : citations \in [1 .. m -> 1 .. n]
    BY <1>2
  <2>2. m \in Nat /\ DOMAIN citations = 1 .. m /\ citations = [i \in 1 .. m |-> citations[i]]
    BY <2>1
  <2>3. QED
    BY <2>2, FunctionIsList
<1>3. QED
  BY <1>1, <1>2 DEF Citations

\* The positions of a list, or some of them, can be counted.
LEMMA PositionsAreFinite ==
  ASSUME NEW s, Listed(s), NEW I \in SUBSET (DOMAIN s)
  PROVE  I \in SUBSET Int /\ IsFiniteSet(I)
<1>1. PICK n \in Nat : DOMAIN s = 1 .. n
  BY ListShape
<1>2. IsFiniteSet(1 .. n)
  BY FS_Interval
<1>3. QED
  BY <1>1, <1>2, FS_Subset

LEMMA UsedAreListed ==
  ASSUME NEW supplied, NEW citations, Listed(citations)
  PROVE  Listed(UsedIndexes(supplied, citations))
<1> DEFINE I == {i \in DOMAIN citations : citations[i] <= Len(supplied)}
<1>1. I \in SUBSET Int /\ IsFiniteSet(I)
  BY PositionsAreFinite
<1>2. Listed(Kept(citations, I))
  BY <1>1, KeptIsList
<1>3. QED
  BY <1>2, DistinctIsList DEF UsedIndexes

\* What is listed under an answer: some of its markers, each with a list of quotations.
SourcesOf(sources, markers) ==
  /\ \E J \in SUBSET markers :
       {sources[s].n : s \in DOMAIN sources} = J /\ Len(sources) = Cardinality(J)
  /\ Listed(sources)
  /\ \A s \in DOMAIN sources : Listed(sources[s].quotes)

LEMMA SourcesAreListed ==
  ASSUME NEW supplied, NEW citations, Listed(citations)
  PROVE  /\ IsFiniteSet(Markers(supplied, citations))
         /\ SourcesOf(SourcesCited(supplied, citations), Markers(supplied, citations))
<1> DEFINE used == UsedIndexes(supplied, citations)
           passage == [k \in DOMAIN used |-> supplied[used[k]]]
           page == Pages(passage)
           J == {k \in DOMAIN used : \A j \in 1 .. k - 1 : page[j] # page[k]}
           first == Ascending(J)
           quoted(s) == {k \in DOMAIN used : page[k] = page[first[s]]}
           n == Cardinality(J)
           sources == SourcesCited(supplied, citations)
<1>1. Listed(used)
  BY UsedAreListed
<1>2. DOMAIN used = Markers(supplied, citations) /\ IsFiniteSet(DOMAIN used)
  <2>1. DOMAIN used = Markers(supplied, citations)
    BY <1>1, ListShape DEF Markers
  <2>2. DOMAIN used \in SUBSET (DOMAIN used)
    OBVIOUS
  <2> HIDE DEF used
  <2>3. IsFiniteSet(DOMAIN used)
    BY <1>1, <2>2, PositionsAreFinite
  <2>4. QED
    BY <2>1, <2>3
<1>3. sources = [s \in DOMAIN first |->
                   [n |-> first[s], page |-> page[first[s]],
                    quotes |-> Distinct(Kept(passage, quoted(s)))]]
  BY DEF SourcesCited
<1>4. J \in SUBSET (DOMAIN used)
  OBVIOUS
<1>5. \A s : quoted(s) \in SUBSET (DOMAIN used)
  OBVIOUS
<1> HIDE DEF used, passage, page, J, first, quoted, n, sources
<1>6. J \in SUBSET Int /\ IsFiniteSet(J) /\ n \in Nat
  BY <1>1, <1>4, PositionsAreFinite, FS_CardinalityType DEF n
<1>7. Numbers(first, J)
  BY <1>6, AscendingNumbers DEF first
<1>8. /\ first \in [1 .. n -> J]
      /\ \A i \in J : \E k \in 1 .. n : first[k] = i
  BY <1>7 DEF Numbers, n
<1>9. /\ DOMAIN sources = 1 .. n /\ sources = [s \in 1 .. n |-> sources[s]]
      /\ \A s \in 1 .. n : /\ sources[s].n = first[s]
                           /\ sources[s].quotes = Distinct(Kept(passage, quoted(s)))
  BY <1>3, <1>8
<1>10. Listed(sources) /\ Len(sources) = n
  BY <1>6, <1>9, FunctionIsList
<1>11. {sources[s].n : s \in DOMAIN sources} = J
  BY <1>8, <1>9
<1>12. ASSUME NEW s \in DOMAIN sources PROVE Listed(sources[s].quotes)
  <2>1. quoted(s) \in SUBSET Int /\ IsFiniteSet(quoted(s))
    BY <1>1, <1>5, PositionsAreFinite
  <2>2. Listed(Kept(passage, quoted(s)))
    BY <2>1, KeptIsList
  <2>3. Listed(Distinct(Kept(passage, quoted(s))))
    BY <2>2, DistinctIsList
  <2>4. QED
    BY <1>9, <2>3
<1>13. SourcesOf(sources, DOMAIN used)
  BY <1>4, <1>10, <1>11, <1>12 DEF SourcesOf, n
<1>14. QED
  BY <1>2, <1>13 DEF sources

\* A marker that no listed source has is one of two for the same page.
LEMMA MarkersListed ==
  ASSUME NEW markers, IsFiniteSet(markers), NEW sources, SourcesOf(sources, markers)
  PROVE  \/ markers \subseteq {sources[s].n : s \in DOMAIN sources}
         \/ Cardinality(markers) # Len(sources)
<1>1. PICK J \in SUBSET markers :
        {sources[s].n : s \in DOMAIN sources} = J /\ Len(sources) = Cardinality(J)
  BY DEF SourcesOf
<1>2. Cardinality(markers) = Cardinality(J) => markers = J
  BY FS_Subset
<1>3. QED
  BY <1>1, <1>2

LEMMA MarkersInit == Init => MarkersNameSources
  BY DEF Init, MarkersNameSources, NothingShown, Shown

LEMMA MarkersStep == MarkersNameSources /\ [Next]_vars => MarkersNameSources'
<1>1. SUFFICES ASSUME MarkersNameSources, [Next]_vars PROVE MarkersNameSources'
  OBVIOUS
<1>2. ASSUME shown' = shown PROVE MarkersNameSources'
  BY <1>1, <1>2 DEF MarkersNameSources
<1>3. ASSUME shown' = NothingShown PROVE MarkersNameSources'
  BY <1>3 DEF MarkersNameSources, NothingShown, Shown
<1>4. ASSUME NEW r \in Request,
             NEW citations \in Citations(Len(req[r].supplied)), CommitTurn(r, citations)
      PROVE  MarkersNameSources'
  <2> DEFINE markers == Markers(req[r].supplied, citations)
             sources == SourcesCited(req[r].supplied, citations)
  <2>1. Listed(citations)
    BY CitationsAreLists
  <2>2. IsFiniteSet(markers) /\ SourcesOf(sources, markers)
    BY <2>1, SourcesAreListed
  <2>3. shown' = Shown(markers, {sources[s].n : s \in DOMAIN sources},
                       Cardinality(markers) # Len(sources))
    BY <1>4 DEF CommitTurn
  <2> HIDE DEF markers, sources
  <2> DEFINE listed == {sources[s].n : s \in DOMAIN sources}
             twice == Cardinality(markers) # Len(sources)
  <2>4. markers \subseteq listed \/ twice
    BY <2>2, MarkersListed
  <2>5. shown' = Shown(markers, listed, twice)
    BY <2>3
  <2> HIDE DEF listed, twice
  <2>6. shown'.markers = markers /\ shown'.listed = listed /\ shown'.twice = twice
    BY <2>5 DEF Shown
  <2>7. QED
    BY <2>4, <2>6 DEF MarkersNameSources
<1>5. ASSUME NEW answer \in LibraryAnswers, AskLibrary(answer)
      PROVE  MarkersNameSources'
  <2>1. shown' = answer
    BY <1>5 DEF AskLibrary
  <2>2. PICK hits, mentioned, given : answer = LibraryAnswer(hits, mentioned, given)
    BY DEF LibraryAnswers
  <2>3. answer.markers \subseteq answer.listed
    BY <2>2 DEF LibraryAnswer, InContract, QaNumbers, NothingShown, Shown
  <2>4. QED
    BY <2>1, <2>3 DEF MarkersNameSources
<1>6. ASSUME NEW r \in Request, NEW c, Admit(r, c) PROVE MarkersNameSources'
  BY <1>3, <1>6 DEF Admit
<1>7. ASSUME NEW r \in Request, NEW hits, Prepare(r, hits) PROVE MarkersNameSources'
  BY <1>2, <1>7 DEF Prepare
<1>8. ASSUME NEW r \in Request, RefuseConversation(r) \/ FailTurn(r)
      PROVE  MarkersNameSources'
  BY <1>2, <1>8 DEF RefuseConversation, FailTurn
<1>9. CASE Midnight \/ Quiet \/ UNCHANGED vars \/ \E c \in Conversation : ArchiveConversation(c)
  BY <1>2, <1>9 DEF Midnight, Quiet, vars, ArchiveConversation
<1>10. QED
  BY <1>1, <1>4, <1>5, <1>6, <1>7, <1>8, <1>9 DEF Next

\* Every marker of an answer of the chat is the number of a source listed under it,
\* unless the answer used two passages of one page; the library answer cites listed
\* sources only (_postprocess and _contract_failures).
THEOREM MarkersHaveSources == Spec => []MarkersNameSources
  BY MarkersInit, MarkersStep, PTL DEF Spec

-----------------------------------------------------------------------------
(* The questions of the day.                                               *)

(***************************************************************************)
(* A request in flight will store at most one question, so the questions   *)
(* of the day and the requests in flight are counted together.             *)
(***************************************************************************)
ReqFun == req = [q \in Request |-> req[q]]

IInv == asked \in Nat /\ ReqFun /\ DailyOvershoot

\* How many requests are in flight is a number; one that is idle leaves room.
LEMMA FlightCount ==
  /\ IsFiniteSet(InFlight)
  /\ Cardinality(InFlight) \in Nat /\ Cardinality(Request) \in Nat
  /\ \A r \in Request \ InFlight : Cardinality(InFlight) + 1 <= Cardinality(Request)
<1>1. IsFiniteSet(Request) /\ InFlight \subseteq Request
  BY ChatAssumption DEF InFlight
<1>2. IsFiniteSet(InFlight)
  BY <1>1, FS_Subset
<1>3. Cardinality(InFlight) \in Nat /\ Cardinality(Request) \in Nat
  BY <1>1, <1>2, FS_CardinalityType
<1>4. ASSUME NEW r \in Request \ InFlight
      PROVE  Cardinality(InFlight) + 1 <= Cardinality(Request)
  <2>1. Cardinality(InFlight \cup {r}) = Cardinality(InFlight) + 1
    BY <1>2, FS_AddElement
  <2>2. InFlight \cup {r} \subseteq Request
    BY <1>1
  <2>3. Cardinality(InFlight \cup {r}) <= Cardinality(Request)
    BY <1>1, <2>2, FS_Subset
  <2>4. QED
    BY <2>1, <2>3
<1>5. QED
  BY <1>2, <1>3, <1>4

\* A request that begins is one more in flight, one that ends is one fewer.
LEMMA FlightBegins ==
  ASSUME ReqFun, NEW r \in Request, NEW new, new # Idle, req[r] = Idle,
         req' = [req EXCEPT ![r] = new]
  PROVE  Cardinality(InFlight') = Cardinality(InFlight) + 1 /\ ReqFun'
<1>1. InFlight' = InFlight \cup {r} /\ r \notin InFlight
  BY DEF InFlight, ReqFun
<1>2. ReqFun'
  BY DEF ReqFun
<1>3. QED
  BY <1>1, <1>2, FlightCount, FS_AddElement

LEMMA FlightEnds ==
  ASSUME ReqFun, NEW r \in Request, req[r] # Idle, req' = [req EXCEPT ![r] = Idle]
  PROVE  Cardinality(InFlight') = Cardinality(InFlight) - 1 /\ ReqFun'
<1>1. InFlight' = InFlight \ {r} /\ r \in InFlight
  BY DEF InFlight, ReqFun
<1>2. ReqFun'
  BY DEF ReqFun
<1>3. QED
  BY <1>1, <1>2, FlightCount, FS_RemoveElement

LEMMA FlightGoesOn ==
  ASSUME ReqFun, NEW r \in Request, NEW new, new # Idle, req[r] # Idle,
         req' = [req EXCEPT ![r] = new]
  PROVE  InFlight' = InFlight /\ ReqFun'
  BY DEF InFlight, ReqFun

\* Nothing is in flight at the start.
LEMMA DailyInit == Init => IInv
<1>1. SUFFICES ASSUME Init PROVE IInv
  OBVIOUS
<1>2. ReqFun /\ InFlight = {} /\ asked = 0
  BY <1>1 DEF Init, ReqFun, InFlight
<1>3. Cardinality({}) = 0 /\ Cardinality(Request) # 0
  BY ChatAssumption, FS_EmptySet
<1>4. QED
  BY <1>2, <1>3, FlightCount, ChatAssumption DEF IInv, DailyOvershoot

\* A question is admitted below the limit, when one request at least is idle.
LEMMA DailyAdmit ==
  ASSUME IInv, NEW r \in Request, NEW c, Admit(r, c)
  PROVE  IInv'
<1>1. [phase |-> "admitted", conv |-> c] # Idle
  BY DEF Idle
<1>2. Cardinality(InFlight') = Cardinality(InFlight) + 1 /\ ReqFun'
  BY <1>1, FlightBegins DEF IInv, Admit
<1>3. r \in Request \ InFlight
  BY DEF Admit, InFlight
<1>4. asked < DailyLimit /\ asked' = asked
  BY ChatAssumption DEF Admit, LimitReached, IInv
<1>5. QED
  BY <1>2, <1>3, <1>4, FlightCount, ChatAssumption DEF IInv, DailyOvershoot

\* A turn that is stored adds the question it was in flight for.
LEMMA DailyCommit ==
  ASSUME IInv, NEW r \in Request, NEW citations, CommitTurn(r, citations)
  PROVE  IInv'
<1>1. req[r] # Idle /\ req' = [req EXCEPT ![r] = Idle] /\ asked' = asked + 1
  BY DEF CommitTurn, Idle
<1>2. Cardinality(InFlight') = Cardinality(InFlight) - 1 /\ ReqFun'
  BY <1>1, FlightEnds DEF IInv
<1>3. QED
  BY <1>1, <1>2, FlightCount, ChatAssumption DEF IInv, DailyOvershoot

\* A turn that is refused or fails stores nothing.
LEMMA DailyEnd ==
  ASSUME IInv, NEW r \in Request, RefuseConversation(r) \/ FailTurn(r)
  PROVE  IInv'
<1>1. req[r] # Idle /\ req' = [req EXCEPT ![r] = Idle] /\ asked' = asked
  BY DEF RefuseConversation, FailTurn, Idle
<1>2. Cardinality(InFlight') = Cardinality(InFlight) - 1 /\ ReqFun'
  BY <1>1, FlightEnds DEF IInv
<1>3. QED
  BY <1>1, <1>2, FlightCount, ChatAssumption DEF IInv, DailyOvershoot

LEMMA DailyPrepare ==
  ASSUME IInv, NEW r \in Request, NEW hits, Prepare(r, hits)
  PROVE  IInv'
<1>1. /\ req[r] # Idle /\ asked' = asked
      /\ req' = [req EXCEPT ![r] = [phase |-> "prepared", conv |-> req[r].conv,
                                    pool |-> Pool, supplied |-> Pool \o hits]]
  BY DEF Prepare, Idle
<1>2. [phase |-> "prepared", conv |-> req[r].conv, pool |-> Pool, supplied |-> Pool \o hits] # Idle
  BY DEF Idle
<1>3. InFlight' = InFlight /\ ReqFun'
  BY <1>1, <1>2, FlightGoesOn DEF IInv
<1>4. QED
  BY <1>1, <1>3 DEF IInv, DailyOvershoot

\* Midnight starts the count again; the other steps leave it and the requests alone.
LEMMA DailyOther ==
  ASSUME IInv, Midnight \/ (asked' = asked /\ req' = req)
  PROVE  IInv'
<1>1. req' = req /\ asked' \in {0, asked}
  BY DEF Midnight
<1>2. InFlight' = InFlight /\ ReqFun'
  BY <1>1 DEF IInv, InFlight, ReqFun
<1>3. QED
  BY <1>1, <1>2, FlightCount, ChatAssumption DEF IInv, DailyOvershoot

LEMMA DailyStep == IInv /\ [Next]_vars => IInv'
<1>1. SUFFICES ASSUME IInv, [Next]_vars PROVE IInv'
  OBVIOUS
<1>2. CASE UNCHANGED vars
  BY <1>1, <1>2, DailyOther DEF vars
<1>3. CASE Midnight
  BY <1>1, <1>3, DailyOther
<1>4. CASE Quiet
  BY <1>1, <1>4, DailyOther DEF Quiet, vars
<1>5. CASE \E c \in Conversation : ArchiveConversation(c)
  BY <1>1, <1>5, DailyOther DEF ArchiveConversation
<1>6. CASE \E answer \in LibraryAnswers : AskLibrary(answer)
  BY <1>1, <1>6, DailyOther DEF AskLibrary
<1>7. ASSUME NEW r \in Request, NEW c, Admit(r, c) PROVE IInv'
  BY <1>1, <1>7, DailyAdmit
<1>8. ASSUME NEW r \in Request, NEW hits, Prepare(r, hits) PROVE IInv'
  BY <1>1, <1>8, DailyPrepare
<1>9. ASSUME NEW r \in Request, RefuseConversation(r) \/ FailTurn(r) PROVE IInv'
  BY <1>1, <1>9, DailyEnd
<1>10. ASSUME NEW r \in Request, NEW citations, CommitTurn(r, citations) PROVE IInv'
  BY <1>1, <1>10, DailyCommit
<1>11. QED
  BY <1>1, <1>2, <1>3, <1>4, <1>5, <1>6, <1>7, <1>8, <1>9, <1>10 DEF Next

\* However many requests overlap, the questions of a day never pass the daily limit by
\* more than the requests there can be besides one (the count of knowledge_chat.py is
\* read before the answer and stored after it).
THEOREM DailyLimitHolds == Spec => []DailyOvershoot
<1>1. IInv => DailyOvershoot
  BY DEF IInv
<1>2. QED
  BY <1>1, DailyInit, DailyStep, PTL DEF Spec

-----------------------------------------------------------------------------
(* The pins.                                                               *)

\* What a turn is given: of a pool that fits into the rows read, every passage, as long
\* as there are fewer than PinLimit.
PoolOf(pool, rows) ==
  /\ Listed(pool) /\ Len(pool) <= PinLimit
  /\ Len(rows) <= PinLimit * PinWindow /\ Len(pool) < PinLimit => Values(pool) = Values(rows)

LEMMA PoolIs ==
  ASSUME Listed(pins)
  PROVE  PoolOf(Pool, pins)
<1> DEFINE read == Take(Reversed(pins), PinLimit * PinWindow)
           passages == Distinct(read)
           given == Take(passages, PinLimit)
<1>1. PinLimit \in Nat /\ PinLimit * PinWindow \in Nat
  BY ChatAssumption DEF PinWindow
<1>2. Listed(Reversed(pins)) /\ Len(Reversed(pins)) = Len(pins) /\ Values(Reversed(pins)) = Values(pins)
  BY ReversedIsList
<1>3. Listed(read) /\ (Len(pins) <= PinLimit * PinWindow => Values(read) = Values(pins))
  <2> DEFINE n == PinLimit * PinWindow
  <2>1. n \in Nat
    BY <1>1
  <2> HIDE DEF n
  <2>2. /\ Listed(Take(Reversed(pins), n))
        /\ Len(Reversed(pins)) <= n => Take(Reversed(pins), n) = Reversed(pins)
    BY <1>2, <2>1, TakeIsList
  <2>3. QED
    BY <1>2, <2>2 DEF n
<1> HIDE DEF read
<1>4. Listed(passages) /\ Values(passages) = Values(read)
  BY <1>3, DistinctIsList
<1> HIDE DEF passages
<1>5. /\ Listed(given) /\ Len(given) = (IF Len(passages) < PinLimit THEN Len(passages) ELSE PinLimit)
      /\ Len(passages) <= PinLimit => given = passages
  BY <1>1, <1>4, TakeIsList
<1>6. Len(passages) \in Nat
  BY <1>4, ListShape
<1> HIDE DEF given
<1>7. Len(given) <= PinLimit /\ (Len(given) < PinLimit => given = passages)
  BY <1>1, <1>5, <1>6
<1>8. Listed(Reversed(given)) /\ Len(Reversed(given)) = Len(given) /\ Values(Reversed(given)) = Values(given)
  BY <1>5, ReversedIsList
<1>9. Pool = Reversed(given)
  BY DEF Pool, given, passages, read
<1>10. QED
  BY <1>3, <1>4, <1>7, <1>8, <1>9 DEF PoolOf

\* The quotations are a list.
LEMMA QuotesAreListed ==
  ASSUME NEW sources, Listed(sources), \A s \in DOMAIN sources : Listed(sources[s].quotes)
  PROVE  Listed(Quotes(sources))
<1> DEFINE cell(s) == {s} \X (DOMAIN sources[s].quotes)
           cells == {cell(s) : s \in DOMAIN sources}
           at == UNION cells
           n == Cardinality(at)
           f == [s \in DOMAIN sources |-> cell(s)]
           q == Quotes(sources)
<1>1. \A s \in DOMAIN sources : IsFiniteSet(cell(s))
  <2> SUFFICES ASSUME NEW s \in DOMAIN sources PROVE IsFiniteSet(cell(s))
    OBVIOUS
  <2>1. IsFiniteSet({s})
    BY FS_Singleton
  <2>2. IsFiniteSet(DOMAIN sources[s].quotes)
    BY PositionsAreFinite
  <2>3. QED
    BY <2>1, <2>2, FS_Product
<1>2. DOMAIN q = 1 .. n /\ q = [k \in 1 .. n |-> q[k]]
  BY DEF Quotes
<1> HIDE DEF cell
<1>3. f \in Surjection(DOMAIN sources, cells)
  BY DEF Surjection
<1>4. IsFiniteSet(DOMAIN sources)
  BY PositionsAreFinite
<1> HIDE DEF f
<1>5. IsFiniteSet(cells)
  <2> HIDE DEF cells
  <2>1. QED
    BY <1>3, <1>4, FS_Surjection
<1>6. \A T \in cells : IsFiniteSet(T)
  BY <1>1
<1> HIDE DEF cells
<1>7. IsFiniteSet(at) /\ n \in Nat
  BY <1>5, <1>6, FS_UNION, FS_CardinalityType
<1> HIDE DEF n, at, q
<1>8. QED
  BY <1>2, <1>7, FunctionIsList DEF q

\* What a turn pins: passages that were not in its pool, each once, as many as fit.
PinsOf(added, pool) ==
  /\ Listed(added) /\ OneOfEach(added)
  /\ Len(added) <= PinLimit - Len(pool)
  /\ Values(added) \cap Values(pool) = {}

LEMMA NewPinsAre ==
  ASSUME NEW pool, Listed(pool), Len(pool) <= PinLimit,
         NEW sources, Listed(sources), \A s \in DOMAIN sources : Listed(sources[s].quotes)
  PROVE  PinsOf(NewPins(pool, sources), pool)
<1> DEFINE quotes == Quotes(sources)
           I == {i \in DOMAIN quotes : \A j \in DOMAIN pool : pool[j] # quotes[i]}
           fresh == Kept(quotes, I)
           each == Distinct(fresh)
           room == PinLimit - Len(pool)
           added == Take(each, room)
<1>1. Listed(quotes)
  BY QuotesAreListed
<1>2. I \in SUBSET (DOMAIN quotes)
  OBVIOUS
<1>3. {quotes[i] : i \in I} \cap Values(pool) = {}
  BY DEF Values
<1> HIDE DEF I
<1>4. I \in SUBSET Int /\ IsFiniteSet(I)
  BY <1>1, <1>2, PositionsAreFinite
<1>5. Listed(fresh) /\ Values(fresh) = {quotes[i] : i \in I}
  BY <1>4, KeptIsList
<1>6. NotInPool(pool, sources) = each
  BY DEF NotInPool, I
<1> HIDE DEF fresh, quotes
<1>7. Listed(each) /\ OneOfEach(each) /\ Values(each) = Values(fresh)
  BY <1>5, DistinctIsList
<1> HIDE DEF each
<1>8. room \in Nat
  BY ListShape, ChatAssumption
<1>9. /\ Listed(added) /\ OneOfEach(added) /\ Values(added) \subseteq Values(each)
      /\ Len(added) = IF Len(each) < room THEN Len(each) ELSE room
  <2> HIDE DEF room
  <2>1. QED
    BY <1>7, <1>8, TakeIsList
<1>10. Len(added) <= room
  <2>1. Len(each) \in Nat
    BY <1>7, ListShape
  <2> HIDE DEF added, room
  <2>2. QED
    BY <1>8, <1>9, <2>1
<1>11. NewPins(pool, sources) = added
  BY <1>6 DEF NewPins
<1>12. Values(added) \cap Values(pool) = {}
  BY <1>3, <1>5, <1>7, <1>9
<1> HIDE DEF added
<1>13. QED
  BY <1>9, <1>10, <1>11, <1>12 DEF PinsOf

\* Every pin is one of a request, which has pinned PinLimit passages at most; a turn with
\* room in its pool has all its request's pins in it.
Shares(share, V) == {p \in Request \X V : p[2] \in share[p[1]]}

PoolShared ==
  \E share \in [Request -> SUBSET Values(pins)] :
    /\ Len(pins) <= Cardinality(Shares(share, Values(pins)))
    /\ \A r \in Request :
         /\ Cardinality(share[r]) <= PinLimit
         /\ req[r].phase = "prepared" /\ Len(req[r].pool) < PinLimit =>
              share[r] \subseteq Values(req[r].pool)

PoolsTyped ==
  /\ ReqFun /\ Listed(pins)
  /\ \A r \in Request :
       req[r].phase = "prepared" => Listed(req[r].pool) /\ Len(req[r].pool) <= PinLimit

PoolInvariant == PoolsTyped /\ PoolShared

\* A share numbers its passages from 1, so there are at most PinLimit for each request.
LEMMA SharesBounded ==
  ASSUME NEW V, IsFiniteSet(V), NEW share \in [Request -> SUBSET V],
         \A r \in Request : Cardinality(share[r]) <= PinLimit
  PROVE  /\ IsFiniteSet(Shares(share, V))
         /\ Cardinality(Shares(share, V)) <= Cardinality(Request) * PinLimit
<1> DEFINE S == Shares(share, V)
           Slots(r) == {g \in [share[r] -> 1 .. PinLimit] :
                          \A x, y \in share[r] : g[x] = g[y] => x = y}
           slot == [r \in Request |-> CHOOSE g \in Slots(r) : TRUE]
           f == [p \in S |-> <<p[1], slot[p[1]][p[2]]>>]
<1>1. \A r \in Request : Slots(r) # {}
  <2> SUFFICES ASSUME NEW r \in Request PROVE \E g : g \in Slots(r)
    OBVIOUS
  <2>1. IsFiniteSet(share[r]) /\ Cardinality(share[r]) \in Nat
    BY FS_Subset, FS_CardinalityType
  <2>2. PICK n \in Nat : n = Cardinality(share[r]) /\ n <= PinLimit
    BY <2>1
  <2>3. IsFiniteSet(1 .. n) /\ Cardinality(1 .. n) = n
    BY FS_Interval
  <2>4. ExistsBijection(share[r], 1 .. n)
    BY <2>1, <2>2, <2>3, FS_SameCardinalityBij
  <2>5. PICK g \in [share[r] -> 1 .. n] : \A x, y \in share[r] : g[x] = g[y] => x = y
    BY <2>4 DEF ExistsBijection, Bijection, Injection, IsInjective
  <2>6. 1 .. n \subseteq 1 .. PinLimit
    BY <2>2, ChatAssumption
  <2>7. g \in [share[r] -> 1 .. PinLimit]
    BY <2>5, <2>6
  <2>8. QED
    BY <2>5, <2>7
<1>2. \A r \in Request : slot[r] \in Slots(r)
  BY <1>1
<1>3. \A r \in Request : /\ slot[r] \in [share[r] -> 1 .. PinLimit]
                         /\ \A x, y \in share[r] : slot[r][x] = slot[r][y] => x = y
  BY <1>2
<1>4. \A p \in S : p = <<p[1], p[2]>> /\ p[1] \in Request /\ p[2] \in share[p[1]]
  BY DEF Shares
<1> HIDE DEF S, slot, Slots
<1>5. f \in [S -> Request \X (1 .. PinLimit)]
  BY <1>3, <1>4
<1>6. ASSUME NEW p \in S, NEW o \in S, f[p] = f[o] PROVE p = o
  <2>1. p[1] = o[1] /\ slot[p[1]][p[2]] = slot[o[1]][o[2]]
    BY <1>6
  <2>2. p[2] = o[2]
    BY <1>3, <1>4, <2>1
  <2>3. QED
    BY <1>4, <2>1, <2>2
<1> HIDE DEF f
<1>7. f \in Injection(S, Request \X (1 .. PinLimit))
  BY <1>5, <1>6 DEF Injection, IsInjective
<1>8. IsFiniteSet(1 .. PinLimit) /\ Cardinality(1 .. PinLimit) = PinLimit
  <2>1. PICK n \in Nat : n = PinLimit
    BY ChatAssumption
  <2>2. IsFiniteSet(1 .. n) /\ Cardinality(1 .. n) = n
    BY FS_Interval
  <2>3. QED
    BY <2>1, <2>2
<1>9. /\ IsFiniteSet(Request \X (1 .. PinLimit))
      /\ Cardinality(Request \X (1 .. PinLimit)) = Cardinality(Request) * PinLimit
  BY <1>8, FS_Product, ChatAssumption
<1>10. IsFiniteSet(S) /\ Cardinality(S) <= Cardinality(Request \X (1 .. PinLimit))
  BY <1>7, <1>9, FS_Injection
<1>11. QED
  BY <1>9, <1>10 DEF S

LEMMA PoolBounded ==
  ASSUME PoolInvariant
  PROVE  PoolOvershoot
<1>1. PICK share \in [Request -> SUBSET Values(pins)] :
        /\ Len(pins) <= Cardinality(Shares(share, Values(pins)))
        /\ \A r \in Request : Cardinality(share[r]) <= PinLimit
  BY DEF PoolInvariant, PoolShared
<1>2. IsFiniteSet(Values(pins)) /\ Len(pins) \in Nat
  BY HowManyValues, ListShape DEF PoolInvariant, PoolsTyped
<1>3. /\ IsFiniteSet(Shares(share, Values(pins)))
      /\ Cardinality(Shares(share, Values(pins))) <= Cardinality(Request) * PinLimit
  BY <1>1, <1>2, SharesBounded
<1>4. Cardinality(Shares(share, Values(pins))) \in Nat
  BY <1>3, FS_CardinalityType
<1>5. PICK n \in Nat : n = Cardinality(Request)
  BY FlightCount
<1>6. n <= PinWindow => n * PinLimit = PinLimit * n
  <2>1. SUFFICES ASSUME n \in 0 .. 3 PROVE n * PinLimit = PinLimit * n
    BY DEF PinWindow
  <2>2. n = 0 \/ n = 1 \/ n = 2 \/ n = 3
    BY <2>1
  <2>3. QED
    BY <2>2, ChatAssumption
<1>7. ASSUME n <= PinWindow PROVE Len(pins) <= PinLimit * n
  <2> DEFINE product == PinLimit * n
             shares == Cardinality(Shares(share, Values(pins)))
  <2>1. n \in 0 .. 3
    BY <1>7 DEF PinWindow
  <2>2. n = 0 \/ n = 1 \/ n = 2 \/ n = 3
    BY <2>1
  <2>3. product \in Nat
    BY <2>2, ChatAssumption
  <2>4. Len(pins) <= shares /\ shares <= product /\ shares \in Nat
    BY <1>1, <1>3, <1>4, <1>5, <1>6, <1>7
  <2> HIDE DEF product, shares
  <2>5. Len(pins) <= product
    BY <1>2, <2>3, <2>4
  <2>6. QED
    BY <2>5 DEF product
<1>8. QED
  BY <1>5, <1>7 DEF PoolOvershoot

LEMMA PoolInit == Init => PoolInvariant
<1>1. SUFFICES ASSUME Init PROVE PoolInvariant
  OBVIOUS
<1>2. pins = <<>> /\ req = [r \in Request |-> Idle]
  BY <1>1 DEF Init
<1>3. DOMAIN pins = 1 .. 0 /\ pins = [i \in 1 .. 0 |-> pins[i]]
  BY <1>2
<1>4. Listed(pins) /\ Len(pins) = 0
  BY <1>3, FunctionIsList
<1>5. Values(pins) = {}
  BY <1>3 DEF Values
<1>6. \A r \in Request : req[r].phase # "prepared"
  BY <1>2 DEF Idle
<1>7. PoolsTyped
  BY <1>2, <1>4, <1>6 DEF PoolsTyped, ReqFun
<1> DEFINE share == [r \in Request |-> {}]
<1>8. share \in [Request -> SUBSET Values(pins)]
  OBVIOUS
<1>9. Shares(share, Values(pins)) = {}
  BY DEF Shares
<1>10. \A r \in Request : share[r] = {}
  OBVIOUS
<1>11. Cardinality({}) = 0
  BY FS_EmptySet
<1> HIDE DEF share
<1>12. /\ Len(pins) <= Cardinality(Shares(share, Values(pins)))
       /\ \A r \in Request : Cardinality(share[r]) <= PinLimit
  <2>1. Cardinality(Shares(share, Values(pins))) = 0
    BY <1>9, <1>11
  <2>2. Len(pins) <= Cardinality(Shares(share, Values(pins)))
    BY <1>4, <2>1
  <2>3. \A r \in Request : Cardinality(share[r]) = 0
    BY <1>10, <1>11
  <2>4. \A r \in Request : Cardinality(share[r]) <= PinLimit
    BY <2>3, ChatAssumption
  <2>5. QED
    BY <2>2, <2>4
<1>13. PoolShared
  BY <1>6, <1>8, <1>12 DEF PoolShared
<1>14. QED
  BY <1>7, <1>13 DEF PoolInvariant

\* A step that pins nothing and prepares no turn.
LEMMA PoolKept ==
  ASSUME PoolInvariant, pins' = pins, ReqFun',
         \A r \in Request : req'[r].phase = "prepared" => req'[r] = req[r]
  PROVE  PoolInvariant'
<1>1. PoolsTyped'
  BY DEF PoolInvariant, PoolsTyped
<1>2. PICK share \in [Request -> SUBSET Values(pins)] :
        /\ Len(pins) <= Cardinality(Shares(share, Values(pins)))
        /\ \A r \in Request :
             /\ Cardinality(share[r]) <= PinLimit
             /\ req[r].phase = "prepared" /\ Len(req[r].pool) < PinLimit =>
                  share[r] \subseteq Values(req[r].pool)
  BY DEF PoolInvariant, PoolShared
<1>3. \A r \in Request :
        req'[r].phase = "prepared" /\ Len(req'[r].pool) < PinLimit =>
          share[r] \subseteq Values(req'[r].pool)
  BY <1>2
<1>4. PoolShared'
  BY <1>2, <1>3 DEF PoolShared
<1>5. QED
  BY <1>1, <1>4 DEF PoolInvariant

\* A request that begins, or ends without an answer.
LEMMA PoolUnprepared ==
  ASSUME PoolInvariant, NEW r \in Request, NEW new, new.phase # "prepared",
         req' = [req EXCEPT ![r] = new], pins' = pins
  PROVE  PoolInvariant'
<1>1. ReqFun' /\ \A s \in Request : req'[s] = IF s = r THEN new ELSE req[s]
  BY DEF PoolInvariant, PoolsTyped, ReqFun
<1>2. QED
  BY <1>1, PoolKept

\* A turn is prepared: with room in its pool it is given every pin, its own among them.
LEMMA PoolPrepare ==
  ASSUME PoolInvariant, Cardinality(Request) <= PinWindow,
         NEW r \in Request, NEW hits, Prepare(r, hits)
  PROVE  PoolInvariant'
<1> DEFINE new == [phase |-> "prepared", conv |-> req[r].conv,
                   pool |-> Pool, supplied |-> Pool \o hits]
<1>1. req' = [req EXCEPT ![r] = new] /\ pins' = pins
  BY DEF Prepare
<1>2. new.phase = "prepared" /\ new.pool = Pool
  OBVIOUS
<1> HIDE DEF new
<1>3. ReqFun' /\ \A s \in Request : req'[s] = IF s = r THEN new ELSE req[s]
  BY <1>1 DEF PoolInvariant, PoolsTyped, ReqFun
<1>4. Len(pins) <= PinLimit * PinWindow
  <2>1. PICK n \in Nat : n = Cardinality(Request)
    BY FlightCount
  <2>2. Len(pins) <= PinLimit * n /\ n <= 3
    BY <2>1, PoolBounded DEF PoolOvershoot, PinWindow
  <2>3. n = 0 \/ n = 1 \/ n = 2 \/ n = 3
    BY <2>2
  <2>4. PinLimit \in Nat /\ Len(pins) \in Nat
    BY ListShape, ChatAssumption DEF PoolInvariant, PoolsTyped
  <2>5. Len(pins) <= PinLimit * 3
    BY <2>2, <2>3, <2>4
  <2>6. QED
    BY <2>5 DEF PinWindow
<1>5. PoolOf(Pool, pins)
  BY PoolIs DEF PoolInvariant, PoolsTyped
<1>6. Listed(Pool) /\ Len(Pool) <= PinLimit /\ (Len(Pool) < PinLimit => Values(Pool) = Values(pins))
  BY <1>4, <1>5 DEF PoolOf
<1>7. PICK pool : pool = Pool
  OBVIOUS
<1>8. \A s \in Request :
        req'[s].phase = "prepared" => Listed(req'[s].pool) /\ Len(req'[s].pool) <= PinLimit
  BY <1>2, <1>3, <1>6 DEF PoolInvariant, PoolsTyped
<1>9. PoolsTyped'
  BY <1>1, <1>3, <1>8 DEF PoolInvariant, PoolsTyped
<1>10. PICK share \in [Request -> SUBSET Values(pins)] :
        /\ Len(pins) <= Cardinality(Shares(share, Values(pins)))
        /\ \A s \in Request :
             /\ Cardinality(share[s]) <= PinLimit
             /\ req[s].phase = "prepared" /\ Len(req[s].pool) < PinLimit =>
                  share[s] \subseteq Values(req[s].pool)
  BY DEF PoolInvariant, PoolShared
<1>11. ASSUME NEW s \in Request, req'[s].phase = "prepared", Len(req'[s].pool) < PinLimit
       PROVE  share[s] \subseteq Values(req'[s].pool)
  <2>1. CASE s = r
    <3>1. req'[s].pool = pool
      BY <1>2, <1>3, <1>7, <2>1
    <3>2. Values(pool) = Values(pins)
      BY <1>6, <1>7, <1>11, <3>1
    <3>3. share[s] \subseteq Values(pins)
      BY <1>10
    <3>4. QED
      BY <3>1, <3>2, <3>3
  <2>2. CASE s # r
    BY <1>3, <1>10, <1>11, <2>2
  <2>3. QED
    BY <2>1, <2>2
<1>12. PoolShared'
  BY <1>1, <1>10, <1>11 DEF PoolShared
<1>13. QED
  BY <1>9, <1>12 DEF PoolInvariant

GrownBy(share, grown, V, r, added) ==
  /\ grown \in [Request -> SUBSET (V \cup Values(added))]
  /\ \A s \in Request : s # r => grown[s] = share[s]
  /\ \A s \in Request : Cardinality(grown[s]) <= PinLimit
  /\ Cardinality(Shares(grown, V \cup Values(added))) =
       Cardinality(Shares(share, V)) + Len(added)

\* What a turn pins adds to the share of its request, which still has at most PinLimit.
LEMMA ShareGrows ==
  ASSUME NEW V, IsFiniteSet(V), NEW share \in [Request -> SUBSET V],
         \A s \in Request : Cardinality(share[s]) <= PinLimit,
         NEW r \in Request, NEW pool, Listed(pool), Len(pool) <= PinLimit,
         Len(pool) < PinLimit => share[r] \subseteq Values(pool),
         NEW added, PinsOf(added, pool),
         NEW grown, grown = [share EXCEPT ![r] = @ \cup Values(added)]
  PROVE  GrownBy(share, grown, V, r, added)
<1> DEFINE N == Values(added)
           old == share[r]
           m == Len(added)
           c == Cardinality(old)
           S == Shares(share, V)
<1>1. Listed(added) /\ OneOfEach(added) /\ m <= PinLimit - Len(pool) /\ N \cap Values(pool) = {}
  BY DEF PinsOf
<1>2. IsFiniteSet(N) /\ Cardinality(N) = m /\ m \in Nat
  BY <1>1, HowManyValues, ListShape
<1>3. Len(pool) \in Nat /\ PinLimit \in Nat
  BY ListShape, ChatAssumption
<1>4. IsFiniteSet(old) /\ c \in Nat /\ c <= PinLimit
  BY FS_Subset, FS_CardinalityType
<1>5. grown \in [Request -> SUBSET (V \cup N)] /\ grown[r] = old \cup N
      /\ \A s \in Request : s # r => grown[s] = share[s]
  OBVIOUS
<1>6. old \cap N = {} /\ c + m <= PinLimit
  <2>1. CASE Len(pool) < PinLimit
    <3>1. old \subseteq Values(pool)
      BY <2>1
    <3>2. IsFiniteSet(Values(pool)) /\ Cardinality(Values(pool)) <= Len(pool) /\ Cardinality(Values(pool)) \in Nat
      BY HowManyValues
    <3>3. c <= Cardinality(Values(pool))
      BY <3>1, <3>2, FS_Subset
    <3>4. c <= Len(pool)
      <4> DEFINE v == Cardinality(Values(pool))
      <4> HIDE DEF v, c
      <4>1. v <= Len(pool) /\ c <= v /\ v \in Nat
        BY <3>2, <3>3 DEF v
      <4>2. QED
        BY <1>3, <1>4, <4>1
    <3>5. old \cap N = {}
      BY <1>1, <3>1
    <3> HIDE DEF c, m
    <3>6. c + m <= PinLimit
      BY <1>1, <1>2, <1>3, <1>4, <3>4
    <3>7. QED
      BY <3>5, <3>6
  <2>2. CASE ~(Len(pool) < PinLimit)
    <3>1. m = 0
      <4> HIDE DEF m
      <4>1. QED
        BY <1>1, <1>2, <1>3, <2>2
    <3>2. N = {}
      BY <1>2, <3>1, FS_EmptySet
    <3> HIDE DEF c, m, N
    <3>3. QED
      BY <1>4, <3>1, <3>2
  <2>3. QED
    BY <2>1, <2>2
<1>7. Cardinality(old \cup N) = c + m
  <2>1. Cardinality(old \cup N) = Cardinality(old) + Cardinality(N) - Cardinality(old \cap N)
    BY <1>2, <1>4, FS_Union
  <2>2. Cardinality(old \cap N) = 0
    BY <1>6, FS_EmptySet
  <2> HIDE DEF m, N, old
  <2>3. QED
    BY <1>2, <1>4, <2>1, <2>2
<1>8. ASSUME NEW s \in Request PROVE Cardinality(grown[s]) <= PinLimit
  <2>1. CASE s = r
    BY <1>5, <1>6, <1>7, <2>1
  <2>2. CASE s # r
    BY <1>5, <2>2
  <2>3. QED
    BY <2>1, <2>2
<1> DEFINE new == {r} \X N
<1>9. Shares(grown, V \cup N) = S \cup new /\ S \cap new = {}
  <2>1. \A s \in Request : share[s] \subseteq V
    OBVIOUS
  <2> HIDE DEF N
  <2>2. \A p \in Request \X (V \cup N) :
          p[2] \in grown[p[1]] <=> p[2] \in share[p[1]] \/ (p[1] = r /\ p[2] \in N)
    BY <1>5
  <2>3. S \cap new = {}
    BY <1>6 DEF Shares
  <2>4. Shares(grown, V \cup N) = S \cup new
    BY <2>1, <2>2 DEF Shares
  <2>5. QED
    BY <2>3, <2>4
<1>10. IsFiniteSet(new) /\ Cardinality(new) = m
  <2>1. IsFiniteSet({r}) /\ Cardinality({r}) = 1
    BY FS_Singleton
  <2>2. IsFiniteSet({r} \X N) /\ Cardinality({r} \X N) = Cardinality({r}) * Cardinality(N)
    BY <1>2, <2>1, FS_Product
  <2> HIDE DEF m, N
  <2>3. QED
    BY <1>2, <2>1, <2>2
<1>11. IsFiniteSet(S)
  BY SharesBounded
<1>12. Cardinality(S \cup new) = Cardinality(S) + m
  <2>1. Cardinality(S \cup new) = Cardinality(S) + Cardinality(new) - Cardinality(S \cap new)
    BY <1>10, <1>11, FS_Union
  <2>2. Cardinality(S \cap new) = 0
    BY <1>9, FS_EmptySet
  <2>3. Cardinality(S) \in Nat
    BY <1>11, FS_CardinalityType
  <2> HIDE DEF m, S, new
  <2>4. QED
    BY <1>2, <1>10, <2>1, <2>2, <2>3
<1>13. QED
  BY <1>5, <1>8, <1>9, <1>12 DEF GrownBy

LEMMA PoolCommit ==
  ASSUME PoolInvariant, NEW r \in Request,
         NEW citations, Listed(citations), CommitTurn(r, citations)
  PROVE  PoolInvariant'
<1> DEFINE sources == SourcesCited(req[r].supplied, citations)
           added == NewPins(req[r].pool, sources)
           V == Values(pins)
<1>1. /\ req[r].phase = "prepared"
      /\ pins' = pins \o added
      /\ req' = [req EXCEPT ![r] = Idle]
  BY DEF CommitTurn
<1>2. PICK pool : pool = req[r].pool
  OBVIOUS
<1>3. Listed(pool) /\ Len(pool) <= PinLimit /\ Listed(pins)
  BY <1>1, <1>2 DEF PoolInvariant, PoolsTyped
<1>4. PinsOf(added, pool)
  <2>1. Listed(sources) /\ \A s \in DOMAIN sources : Listed(sources[s].quotes)
    BY SourcesAreListed DEF SourcesOf
  <2> HIDE DEF sources
  <2>2. QED
    BY <1>2, <1>3, <2>1, NewPinsAre
<1>5. PICK new : new = added
  OBVIOUS
<1>6. PinsOf(new, pool) /\ pins' = pins \o new
  BY <1>1, <1>4, <1>5
<1> HIDE DEF added
<1>7. Listed(pins') /\ Len(pins') = Len(pins) + Len(new) /\ Values(pins') = V \cup Values(new)
  BY <1>3, <1>6, ConcatIsList DEF PinsOf
<1>8. ReqFun' /\ \A s \in Request : req'[s] = IF s = r THEN Idle ELSE req[s]
  BY <1>1 DEF PoolInvariant, PoolsTyped, ReqFun
<1>9. PoolsTyped'
  BY <1>7, <1>8 DEF PoolInvariant, PoolsTyped, Idle
<1>10. PICK share \in [Request -> SUBSET V] :
        /\ Len(pins) <= Cardinality(Shares(share, V))
        /\ \A s \in Request :
             /\ Cardinality(share[s]) <= PinLimit
             /\ req[s].phase = "prepared" /\ Len(req[s].pool) < PinLimit =>
                  share[s] \subseteq Values(req[s].pool)
  BY DEF PoolInvariant, PoolShared
<1>11. Len(pool) < PinLimit => share[r] \subseteq Values(pool)
  BY <1>1, <1>2, <1>10
<1>12. PICK grown : grown = [share EXCEPT ![r] = @ \cup Values(new)]
  OBVIOUS
<1>13. IsFiniteSet(V) /\ \A s \in Request : Cardinality(share[s]) <= PinLimit
  BY <1>3, <1>10, HowManyValues
<1> HIDE DEF V
<1>14. GrownBy(share, grown, V, r, new)
  BY <1>3, <1>6, <1>11, <1>12, <1>13, ShareGrows
<1>15. /\ grown \in [Request -> SUBSET (V \cup Values(new))]
       /\ \A s \in Request : s # r => grown[s] = share[s]
       /\ \A s \in Request : Cardinality(grown[s]) <= PinLimit
       /\ Cardinality(Shares(grown, V \cup Values(new))) = Cardinality(Shares(share, V)) + Len(new)
  BY <1>14 DEF GrownBy
<1>16. Len(pins') <= Cardinality(Shares(grown, Values(pins')))
  <2> DEFINE before == Cardinality(Shares(share, V))
             after == Cardinality(Shares(grown, V \cup Values(new)))
  <2>1. before \in Nat
    BY <1>10, <1>13, SharesBounded, FS_CardinalityType
  <2>2. Len(pins) \in Nat /\ Len(new) \in Nat
    BY <1>3, <1>6, ListShape DEF PinsOf
  <2>3. Len(pins) <= before /\ after = before + Len(new)
    BY <1>10, <1>15
  <2> HIDE DEF before, after
  <2>4. Len(pins) + Len(new) <= after
    BY <2>1, <2>2, <2>3
  <2>5. QED
    BY <1>7, <2>4 DEF after
<1>17. \A s \in Request : req'[s].phase = "prepared" /\ Len(req'[s].pool) < PinLimit =>
                            grown[s] \subseteq Values(req'[s].pool)
  <2> SUFFICES ASSUME NEW s \in Request, req'[s].phase = "prepared", Len(req'[s].pool) < PinLimit
               PROVE  grown[s] \subseteq Values(req'[s].pool)
    OBVIOUS
  <2>1. s # r
    BY <1>8 DEF Idle
  <2>2. req'[s] = req[s] /\ grown[s] = share[s]
    BY <1>8, <1>15, <2>1
  <2>3. QED
    BY <1>10, <2>2
<1>18. grown \in [Request -> SUBSET Values(pins')]
  BY <1>7, <1>15
<1>19. PoolShared'
  BY <1>15, <1>16, <1>17, <1>18 DEF PoolShared, V
<1>20. QED
  BY <1>9, <1>19 DEF PoolInvariant

LEMMA PoolStep ==
  ASSUME Cardinality(Request) <= PinWindow
  PROVE  PoolInvariant /\ [Next]_vars => PoolInvariant'
<1>1. SUFFICES ASSUME PoolInvariant, [Next]_vars PROVE PoolInvariant'
  OBVIOUS
<1>2. ASSUME pins' = pins, req' = req PROVE PoolInvariant'
  <2>1. ReqFun'
    BY <1>1, <1>2 DEF PoolInvariant, PoolsTyped, ReqFun
  <2>2. QED
    BY <1>1, <1>2, <2>1, PoolKept
<1>3. ASSUME NEW r \in Request, NEW c, Admit(r, c) PROVE PoolInvariant'
  <2>1. [phase |-> "admitted", conv |-> c].phase # "prepared"
    OBVIOUS
  <2>2. QED
    BY <1>1, <1>3, <2>1, PoolUnprepared DEF Admit
<1>4. ASSUME NEW r \in Request, RefuseConversation(r) \/ FailTurn(r) PROVE PoolInvariant'
  <2>1. Idle.phase # "prepared"
    BY DEF Idle
  <2>2. QED
    BY <1>1, <1>4, <2>1, PoolUnprepared DEF RefuseConversation, FailTurn
<1>5. ASSUME NEW r \in Request, NEW hits, Prepare(r, hits) PROVE PoolInvariant'
  BY <1>1, <1>5, PoolPrepare
<1>6. ASSUME NEW r \in Request,
             NEW citations \in Citations(Len(req[r].supplied)), CommitTurn(r, citations)
      PROVE  PoolInvariant'
  BY <1>1, <1>6, CitationsAreLists, PoolCommit
<1>7. ASSUME NEW answer \in LibraryAnswers, AskLibrary(answer) PROVE PoolInvariant'
  BY <1>2, <1>7 DEF AskLibrary
<1>8. CASE Midnight \/ Quiet \/ UNCHANGED vars \/ \E c \in Conversation : ArchiveConversation(c)
  BY <1>2, <1>8 DEF Midnight, Quiet, vars, ArchiveConversation
<1>9. QED
  BY <1>1, <1>3, <1>4, <1>5, <1>6, <1>7, <1>8 DEF Next

\* However requests overlap, neither limit is overshot by more than their number accounts
\* for: the questions of the day, and, as long as PinWindow requests at most can be in
\* flight, the pins (knowledge_chat.py reads both before the answer and stores after it).
THEOREM LimitsOvershotByFew == Spec => []OvershootBounded
<1> DEFINE Fits == Cardinality(Request) <= PinWindow => PoolInvariant
<1>1. Init => IInv /\ Fits
  BY DailyInit, PoolInit
<1>2. Fits /\ [Next]_vars => Fits'
  BY PoolStep
<1>3. IInv /\ Fits => OvershootBounded
  BY PoolBounded DEF IInv, OvershootBounded, PoolOvershoot
<1> HIDE DEF Fits
<1>4. QED
  BY <1>1, <1>2, <1>3, DailyStep, PTL DEF Spec
=============================================================================
