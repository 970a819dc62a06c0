------------------------------ MODULE ListProofs ------------------------------
(***************************************************************************)
(* What a walk over a list copies.  The provers have no induction, so that *)
(* a statement about all prefixes of a list is proved by looking at the    *)
(* shortest one for which it would be false.                               *)
(***************************************************************************)
EXTENDS Lists, FiniteSets, FiniteSetTheorems, SequenceTheorems, WellFoundedInduction, TLAPS

(* Every nonempty set of natural numbers has a least element.              *)
LEMMA LeastNat ==
  ASSUME NEW T \in SUBSET Nat, T # {}
  PROVE  \E n \in T : \A m \in T : n <= m
<1> DEFINE R == OpToRel(<, Nat)
<1>1. IsWellFoundedOn(R, Nat)
  BY NatLessThanWellFounded
<1>2. \A m, n \in Nat : m < n => <<m, n>> \in R
  BY DEF OpToRel
<1> HIDE DEF R
<1>3. \E n \in T : \A m \in T : ~(<<m, n>> \in R)
  BY <1>1, WFMin
<1>4. PICK n \in T : \A m \in T : ~(<<m, n>> \in R)
  BY <1>3
<1>5. ASSUME NEW m \in T PROVE n <= m
  <2>1. m \in Nat /\ n \in Nat OBVIOUS
  <2>2. ~(m < n) BY <1>2, <1>4, <2>1
  <2> QED BY <2>1, <2>2
<1> QED BY <1>5

(* What a walk has copied after n elements.                                *)
WalkStep(f, list, T, n) ==
  IF n = 0 THEN << >> ELSE IF list[n] \in T THEN Append(f[n - 1], list[n]) ELSE f[n - 1]

(* The recursive function that Kept defines exists.                        *)
LEMMA WalkExists ==
  ASSUME NEW S, NEW list \in Seq(S), NEW T
  PROVE  \E f : f = [n \in 0..Len(list) |-> WalkStep(f, list, T, n)]
<1> DEFINE Walk(f, n) == f \in [0..n -> Seq(S)] /\ \A m \in 0..n : f[m] = WalkStep(f, list, T, m)
           Without == {n \in 0..Len(list) : ~ \E f : Walk(f, n)}
<1>0. Len(list) \in Nat /\ \A n \in 1..Len(list) : list[n] \in S
  BY LenProperties, ElementOfSeq
<1>1. Without = {}
  <2> SUFFICES ASSUME Without # {} PROVE FALSE
    OBVIOUS
  <2>1. PICK n \in Without : \A m \in Without : n <= m
    <3>1. Without \in SUBSET Nat BY <1>0
    <3> HIDE DEF Without
    <3> QED BY <3>1, LeastNat
  <2>2. CASE n = 0
    <3>1. Walk([m \in 0..0 |-> << >>], 0)
      BY DEF WalkStep
    <3> QED BY <2>1, <2>2, <3>1
  <2>3. CASE n # 0
    <3>1. n - 1 \in 0..Len(list) /\ n \in 1..Len(list) /\ n - 1 < n
      BY <1>0, <2>1, <2>3
    <3>2. PICK f : Walk(f, n - 1)
      <4>1. n - 1 \notin Without
        <5>1. ~(n <= n - 1) BY <3>1, <1>0
        <5> HIDE DEF Without
        <5> QED BY <2>1, <5>1
      <4> QED BY <3>1, <4>1
    <3> DEFINE g == [m \in 0..n |-> IF m = n THEN WalkStep(f, list, T, n) ELSE f[m]]
    <3>3. f[n - 1] \in Seq(S) /\ list[n] \in S
      BY <1>0, <3>1, <3>2
    <3>4. WalkStep(f, list, T, n) \in Seq(S)
      BY <3>1, <3>3, AppendProperties, EmptySeq DEF WalkStep
    <3>5. g \in [0..n -> Seq(S)]
      BY <1>0, <3>1, <3>2, <3>4
    <3>6. \A m \in 0..n : g[m] = WalkStep(g, list, T, m)
      <4> TAKE m \in 0..n
      <4>1. m # 0 => g[m - 1] = f[m - 1]
        BY <1>0, <3>1
      <4>2. g[m] = WalkStep(f, list, T, m)
        BY <1>0, <3>1, <3>2
      <4> QED BY <4>1, <4>2 DEF WalkStep
    <3> HIDE DEF g
    <3>7. Walk(g, n)
      BY <3>5, <3>6
    <3> QED BY <2>1, <3>7
  <2> QED BY <2>2, <2>3
<1>2. PICK f : Walk(f, Len(list))
  <2>1. Len(list) \in 0..Len(list) /\ Len(list) \notin Without
    <3> HIDE DEF Without
    <3> QED BY <1>0, <1>1
  <2> QED BY <2>1
<1>3. f = [n \in 0..Len(list) |-> WalkStep(f, list, T, n)]
  BY <1>2
<1> QED BY <1>3

(* Kept is the last value of that function.                                *)
LEMMA KeptIsWalk ==
  ASSUME NEW S, NEW list \in Seq(S), NEW T
  PROVE  \E f : /\ Kept(list, T) = f[Len(list)]
                /\ \A n \in 0..Len(list) : f[n] = WalkStep(f, list, T, n)
<1> DEFINE f == CHOOSE f : f = [n \in 0..Len(list) |-> WalkStep(f, list, T, n)]
<1>1. f = [n \in 0..Len(list) |-> WalkStep(f, list, T, n)]
  BY WalkExists
<1>2. Kept(list, T) = f[Len(list)]
  BY DEF Kept, WalkStep
<1> HIDE DEF f
<1>3. \A n \in 0..Len(list) : f[n] = WalkStep(f, list, T, n)
  BY <1>1
<1> QED BY <1>2, <1>3

(* What is copied: elements of the list that are in T, each as often as    *)
(* it is in the list.                                                      *)
LEMMA KeptProperties ==
  ASSUME NEW S, NEW list \in Seq(S), NEW T
  PROVE  /\ Kept(list, T) \in Seq(S)
         /\ \A x : (\E k \in 1..Len(Kept(list, T)) : Kept(list, T)[k] = x)
                  <=> x \in T /\ \E k \in 1..Len(list) : list[k] = x
         /\ Distinct(list) => Distinct(Kept(list, T))
<1>0. Len(list) \in Nat /\ \A n \in 1..Len(list) : list[n] \in S
  BY LenProperties, ElementOfSeq
<1>1. PICK f : /\ Kept(list, T) = f[Len(list)]
               /\ \A n \in 0..Len(list) : f[n] = WalkStep(f, list, T, n)
  BY KeptIsWalk
<1> DEFINE Good(n) == /\ f[n] \in Seq(S)
                      /\ \A x : (\E k \in 1..Len(f[n]) : f[n][k] = x)
                               <=> x \in T /\ \E k \in 1..n : list[k] = x
                      /\ Distinct(list) => Distinct(f[n])
           Bad == {n \in 0..Len(list) : ~Good(n)}
<1>2. Good(0)
  <2>1. f[0] = << >>
    BY <1>0, <1>1 DEF WalkStep
  <2> QED BY <2>1, EmptySeq DEF Distinct
<1>3. ASSUME NEW n \in 1..Len(list), Good(n - 1)
      PROVE  Good(n)
  <2>1. n - 1 \in 0..Len(list) /\ n \in 0..Len(list) /\ n # 0
    BY <1>0
  <2>2. f[n - 1] \in Seq(S) /\ Len(f[n - 1]) \in Nat
    BY <1>3, LenProperties
  <2>3. CASE list[n] \notin T
    <3>1. f[n] = f[n - 1]
      BY <1>1, <2>1, <2>3 DEF WalkStep
    <3>2. \A x : (x \in T /\ \E k \in 1..n : list[k] = x)
               <=> (x \in T /\ \E k \in 1..(n - 1) : list[k] = x)
      BY <2>1, <2>3
    <3> QED BY <1>3, <3>1, <3>2
  <2>4. CASE list[n] \in T
    <3> DEFINE before == f[n - 1]
    <3>1. f[n] = Append(before, list[n])
      BY <1>1, <2>1, <2>4 DEF WalkStep
    <3>2. /\ Append(before, list[n]) \in Seq(S)
          /\ Len(Append(before, list[n])) = Len(before) + 1
          /\ \A k \in 1..Len(before) : Append(before, list[n])[k] = before[k]
          /\ Append(before, list[n])[Len(before) + 1] = list[n]
      BY <1>0, <2>2, AppendProperties
    <3>3. ASSUME NEW x
          PROVE  (\E k \in 1..Len(f[n]) : f[n][k] = x) <=> x \in T /\ \E k \in 1..n : list[k] = x
      <4>1. (\E k \in 1..Len(f[n]) : f[n][k] = x)
              <=> (x = list[n] \/ \E k \in 1..Len(before) : before[k] = x)
        BY <2>2, <3>1, <3>2
      <4>2. (\E k \in 1..n : list[k] = x) <=> (x = list[n] \/ \E k \in 1..(n - 1) : list[k] = x)
        BY <2>1
      <4> QED BY <1>3, <2>4, <4>1, <4>2
    <3>4. ASSUME Distinct(list), NEW j \in 1..Len(f[n]), NEW k \in 1..Len(f[n]), f[n][j] = f[n][k]
          PROVE  j = k
      <4>1. \A m \in 1..Len(before) : before[m] # list[n]
        <5>1. \A m \in 1..(n - 1) : list[m] # list[n]
          BY <2>1, <3>4, SMTT(40) DEF Distinct
        <5> QED BY <1>3, <5>1
      <4>2. \A l, m \in 1..Len(before) : before[l] = before[m] => l = m
        BY <1>3, <3>4 DEF Distinct
      <4>3. \A m \in 1..Len(f[n]) : \/ m \in 1..Len(before) /\ f[n][m] = before[m]
                                    \/ m = Len(before) + 1 /\ f[n][m] = list[n]
        BY <2>2, <3>1, <3>2
      <4> HIDE DEF before
      <4> QED BY <3>4, <4>1, <4>2, <4>3
    <3>5. f[n] \in Seq(S)
      BY <3>1, <3>2
    <3>6. \A x : (\E k \in 1..Len(f[n]) : f[n][k] = x) <=> x \in T /\ \E k \in 1..n : list[k] = x
      BY <3>3
    <3>7. Distinct(list) => Distinct(f[n])
      BY <3>4 DEF Distinct
    <3> QED BY <3>5, <3>6, <3>7
  <2> QED BY <2>3, <2>4
<1>4. Bad = {}
  <2> SUFFICES ASSUME Bad # {} PROVE FALSE
    OBVIOUS
  <2>1. PICK n \in Bad : \A m \in Bad : n <= m
    <3>1. Bad \in SUBSET Nat BY <1>0
    <3> HIDE DEF Bad
    <3> QED BY <3>1, LeastNat
  <2>2. n \in 0..Len(list) /\ ~Good(n)
    OBVIOUS
  <2> HIDE DEF Good
  <2>3. n # 0
    BY <1>2, <2>2
  <2>4. n \in 1..Len(list) /\ n - 1 \in 0..Len(list) /\ ~(n <= n - 1)
    BY <1>0, <2>2, <2>3
  <2>5. Good(n - 1)
    BY <2>1, <2>4
  <2> QED BY <1>3, <2>2, <2>4, <2>5
<1>5. Good(Len(list))
  <2>1. Len(list) \in 0..Len(list) BY <1>0
  <2> HIDE DEF Good
  <2> QED BY <1>4, <2>1
<1> QED BY <1>1, <1>5
(* How a bound on the size of a set goes on to another set.                *)
LEMMA Counting ==
  ASSUME NEW S, IsFiniteSet(S), NEW A \in SUBSET S, NEW B \in SUBSET S, NEW c \in S,
         NEW n \in Int, Cardinality(A) <= n
  PROVE  /\ B \subseteq A => Cardinality(B) <= n
         /\ B \subseteq A \cup {c} => Cardinality(B) <= n + 1
         /\ c \in A /\ B \subseteq A \ {c} => Cardinality(B) <= n - 1
         /\ c \in A => n > 0
         /\ c \in A /\ n = 1 => A = {c}
<1>1. IsFiniteSet(A) /\ IsFiniteSet(B) /\ IsFiniteSet(A \cup {c}) /\ IsFiniteSet(A \ {c})
  <2>1. A \cup {c} \in SUBSET S /\ A \ {c} \in SUBSET S
    OBVIOUS
  <2> QED
    BY <2>1, FS_Subset
<1>2. Cardinality(A) \in Nat /\ Cardinality(B) \in Nat
  BY <1>1, FS_CardinalityType
<1>3. B \subseteq A => Cardinality(B) <= n
  BY <1>1, <1>2, FS_Subset
<1>4. B \subseteq A \cup {c} => Cardinality(B) <= n + 1
  <2>1. Cardinality(A \cup {c}) <= Cardinality(A) + 1
    BY <1>1, <1>2, FS_AddElement
  <2>2. B \subseteq A \cup {c} => Cardinality(B) <= Cardinality(A \cup {c})
    BY <1>1, FS_Subset
  <2>3. Cardinality(A \cup {c}) \in Nat
    BY <1>1, FS_CardinalityType
  <2> QED
    BY <1>2, <2>1, <2>2, <2>3
<1>5. c \in A => Cardinality(A \ {c}) = Cardinality(A) - 1
  BY <1>1, FS_RemoveElement
<1>6. Cardinality(A \ {c}) \in Nat
  BY <1>1, FS_CardinalityType
<1>7. c \in A /\ B \subseteq A \ {c} => Cardinality(B) <= n - 1
  <2>1. B \subseteq A \ {c} => Cardinality(B) <= Cardinality(A \ {c})
    BY <1>1, FS_Subset
  <2> QED
    BY <1>2, <1>5, <1>6, <2>1
<1>8. c \in A => n > 0
  BY <1>2, <1>5, <1>6
<1>9. c \in A /\ n = 1 => A = {c}
  <2>1. c \in A /\ n = 1 => Cardinality(A \ {c}) = 0
    BY <1>2, <1>5, <1>6
  <2>2. Cardinality(A \ {c}) = 0 => A \ {c} = {}
    BY <1>1, FS_EmptySet
  <2> QED
    BY <2>1, <2>2
<1> QED
  BY <1>3, <1>4, <1>7, <1>8, <1>9

==============================================================================
