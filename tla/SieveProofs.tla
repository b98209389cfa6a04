----------------------------- MODULE SieveProofs -----------------------------
(***************************************************************************)
(* What Sifted leaves of an array.  It is defined by going through the     *)
(* array, so that each lemma follows its function from index to index.     *)
(***************************************************************************)
EXTENDS Sieve, SequenceTheorems, WellFoundedInduction, TLAPS

\* A set of numbers that holds 0, and k where it holds k - 1, holds all up to n.
LEMMA UpTo ==
  ASSUME NEW n \in Nat, NEW S, 0 \in S, \A k \in 1..n : k - 1 \in S => k \in S
  PROVE  \A k \in 0..n : k \in S
<1> DEFINE R == {p \in Nat \X Nat : p[1] < p[2]}
           Bad == {k \in 0..n : k \notin S}
<1> SUFFICES ASSUME Bad # {} PROVE FALSE
  OBVIOUS
<1>1. IsWellFoundedOn(R, Nat)
  BY NatLessThanWellFounded, Zenon DEF OpToRel
<1>2. PICK k \in Bad : \A j \in Bad : <<j, k>> \notin R
  <2>1. Bad \in SUBSET Nat
    OBVIOUS
  <2> HIDE DEF R, Bad
  <2> QED
    BY <1>1, <2>1, WFMin
<1>3. k \in 1..n /\ k - 1 \in 0..n /\ <<k - 1, k>> \in R
  OBVIOUS
<1>4. k - 1 \in S
  BY <1>2, <1>3
<1> QED
  BY <1>2, <1>3, <1>4

\* f tells what is left of s up to every index.
Sifts(f, s, T) ==
  f = [k \in 0..Len(s) |-> IF k = 0 THEN <<>> ELSE IF s[k] \in T THEN Append(f[k - 1], s[k]) ELSE f[k - 1]]

\* There is such a function.
LEMMA SiftsExists ==
  ASSUME NEW S, NEW s \in Seq(S), NEW T
  PROVE  \E f : Sifts(f, s, T)
<1> DEFINE Up(f, n) == /\ f = [k \in 0..n |-> f[k]] /\ f[0] = <<>>
                       /\ \A k \in 1..n : f[k] = IF s[k] \in T THEN Append(f[k - 1], s[k]) ELSE f[k - 1]
           Done == {n \in 0..Len(s) : \E f : Up(f, n)}
<1>1. Len(s) \in Nat
  OBVIOUS
<1>2. 0 \in Done
  <2> DEFINE f == [k \in 0..0 |-> <<>>]
  <2>1. Up(f, 0)
    OBVIOUS
  <2> HIDE DEF Up
  <2> QED
    BY <1>1, <2>1
<1>3. ASSUME NEW n \in 1..Len(s), n - 1 \in Done  PROVE n \in Done
  <2>1. PICK g : Up(g, n - 1)
    BY <1>3
  <2> DEFINE f == [k \in 0..n |-> IF k = n THEN (IF s[n] \in T THEN Append(g[n - 1], s[n]) ELSE g[n - 1]) ELSE g[k]]
  <2>2. n \in Nat \ {0} /\ n - 1 \in Nat /\ n - 1 \in 0..n /\ 0 \in 0..n /\ n \in 0..n
    OBVIOUS
  <2>3. \A k \in 0..(n - 1) : f[k] = g[k]
    BY <2>2
  <2>4. f[n] = IF s[n] \in T THEN Append(g[n - 1], s[n]) ELSE g[n - 1]
    BY <2>2
  <2>5. f = [k \in 0..n |-> f[k]]
    OBVIOUS
  <2> HIDE DEF f
  <2>6. f[0] = <<>>
    BY <2>1, <2>2, <2>3
  <2>7. ASSUME NEW k \in 1..n  PROVE f[k] = IF s[k] \in T THEN Append(f[k - 1], s[k]) ELSE f[k - 1]
    <3>1. k - 1 \in 0..(n - 1) /\ f[k - 1] = g[k - 1]
      BY <2>2, <2>3
    <3>2. CASE k = n
      BY <2>4, <3>1, <3>2
    <3>3. CASE k # n
      <4>1. k \in 1..(n - 1) /\ k \in 0..(n - 1)
        BY <3>3
      <4> QED
        BY <2>1, <2>3, <3>1, <4>1
    <3> QED
      BY <3>2, <3>3
  <2>8. Up(f, n)
    BY <2>5, <2>6, <2>7
  <2> HIDE DEF Up
  <2> QED
    BY <2>8
<1> HIDE DEF Done
<1>4. Len(s) \in Done
  <2>1. \A k \in 1..Len(s) : k - 1 \in Done => k \in Done
    BY <1>3
  <2> DEFINE m == Len(s)
  <2>2. m \in Nat /\ m \in 0..m /\ \A k \in 1..m : k - 1 \in Done => k \in Done
    BY <1>1, <2>1
  <2> HIDE DEF m
  <2>3. \A k \in 0..m : k \in Done
    BY <1>2, <2>2, UpTo
  <2> QED
    BY <2>2, <2>3 DEF m
<1>5. PICK f : Up(f, Len(s))
  BY <1>4 DEF Done
<1>6. \A k \in 0..Len(s) : f[k] = IF k = 0 THEN <<>> ELSE IF s[k] \in T THEN Append(f[k - 1], s[k]) ELSE f[k - 1]
  <2>1. f[0] = <<>> /\ \A k \in 1..Len(s) : f[k] = IF s[k] \in T THEN Append(f[k - 1], s[k]) ELSE f[k - 1]
    BY <1>5
  <2>2. \A k \in 0..Len(s) : k # 0 => k \in 1..Len(s)
    BY <1>1
  <2> QED
    BY <2>1, <2>2
<1>7. f = [k \in 0..Len(s) |-> IF k = 0 THEN <<>> ELSE IF s[k] \in T THEN Append(f[k - 1], s[k]) ELSE f[k - 1]]
  BY <1>5, <1>6
<1> QED
  BY <1>7 DEF Sifts

\* Sifted goes through the array, member by member.
LEMMA SiftedSteps ==
  ASSUME NEW S, NEW s \in Seq(S), NEW T
  PROVE  \E f : /\ Sifted(s, T) = f[Len(s)] /\ Len(s) \in Nat /\ f[0] = <<>>
                /\ \A k \in 1..Len(s) : f[k] = IF s[k] \in T THEN Append(f[k - 1], s[k]) ELSE f[k - 1]
<1> DEFINE f == CHOOSE g : Sifts(g, s, T)
<1>1. Sifts(f, s, T)
  BY SiftsExists
<1>2. Sifted(s, T) = f[Len(s)]
  BY Zenon DEF Sifted, Sifts
<1> HIDE DEF f
<1>3. Len(s) \in Nat /\ f[0] = <<>>
      /\ \A k \in 1..Len(s) : f[k] = IF s[k] \in T THEN Append(f[k - 1], s[k]) ELSE f[k - 1]
  <2> DEFINE h == [k \in 0..Len(s) |-> IF k = 0 THEN <<>>
                                       ELSE IF s[k] \in T THEN Append(f[k - 1], s[k]) ELSE f[k - 1]]
  <2>1. f = h
    BY <1>1 DEF Sifts
  <2>2. Len(s) \in Nat
    OBVIOUS
  <2>3. h[0] = <<>>
    BY <2>2
  <2>4. ASSUME NEW k \in 1..Len(s)  PROVE h[k] = IF s[k] \in T THEN Append(f[k - 1], s[k]) ELSE f[k - 1]
    <3>1. k \in 0..Len(s) /\ k # 0
      OBVIOUS
    <3> QED
      BY <3>1
  <2> HIDE DEF h
  <2> QED
    BY <2>1, <2>2, <2>3, <2>4
<1> QED
  BY <1>2, <1>3

\* What is left is in T, nothing else was left out, and nothing is there more often than before.
LEMMA SiftedIs ==
  ASSUME NEW S, NEW s \in Seq(S), NEW T
  PROVE  /\ Sifted(s, T) \in Seq(S)
         /\ \A i \in 1..Len(Sifted(s, T)) : \E j \in 1..Len(s) : Sifted(s, T)[i] = s[j] /\ s[j] \in T
         /\ \A j \in 1..Len(s) : s[j] \in T => \E i \in 1..Len(Sifted(s, T)) : Sifted(s, T)[i] = s[j]
         /\ (\A i, j \in 1..Len(s) : s[i] = s[j] => i = j) =>
              \A i, j \in 1..Len(Sifted(s, T)) : Sifted(s, T)[i] = Sifted(s, T)[j] => i = j
<1>1. PICK f : /\ Sifted(s, T) = f[Len(s)] /\ Len(s) \in Nat /\ f[0] = <<>>
               /\ \A k \in 1..Len(s) : f[k] = IF s[k] \in T THEN Append(f[k - 1], s[k]) ELSE f[k - 1]
  BY SiftedSteps
<1> DEFINE Once == \A i, j \in 1..Len(s) : s[i] = s[j] => i = j
           From(t, k) == \A i \in 1..Len(t) : \E j \in 1..k : t[i] = s[j] /\ s[j] \in T
           All(t, k) == \A j \in 1..k : s[j] \in T => \E i \in 1..Len(t) : t[i] = s[j]
           Distinct(t) == Once => \A i, j \in 1..Len(t) : t[i] = t[j] => i = j
           Right(t, k) == t \in Seq(S) /\ From(t, k) /\ All(t, k) /\ Distinct(t)
           Good == {k \in 0..Len(s) : Right(f[k], k)}
<1>4. Right(<<>>, 0)
  OBVIOUS
<1>5. ASSUME NEW k \in 1..Len(s), NEW t, Right(t, k - 1)
      PROVE  Right(IF s[k] \in T THEN Append(t, s[k]) ELSE t, k)
  <2>1. k \in Nat /\ s[k] \in S /\ Len(t) \in Nat /\ t \in Seq(S)
    BY <1>5
  <2>2. CASE s[k] \notin T
    <3>1. From(t, k)
      BY <1>5, <2>1
    <3>2. All(t, k)
      <4> SUFFICES ASSUME NEW j \in 1..k, s[j] \in T  PROVE \E i \in 1..Len(t) : t[i] = s[j]
        OBVIOUS
      <4>1. j \in 1..(k - 1)
        BY <2>2
      <4> QED
        BY <1>5, <4>1
    <3> QED
      BY <1>5, <2>2, <3>1, <3>2
  <2>3. CASE s[k] \in T
    <3> DEFINE u == Append(t, s[k])
    <3>1. /\ u \in Seq(S) /\ Len(u) = Len(t) + 1 /\ u[Len(t) + 1] = s[k]
          /\ \A i \in 1..Len(t) : u[i] = t[i]
      BY <2>1
    <3> HIDE DEF u
    <3>2. \A i \in 1..Len(u) : i \in 1..Len(t) \/ i = Len(t) + 1
      BY <2>1, <3>1
    <3>3. From(u, k)
      <4> SUFFICES ASSUME NEW i \in 1..Len(u)  PROVE \E j \in 1..k : u[i] = s[j] /\ s[j] \in T
        OBVIOUS
      <4>1. CASE i = Len(t) + 1
        <5>1. k \in 1..k
          BY <2>1
        <5> QED
          BY <2>3, <3>1, <4>1, <5>1
      <4>2. CASE i \in 1..Len(t)
        <5>1. PICK j \in 1..(k - 1) : t[i] = s[j] /\ s[j] \in T
          BY <1>5, <4>2
        <5>2. j \in 1..k
          OBVIOUS
        <5> QED
          BY <3>1, <4>2, <5>1, <5>2
      <4> QED
        BY <3>2, <4>1, <4>2
    <3>4. All(u, k)
      <4> SUFFICES ASSUME NEW j \in 1..k, s[j] \in T  PROVE \E i \in 1..Len(u) : u[i] = s[j]
        OBVIOUS
      <4>1. CASE j = k
        <5>1. Len(t) + 1 \in 1..Len(u)
          BY <2>1, <3>1
        <5> QED
          BY <3>1, <4>1, <5>1
      <4>2. CASE j # k
        <5>1. j \in 1..(k - 1)
          BY <4>2
        <5>2. PICK i \in 1..Len(t) : t[i] = s[j]
          BY <1>5, <5>1
        <5>3. i \in 1..Len(u)
          BY <2>1, <3>1
        <5> QED
          BY <3>1, <5>2, <5>3
      <4> QED
        BY <4>1, <4>2
    <3>5. Distinct(u)
      <4> SUFFICES ASSUME Once, NEW i \in 1..Len(u), NEW j \in 1..Len(u), u[i] = u[j]  PROVE i = j
        OBVIOUS
      <4>1. \A m \in 1..Len(t) : t[m] # s[k]
        <5> SUFFICES ASSUME NEW m \in 1..Len(t), t[m] = s[k]  PROVE FALSE
          OBVIOUS
        <5>1. PICK n \in 1..(k - 1) : t[m] = s[n]
          BY <1>5
        <5>2. n \in 1..Len(s) /\ n # k
          BY <1>1
        <5> QED
          BY <5>1, <5>2
      <4>2. CASE i \in 1..Len(t) /\ j \in 1..Len(t)
        <5>1. t[i] = t[j]
          BY <3>1, <4>2
        <5> QED
          BY <1>5, <4>2, <5>1
      <4>3. CASE i = Len(t) + 1 /\ j = Len(t) + 1
        BY <4>3
      <4>4. CASE i \in 1..Len(t) /\ j = Len(t) + 1
        BY <3>1, <4>1, <4>4
      <4>5. CASE i = Len(t) + 1 /\ j \in 1..Len(t)
        BY <3>1, <4>1, <4>5
      <4> QED
        BY <3>2, <4>2, <4>3, <4>4, <4>5
    <3> HIDE DEF From, All, Distinct
    <3> QED
      BY <2>3, <3>1, <3>3, <3>4, <3>5 DEF u
  <2> QED
    BY <2>2, <2>3
<1> HIDE DEF Right
<1>6. 0 \in Good
  BY <1>1, <1>4
<1>7. \A k \in 1..Len(s) : k - 1 \in Good => k \in Good
  BY <1>1, <1>5
<1> HIDE DEF Good
<1>8. Len(s) \in Good
  <2> DEFINE m == Len(s)
  <2>1. m \in Nat /\ m \in 0..m /\ \A k \in 1..m : k - 1 \in Good => k \in Good
    BY <1>1, <1>7
  <2> HIDE DEF m
  <2>2. \A k \in 0..m : k \in Good
    BY <1>6, <2>1, UpTo
  <2> QED
    BY <2>1, <2>2 DEF m
<1>9. Right(Sifted(s, T), Len(s))
  BY <1>1, <1>8 DEF Good
<1> DEFINE v == Sifted(s, T)
<1> HIDE DEF v
<1>10. Right(v, Len(s))
  BY <1>9 DEF v
<1>11. v \in Seq(S) /\ From(v, Len(s)) /\ All(v, Len(s)) /\ Distinct(v)
  BY <1>10 DEF Right
<1> QED
  BY <1>11 DEF v

\* Nothing is left of an empty array.
LEMMA SiftedEmpty ==
  ASSUME NEW S, NEW s \in Seq(S), NEW T
  PROVE  s = <<>> => Sifted(s, T) = <<>>
<1>1. PICK f : /\ Sifted(s, T) = f[Len(s)] /\ Len(s) \in Nat /\ f[0] = <<>>
               /\ \A k \in 1..Len(s) : f[k] = IF s[k] \in T THEN Append(f[k - 1], s[k]) ELSE f[k - 1]
  BY SiftedSteps
<1>2. s = <<>> => Len(s) = 0
  OBVIOUS
<1> QED
  BY <1>1, <1>2

\* Not more is left than there was, and less where the first member is not wanted.
LEMMA SiftedShort ==
  ASSUME NEW S, NEW s \in Seq(S), NEW T
  PROVE  Len(Sifted(s, T)) <= Len(s) /\ (s # <<>> /\ s[1] \notin T => Len(Sifted(s, T)) <= Len(s) - 1)
<1>1. PICK f : /\ Sifted(s, T) = f[Len(s)] /\ Len(s) \in Nat /\ f[0] = <<>>
               /\ \A k \in 1..Len(s) : f[k] = IF s[k] \in T THEN Append(f[k - 1], s[k]) ELSE f[k - 1]
  BY SiftedSteps
<1> DEFINE n == Len(s)
           Good == {k \in 0..n : /\ f[k] \in Seq(S) /\ Len(f[k]) <= k
                                 /\ k # 0 /\ s[1] \notin T => Len(f[k]) <= k - 1}
<1>2. n \in Nat
  BY <1>1
<1>3. 0 \in Good
  <2>1. f[0] \in Seq(S) /\ Len(f[0]) = 0
    BY <1>1
  <2>2. 0 \in 0..n /\ 0 <= 0
    BY <1>2
  <2> QED
    BY <1>1, <1>2, <2>1, <2>2
<1>4. ASSUME NEW k \in 1..n, k - 1 \in Good  PROVE k \in Good
  <2>1. /\ f[k - 1] \in Seq(S) /\ Len(f[k - 1]) \in Nat /\ Len(f[k - 1]) <= k - 1
        /\ k - 1 # 0 /\ s[1] \notin T => Len(f[k - 1]) <= (k - 1) - 1
    BY <1>4
  <2>2. k \in Nat /\ k # 0 /\ k \in 0..n /\ s[k] \in S
    BY <1>2
  <2>3. f[k] = IF s[k] \in T THEN Append(f[k - 1], s[k]) ELSE f[k - 1]
    BY <1>1
  <2>4. CASE s[k] \in T
    <3>1. f[k] \in Seq(S) /\ Len(f[k]) = Len(f[k - 1]) + 1
      BY <2>1, <2>2, <2>3, <2>4, AppendProperties
    <3>2. Len(f[k]) <= k
      BY <2>1, <2>2, <3>1
    <3>3. ASSUME s[1] \notin T  PROVE Len(f[k]) <= k - 1
      <4>1. k # 1
        BY <2>4, <3>3
      <4>2. k - 1 # 0
        BY <2>2, <4>1
      <4> QED
        BY <2>1, <2>2, <3>1, <3>3, <4>2
    <3> QED
      BY <2>2, <3>1, <3>2, <3>3
  <2>5. CASE s[k] \notin T
    <3>1. f[k] = f[k - 1]
      BY <2>3, <2>5
    <3>2. Len(f[k]) <= k
      BY <2>1, <2>2, <3>1
    <3> QED
      BY <2>1, <2>2, <3>1, <3>2
  <2> QED
    BY <2>4, <2>5
<1>5. n \in Good
  <2> HIDE DEF Good, n
  <2>1. \A k \in 0..n : k \in Good
    BY <1>2, <1>3, <1>4, UpTo
  <2> QED
    BY <1>2, <2>1
<1>6. Len(f[n]) <= n /\ (n # 0 /\ s[1] \notin T => Len(f[n]) <= n - 1)
  BY <1>5
<1>7. s # <<>> => n # 0
  OBVIOUS
<1> QED
  BY <1>1, <1>6, <1>7
=============================================================================
