------------------------- MODULE ElementListProofs -------------------------
(***************************************************************************)
(* The linked list of a paper is the drawing, for any elements and sets;   *)
(* and animations are kept, for any number of them and of elements.        *)
(***************************************************************************)
EXTENDS Libraries, SieveProofs, FiniteSetTheorems

-----------------------------------------------------------------------------
(* Lists, whatever the variables are.                                      *)

Distinct(s) == \A j, k \in 1..Len(s) : s[j] = s[k] => j = k

\* The links nx and pv, the top tp and the bottom bt make a list of s.
Lies(s, nx, pv, tp, bt) ==
  /\ tp = IF s = <<>> THEN None ELSE s[Len(s)]
  /\ bt = IF s = <<>> THEN None ELSE s[1]
  /\ \A k \in 1..Len(s) :
       /\ nx[s[k]] = IF k = Len(s) THEN None ELSE s[k + 1]
       /\ pv[s[k]] = IF k = 1 THEN None ELSE s[k - 1]

\* Put makes a sequence, one longer.
LEMMA PutType ==
  ASSUME NEW S, NEW s \in Seq(S), NEW k \in 1..(Len(s) + 1), NEW e \in S
  PROVE  Put(s, k, e) \in Seq(S) /\ Len(Put(s, k, e)) = Len(s) + 1 /\ Put(s, k, e) # <<>>
<1>1. \A j \in 1..(Len(s) + 1) : (j < k => s[j] \in S) /\ (j > k => s[j - 1] \in S)
  OBVIOUS
<1> QED BY <1>1 DEF Put

\* What is at each place after Put.
LEMMA PutAt ==
  ASSUME NEW S, NEW s \in Seq(S), NEW k \in 1..(Len(s) + 1), NEW e \in S, NEW j \in 1..(Len(s) + 1)
  PROVE  Put(s, k, e)[j] = IF j < k THEN s[j] ELSE IF j = k THEN e ELSE s[j - 1]
BY DEF Put

\* Appending is putting at the end.
LEMMA PutEnd ==
  ASSUME NEW S, NEW s \in Seq(S), NEW e \in S
  PROVE  Append(s, e) = Put(s, Len(s) + 1, e)
<1>1. \A j \in 1..(Len(s) + 1) : Append(s, e)[j] = Put(s, Len(s) + 1, e)[j]
  BY DEF Put
<1>2. Append(s, e) \in Seq(S) /\ Len(Append(s, e)) = Len(s) + 1
  OBVIOUS
<1>3. Put(s, Len(s) + 1, e) \in Seq(S) /\ Len(Put(s, Len(s) + 1, e)) = Len(s) + 1
  BY PutType
<1> QED BY <1>1, <1>2, <1>3

\* Distinct elements stay distinct.
LEMMA PutDistinct ==
  ASSUME NEW S, NEW s \in Seq(S), NEW k \in 1..(Len(s) + 1), NEW e \in S,
         Distinct(s), \A j \in 1..Len(s) : s[j] # e
  PROVE  Distinct(Put(s, k, e))
<1> DEFINE p == Put(s, k, e)
<1>1. Len(p) = Len(s) + 1
  BY PutType
<1>2. \A j \in 1..(Len(s) + 1) : p[j] = IF j < k THEN s[j] ELSE IF j = k THEN e ELSE s[j - 1]
  BY PutAt
<1> HIDE DEF p
<1>3. ASSUME NEW i \in 1..(Len(s) + 1), NEW j \in 1..(Len(s) + 1), i < j
      PROVE  p[i] # p[j]
  <2>1. CASE j < k
    BY <1>2, <1>3, <2>1 DEF Distinct
  <2>2. CASE j = k
    BY <1>2, <1>3, <2>2
  <2>3. CASE j > k /\ i < k
    <3>1. p[i] = s[i] /\ p[j] = s[j - 1] /\ i \in 1..Len(s) /\ j - 1 \in 1..Len(s) /\ i # j - 1
      BY <1>2, <1>3, <2>3
    <3> QED BY <3>1 DEF Distinct
  <2>4. CASE j > k /\ i = k
    <3>1. p[i] = e /\ p[j] = s[j - 1] /\ j - 1 \in 1..Len(s)
      BY <1>2, <1>3, <2>4
    <3> QED BY <3>1
  <2>5. CASE j > k /\ i > k
    <3>1. p[i] = s[i - 1] /\ p[j] = s[j - 1] /\ i - 1 \in 1..Len(s) /\ j - 1 \in 1..Len(s) /\ i - 1 # j - 1
      BY <1>2, <1>3, <2>5
    <3> QED BY <3>1 DEF Distinct
  <2> QED BY <1>3, <2>1, <2>2, <2>3, <2>4, <2>5
<1>4. \A i, j \in 1..(Len(s) + 1) : p[i] = p[j] => i = j
  BY <1>3
<1> QED BY <1>1, <1>4 DEF Distinct, p

\* An element is put into a list by four links and, at an end, the end.
LEMMA PutLies ==
  ASSUME NEW S, NEW s \in Seq(S), NEW k \in 1..(Len(s) + 1), NEW e \in S,
         Distinct(s), \A j \in 1..Len(s) : s[j] # e,
         NEW nx, NEW pv, NEW tp, NEW bt, Lies(s, nx, pv, tp, bt),
         NEW nx2, NEW pv2,
         nx2[e] = IF k = Len(s) + 1 THEN None ELSE s[k],
         pv2[e] = IF k = 1 THEN None ELSE s[k - 1],
         \A j \in 1..Len(s) : nx2[s[j]] = IF j = k - 1 THEN e ELSE nx[s[j]],
         \A j \in 1..Len(s) : pv2[s[j]] = IF j = k THEN e ELSE pv[s[j]]
  PROVE  Lies(Put(s, k, e), nx2, pv2, IF k = Len(s) + 1 THEN e ELSE tp, IF k = 1 THEN e ELSE bt)
<1> DEFINE p == Put(s, k, e)
<1>1. p \in Seq(S) /\ Len(p) = Len(s) + 1 /\ p # <<>>
  BY PutType
<1>2. \A j \in 1..(Len(s) + 1) : p[j] = IF j < k THEN s[j] ELSE IF j = k THEN e ELSE s[j - 1]
  BY PutAt
<1> HIDE DEF p
<1>3. (IF k = Len(s) + 1 THEN e ELSE tp) = p[Len(p)]
  <2>1. CASE k = Len(s) + 1
    BY <1>1, <1>2, <2>1
  <2>2. CASE k # Len(s) + 1
    BY <1>1, <1>2, <2>2 DEF Lies
  <2> QED BY <2>1, <2>2
<1>4. (IF k = 1 THEN e ELSE bt) = p[1]
  BY <1>1, <1>2 DEF Lies
<1>5. ASSUME NEW i \in 1..Len(p)
      PROVE  /\ nx2[p[i]] = IF i = Len(p) THEN None ELSE p[i + 1]
             /\ pv2[p[i]] = IF i = 1 THEN None ELSE p[i - 1]
  <2>1. CASE i < k
    <3>1. p[i] = s[i] /\ i \in 1..Len(s) /\ i # Len(p) /\ p[i + 1] = IF i + 1 = k THEN e ELSE s[i + 1]
      BY <1>1, <1>2, <2>1
    <3>2. nx2[p[i]] = IF i = Len(p) THEN None ELSE p[i + 1]
      <4>1. nx2[s[i]] = IF i = k - 1 THEN e ELSE nx[s[i]]
        BY <3>1
      <4>2. nx[s[i]] = IF i = Len(s) THEN None ELSE s[i + 1]
        BY <3>1 DEF Lies
      <4>3. (i = k - 1 <=> i + 1 = k) /\ (i = Len(s) => i = k - 1)
        BY <1>1, <2>1
      <4> QED BY <3>1, <4>1, <4>2, <4>3
    <3>3. pv2[p[i]] = IF i = 1 THEN None ELSE p[i - 1]
      <4>1. pv2[p[i]] = pv[s[i]] /\ pv[s[i]] = IF i = 1 THEN None ELSE s[i - 1]
        BY <2>1, <3>1 DEF Lies
      <4>2. i # 1 => p[i - 1] = s[i - 1]
        <5>1. i # 1 => i - 1 \in 1..(Len(s) + 1) /\ i - 1 < k
          BY <1>1, <2>1
        <5> QED BY <1>2, <5>1
      <4> QED BY <4>1, <4>2
    <3> QED BY <3>2, <3>3
  <2>2. CASE i = k
    <3>1. p[i] = e /\ (i # Len(p) => p[i + 1] = s[i]) /\ (i # 1 => p[i - 1] = s[i - 1])
      BY <1>1, <1>2, <2>2
    <3> QED BY <1>1, <2>2, <3>1
  <2>3. CASE i > k
    <3>1. p[i] = s[i - 1] /\ i - 1 \in 1..Len(s) /\ i # 1 /\ p[i - 1] = IF i - 1 = k THEN e ELSE s[i - 2]
      BY <1>1, <1>2, <2>3
    <3>2. pv2[p[i]] = p[i - 1]
      <4>1. pv2[s[i - 1]] = IF i - 1 = k THEN e ELSE pv[s[i - 1]]
        BY <3>1
      <4>2. i - 1 # k => pv[s[i - 1]] = s[i - 2]
        BY <3>1, <2>3 DEF Lies
      <4> QED BY <3>1, <4>1, <4>2
    <3>3. nx2[p[i]] = IF i = Len(p) THEN None ELSE p[i + 1]
      <4>1. nx2[s[i - 1]] = nx[s[i - 1]]
        BY <3>1, <2>3
      <4>2. nx[s[i - 1]] = IF i - 1 = Len(s) THEN None ELSE s[i]
        BY <3>1 DEF Lies
      <4>3. ASSUME i # Len(p) PROVE p[i + 1] = s[i]
        <5>1. i + 1 \in 1..(Len(s) + 1) /\ ~(i + 1 < k) /\ i + 1 # k /\ (i + 1) - 1 = i
          BY <1>1, <2>3, <4>3
        <5> QED BY <1>2, <5>1
      <4> QED BY <1>1, <3>1, <4>1, <4>2, <4>3
    <3> QED BY <3>1, <3>2, <3>3
  <2> QED BY <1>1, <2>1, <2>2, <2>3
<1> QED BY <1>1, <1>3, <1>4, <1>5 DEF Lies, p

-----------------------------------------------------------------------------
(* Taking an element out.                                                  *)

\* A drawn element is at its place.
LEMMA AtDrawn ==
  ASSUME NEW e, Drawn(e)
  PROVE  At(e) \in 1..Len(order) /\ order[At(e)] = e
BY DEF At, Drawn

\* What Without takes out, and where it moves the others.
LEMMA WithoutType ==
  ASSUME NEW e, Drawn(e), order \in Seq(Element)
  PROVE  /\ Without(e) \in Seq(Element) /\ Len(Without(e)) = Len(order) - 1
         /\ \A k \in 1..(Len(order) - 1) :
              Without(e)[k] = IF k < At(e) THEN order[k] ELSE order[k + 1]
<1>1. At(e) \in 1..Len(order) /\ Len(order) - 1 \in Nat
  BY AtDrawn
<1>2. \A k \in 1..(Len(order) - 1) : order[k] \in Element /\ order[k + 1] \in Element
  OBVIOUS
<1>3. Without(e) = [k \in 1..(Len(order) - 1) |-> IF k < At(e) THEN order[k] ELSE order[k + 1]]
  BY DEF Without
<1> QED BY <1>1, <1>2, <1>3

\* The others are still there, whatever e is.
LEMMA WithoutOthers ==
  ASSUME NEW e, NEW x, order \in Seq(Element), x # e, Drawn(x)
  PROVE  \E k \in 1..Len(Without(e)) : Without(e)[k] = x
<1>1. CASE ~Drawn(e)
  BY <1>1 DEF Without, Drawn
<1>2. CASE Drawn(e)
  <2>1. PICK k \in 1..Len(order) : order[k] = x
    BY DEF Drawn
  <2>2. At(e) \in 1..Len(order) /\ k # At(e)
    BY <1>2, <2>1, AtDrawn
  <2>3. CASE k < At(e)
    <3>1. k \in 1..(Len(order) - 1)
      BY <2>2, <2>3
    <3> QED BY <1>2, <2>1, <2>3, <3>1, WithoutType
  <2>4. CASE k > At(e)
    <3>1. k - 1 \in 1..(Len(order) - 1) /\ ~(k - 1 < At(e)) /\ (k - 1) + 1 = k
      BY <2>2, <2>4
    <3> QED BY <1>2, <2>1, <3>1, WithoutType
  <2> QED BY <2>2, <2>3, <2>4
<1> QED BY <1>1, <1>2

\* e is gone, the others are distinct and were drawn before.
LEMMA WithoutDistinct ==
  ASSUME NEW e, order \in Seq(Element), Distinct(order)
  PROVE  /\ Without(e) \in Seq(Element) /\ Distinct(Without(e))
         /\ \A k \in 1..Len(Without(e)) : Without(e)[k] # e /\ Drawn(Without(e)[k])
<1>1. CASE ~Drawn(e)
  BY <1>1 DEF Without, Drawn
<1>2. CASE Drawn(e)
  <2> DEFINE s == Without(e)
  <2>1. s \in Seq(Element) /\ Len(s) = Len(order) - 1 /\ At(e) \in 1..Len(order) /\ order[At(e)] = e
    BY <1>2, WithoutType, AtDrawn
  <2>2. \A k \in 1..Len(s) : s[k] = IF k < At(e) THEN order[k] ELSE order[k + 1]
    BY <1>2, <2>1, WithoutType
  <2> HIDE DEF s
  <2> DEFINE From(k) == IF k < At(e) THEN k ELSE k + 1
  <2>3. \A k \in 1..Len(s) : From(k) \in 1..Len(order) /\ From(k) # At(e) /\ s[k] = order[From(k)]
    BY <2>1, <2>2
  <2>4. \A j, k \in 1..Len(s) : From(j) = From(k) => j = k
    BY <2>1
  <2> HIDE DEF From
  <2>5. \A k \in 1..Len(s) : s[k] # e /\ Drawn(s[k])
    BY <2>1, <2>3 DEF Distinct, Drawn
  <2>6. Distinct(s)
    BY <2>3, <2>4 DEF Distinct
  <2> QED BY <2>1, <2>5, <2>6 DEF s
<1> QED BY <1>1, <1>2

\* What is left after an element on the paper was torn out is a list.
LEMMA TearDrawn ==
  ASSUME TypeOK, Distinct(order), Lies(order, next, prev, top, bottom), NEW e \in Element, Drawn(e)
  PROVE  Lies(Without(e), TornNext(e), TornPrev(e), TornTop(e), TornBottom(e))
<1> DEFINE s == Without(e)
           n == Len(order)
           p == At(e)
<1>1. /\ s \in Seq(Element) /\ Len(s) = n - 1 /\ n \in Nat
      /\ p \in 1..n /\ order[p] = e
      /\ \A k \in 1..(n - 1) : s[k] = IF k < p THEN order[k] ELSE order[k + 1]
      /\ order \in Seq(Element) /\ \A k \in 1..n : order[k] \in Element
  BY WithoutType, AtDrawn DEF TypeOK
<1>2. /\ next[e] = IF p = n THEN None ELSE order[p + 1]
      /\ prev[e] = IF p = 1 THEN None ELSE order[p - 1]
      /\ top = order[n] /\ bottom = order[1]
  BY <1>1 DEF Lies
<1>3. \A j, k \in 1..n : order[j] = order[k] => j = k
  BY DEF Distinct
<1>4. /\ \A k \in 1..n : order[k] \in Link /\ order[k] # None
      /\ \A k \in 1..n : next[order[k]] = IF k = n THEN None ELSE order[k + 1]
      /\ \A k \in 1..n : prev[order[k]] = IF k = 1 THEN None ELSE order[k - 1]
  BY <1>1, ElementAssumption DEF Lies, ElementAssumption, Link
<1> HIDE DEF s, n, p
<1>a. n \in Nat /\ p \in 1..n
  BY <1>1
<1>b. order[p] = e
  BY <1>1
<1>5. TornTop(e) = IF s = <<>> THEN None ELSE s[Len(s)]
  <2>1. CASE n = 1
    <3>1. s = <<>> /\ p = 1 /\ top = e
      BY <1>1, <1>2, <2>1
    <3> QED BY <1>2, <3>1 DEF TornTop
  <2>2. CASE n # 1
    <3>1. s # <<>> /\ n - 1 \in 1..(n - 1) /\ s[n - 1] = IF n - 1 < p THEN order[n - 1] ELSE order[n]
      BY <1>1, <2>2
    <3>2. CASE p = n
      <4>1. top = e /\ prev[e] = order[n - 1] /\ n - 1 < p
        BY <1>1, <1>2, <2>2, <3>2
      <4> QED BY <1>1, <3>1, <4>1 DEF TornTop
    <3>3. CASE p # n
      <4>1. n \in 1..n /\ p \in 1..n /\ n # p /\ ~(n - 1 < p)
        BY <1>a, <3>3
      <4>2. top # e
        BY <1>2, <1>3, <1>b, <4>1
      <4> QED BY <1>1, <1>2, <3>1, <4>1, <4>2 DEF TornTop
    <3> QED BY <3>2, <3>3
  <2> QED BY <2>1, <2>2
<1>6. TornBottom(e) = IF s = <<>> THEN None ELSE s[1]
  <2>1. CASE n = 1
    <3>1. s = <<>> /\ p = 1 /\ bottom = e
      BY <1>1, <1>2, <2>1
    <3> QED BY <1>2, <2>1, <3>1 DEF TornBottom
  <2>2. CASE n # 1
    <3>1. s # <<>> /\ 1 \in 1..(n - 1) /\ s[1] = IF 1 < p THEN order[1] ELSE order[2]
      BY <1>1, <2>2
    <3>2. CASE p = 1
      <4>1. bottom = e /\ next[e] = order[2]
        BY <1>1, <1>2, <2>2, <3>2
      <4> QED BY <3>1, <3>2, <4>1 DEF TornBottom
    <3>3. CASE p # 1
      <4>1. 1 \in 1..n /\ p \in 1..n /\ 1 < p
        BY <1>a, <3>3
      <4>2. bottom # e
        BY <1>2, <1>3, <1>b, <4>1
      <4> QED BY <1>2, <3>1, <4>1, <4>2 DEF TornBottom
    <3> QED BY <3>2, <3>3
  <2> QED BY <2>1, <2>2
<1>7. ASSUME NEW k \in 1..(n - 1)
      PROVE  /\ TornNext(e)[s[k]] = IF k = n - 1 THEN None ELSE s[k + 1]
             /\ TornPrev(e)[s[k]] = IF k = 1 THEN None ELSE s[k - 1]
  <2>1. CASE k < p
    <3>1. /\ s[k] = order[k] /\ k \in 1..n /\ k # n
          /\ k # n - 1 => s[k + 1] = IF k + 1 < p THEN order[k + 1] ELSE order[k + 2]
          /\ k # 1 => s[k - 1] = order[k - 1]
      BY <1>1, <2>1
    <3>2. TornNext(e)[s[k]] = IF order[k] = prev[e] THEN next[e] ELSE next[order[k]]
      BY <1>4, <3>1 DEF TornNext
    <3>3. TornPrev(e)[s[k]] = IF order[k] = next[e] THEN prev[e] ELSE prev[order[k]]
      BY <1>4, <3>1 DEF TornPrev
    <3>4. order[k] # next[e]
      <4>1. CASE p = n
        BY <1>2, <1>4, <3>1, <4>1
      <4>2. CASE p # n
        <5>1. next[e] = order[p + 1] /\ p + 1 \in 1..n /\ k # p + 1
          BY <1>2, <1>a, <2>1, <4>2
        <5> QED BY <1>3, <3>1, <5>1
      <4> QED BY <4>1, <4>2
    <3>5. TornPrev(e)[s[k]] = IF k = 1 THEN None ELSE s[k - 1]
      BY <1>4, <3>1, <3>3, <3>4
    <3>6. CASE k = p - 1
      <4>1. order[k] = prev[e]
        BY <1>1, <1>2, <3>1, <3>6
      <4>2. next[e] = IF k = n - 1 THEN None ELSE s[k + 1]
        BY <1>1, <1>2, <3>1, <3>6
      <4> QED BY <3>2, <3>5, <4>1, <4>2
    <3>7. CASE k # p - 1
      <4>1. order[k] # prev[e]
        <5>1. CASE p = 1
          BY <1>2, <1>4, <3>1, <5>1
        <5>2. CASE p # 1
          <6>1. prev[e] = order[p - 1] /\ p - 1 \in 1..n /\ k # p - 1
            BY <1>1, <1>2, <3>7, <5>2
          <6> QED BY <1>3, <3>1, <6>1
        <5> QED BY <5>1, <5>2
      <4>2. k # n - 1 /\ k + 1 < p
        BY <1>1, <2>1, <3>7
      <4>3. next[order[k]] = order[k + 1]
        BY <1>4, <3>1
      <4> QED BY <3>1, <3>2, <3>5, <4>1, <4>2, <4>3
    <3> QED BY <3>6, <3>7
  <2>2. CASE ~(k < p)
    <3>1. /\ s[k] = order[k + 1] /\ k + 1 \in 1..n /\ k + 1 # 1 /\ (k + 1 = n <=> k = n - 1)
          /\ k # n - 1 => s[k + 1] = order[k + 2]
          /\ k # 1 => s[k - 1] = IF k = p THEN order[k - 1] ELSE order[k]
      BY <1>1, <2>2
    <3>2. TornNext(e)[s[k]] = IF order[k + 1] = prev[e] THEN next[e] ELSE next[order[k + 1]]
      BY <1>4, <3>1 DEF TornNext
    <3>3. TornPrev(e)[s[k]] = IF order[k + 1] = next[e] THEN prev[e] ELSE prev[order[k + 1]]
      BY <1>4, <3>1 DEF TornPrev
    <3>4. order[k + 1] # prev[e]
      <4>1. CASE p = 1
        BY <1>2, <1>4, <3>1, <4>1
      <4>2. CASE p # 1
        <5>1. prev[e] = order[p - 1] /\ p - 1 \in 1..n /\ k + 1 # p - 1
          BY <1>2, <1>a, <2>2, <4>2
        <5> QED BY <1>3, <3>1, <5>1
      <4> QED BY <4>1, <4>2
    <3>5. TornNext(e)[s[k]] = IF k = n - 1 THEN None ELSE s[k + 1]
      <4>1. next[order[k + 1]] = IF k + 1 = n THEN None ELSE order[(k + 1) + 1]
        BY <1>4, <3>1
      <4> QED BY <1>1, <3>1, <3>2, <3>4, <4>1
    <3>6. CASE k = p
      <4>1. order[k + 1] = next[e] /\ prev[e] = IF k = 1 THEN None ELSE order[k - 1]
        BY <1>1, <1>2, <3>1, <3>6
      <4> QED BY <3>1, <3>3, <3>5, <3>6, <4>1
    <3>7. CASE k # p
      <4>1. order[k + 1] # next[e]
        <5>1. CASE p = n
          BY <1>2, <1>4, <3>1, <5>1
        <5>2. CASE p # n
          <6>1. next[e] = order[p + 1] /\ p + 1 \in 1..n /\ k + 1 # p + 1
            BY <1>1, <1>2, <3>7, <5>2
          <6> QED BY <1>3, <3>1, <6>1
        <5> QED BY <5>1, <5>2
      <4>2. k # 1 /\ (k + 1) - 1 = k
        BY <1>1, <2>2, <3>7
      <4>3. prev[order[k + 1]] = order[(k + 1) - 1]
        BY <1>4, <3>1
      <4> QED BY <3>1, <3>3, <3>5, <3>7, <4>1, <4>2, <4>3
    <3> QED BY <3>6, <3>7
  <2> QED BY <2>1, <2>2
<1> QED BY <1>1, <1>5, <1>6, <1>7 DEF Lies, s

-----------------------------------------------------------------------------
(* The inductive invariant: the list, and what is left of old drawings.    *)

Known == \A e \in Element : status[e] = "drawn" <=> Drawn(e)

\* Beside e, the elements that are not drawn have links only to cleared ones, and those back.
OldBut(e, nx, pv, st) ==
  \A x \in Element \ {e} : st[x] # "drawn" =>
    /\ nx[x] # None => /\ st[x] = "cleared" /\ nx[x] \in Element \ {e}
                       /\ st[nx[x]] = "cleared" /\ pv[nx[x]] = x
    /\ pv[x] # None => /\ st[x] = "cleared" /\ pv[x] \in Element \ {e}
                       /\ st[pv[x]] = "cleared" /\ nx[pv[x]] = x

Old == OldBut(None, next, prev, status)

Sound == Distinct(order) /\ Known /\ Lies(order, next, prev, top, bottom) /\ Old

ListInv == TypeOK /\ (~astray => Sound)

\* An element that is not drawn is not in the list, so that tearing it out changes nothing there.
LEMMA TearOther ==
  ASSUME TypeOK, Sound, NEW e \in Element, status[e] # "drawn"
  PROVE  /\ Without(e) = order
         /\ Lies(order, TornNext(e), TornPrev(e), TornTop(e), TornBottom(e))
<1>1. ~Drawn(e)
  BY DEF Sound, Known
<1>2. e # None
  BY ElementAssumption DEF ElementAssumption
<1>3. top # e /\ bottom # e
  BY <1>1, <1>2 DEF Sound, Lies, Drawn, TypeOK
<1>4. \A k \in 1..Len(order) : order[k] \in Link /\ order[k] # next[e] /\ order[k] # prev[e]
  <2>1. ASSUME NEW k \in 1..Len(order) PROVE order[k] \in Element /\ status[order[k]] = "drawn"
    BY <2>1 DEF TypeOK, Sound, Known, Drawn
  <2>2. /\ next[e] # None => status[next[e]] = "cleared"
        /\ prev[e] # None => status[prev[e]] = "cleared"
    BY <1>2 DEF Sound, Old, OldBut
  <2> QED BY <2>1, <2>2, ElementAssumption DEF ElementAssumption, Link
<1>5. \A k \in 1..Len(order) : TornNext(e)[order[k]] = next[order[k]] /\ TornPrev(e)[order[k]] = prev[order[k]]
  BY <1>4 DEF TornNext, TornPrev
<1> QED BY <1>1, <1>3, <1>5 DEF Without, Sound, Lies, TornTop, TornBottom

\* Wherever e was, it is torn out.
LEMMA TearLies ==
  ASSUME TypeOK, Sound, NEW e \in Element
  PROVE  Lies(Without(e), TornNext(e), TornPrev(e), TornTop(e), TornBottom(e))
BY TearOther, TearDrawn DEF Sound, Known

\* What is left of old drawings does not know e any more.
LEMMA TearOld ==
  ASSUME TypeOK, Sound, NEW e \in Element
  PROVE  OldBut(e, TornNext(e), TornPrev(e), status)
<1>1. e # None
  BY ElementAssumption DEF ElementAssumption
<1>2. \A x \in Element : x # None /\ x \in Link
  BY ElementAssumption DEF ElementAssumption, Link
<1>3. CASE status[e] = "drawn"
  <2>1. PICK k \in 1..Len(order) : order[k] = e
    BY <1>3 DEF Sound, Known, Drawn
  <2>2. /\ next[e] # None => next[e] \in Element /\ status[next[e]] = "drawn"
        /\ prev[e] # None => prev[e] \in Element /\ status[prev[e]] = "drawn"
    <3>1. k # Len(order) => k + 1 \in 1..Len(order) /\ next[e] = order[k + 1]
      BY <2>1 DEF Sound, Lies
    <3>2. k = Len(order) => next[e] = None
      BY <2>1 DEF Sound, Lies
    <3>3. k # 1 => k - 1 \in 1..Len(order) /\ prev[e] = order[k - 1]
      BY <2>1 DEF Sound, Lies
    <3>4. k = 1 => prev[e] = None
      BY <2>1 DEF Sound, Lies
    <3>5. \A j \in 1..Len(order) : order[j] \in Element /\ status[order[j]] = "drawn"
      BY DEF TypeOK, Sound, Known, Drawn
    <3> QED BY <3>1, <3>2, <3>3, <3>4, <3>5
  <2>3. \A x \in Element : status[x] # "drawn" => TornNext(e)[x] = next[x] /\ TornPrev(e)[x] = prev[x]
    BY <1>2, <2>2 DEF TornNext, TornPrev
  <2>4. ASSUME NEW x \in Element \ {e}, status[x] # "drawn", next[x] # None
        PROVE  /\ status[x] = "cleared" /\ next[x] \in Element \ {e}
               /\ status[next[x]] = "cleared" /\ TornPrev(e)[next[x]] = x
    BY <1>2, <1>3, <2>3, <2>4 DEF Sound, Old, OldBut
  <2>5. ASSUME NEW x \in Element \ {e}, status[x] # "drawn", prev[x] # None
        PROVE  /\ status[x] = "cleared" /\ prev[x] \in Element \ {e}
               /\ status[prev[x]] = "cleared" /\ TornNext(e)[prev[x]] = x
    BY <1>2, <1>3, <2>3, <2>5 DEF Sound, Old, OldBut
  <2> QED BY <2>3, <2>4, <2>5 DEF OldBut
<1>4. CASE status[e] # "drawn"
  <2>1. /\ next[e] # None => next[e] \in Element /\ status[next[e]] = "cleared" /\ prev[next[e]] = e
        /\ prev[e] # None => prev[e] \in Element /\ status[prev[e]] = "cleared" /\ next[prev[e]] = e
    BY <1>1, <1>2, <1>4 DEF Sound, Old, OldBut
  <2>2. ASSUME NEW x \in Element \ {e}, status[x] # "drawn", TornNext(e)[x] # None
        PROVE  /\ status[x] = "cleared" /\ TornNext(e)[x] \in Element \ {e}
               /\ status[TornNext(e)[x]] = "cleared" /\ TornPrev(e)[TornNext(e)[x]] = x
    <3>1. CASE x = prev[e]
      <4>1. TornNext(e)[x] = next[e] /\ next[e] # None
        BY <1>2, <2>2, <3>1 DEF TornNext
      <4>2. next[e] # e
        BY <2>1, <2>2, <3>1, <4>1
      <4>3. TornPrev(e)[next[e]] = prev[e]
        BY <1>2, <2>1, <4>1 DEF TornPrev
      <4>4. status[x] = "cleared"
        BY <1>2, <2>1, <3>1
      <4> QED BY <2>1, <3>1, <4>1, <4>2, <4>3, <4>4
    <3>2. CASE x # prev[e]
      <4>1. TornNext(e)[x] = next[x] /\ next[x] # None
        BY <1>2, <2>2, <3>2 DEF TornNext
      <4>2. status[x] = "cleared" /\ next[x] \in Element /\ status[next[x]] = "cleared" /\ prev[next[x]] = x
        BY <1>2, <2>2, <4>1 DEF Sound, Old, OldBut
      <4>3. next[x] # e
        BY <3>2, <4>2
      <4>4. next[x] # next[e]
        BY <2>1, <2>2, <4>1, <4>2
      <4>5. TornPrev(e)[next[x]] = x
        BY <1>2, <4>2, <4>4 DEF TornPrev
      <4> QED BY <4>1, <4>2, <4>3, <4>5
    <3> QED BY <3>1, <3>2
  <2>3. ASSUME NEW x \in Element \ {e}, status[x] # "drawn", TornPrev(e)[x] # None
        PROVE  /\ status[x] = "cleared" /\ TornPrev(e)[x] \in Element \ {e}
               /\ status[TornPrev(e)[x]] = "cleared" /\ TornNext(e)[TornPrev(e)[x]] = x
    <3>1. CASE x = next[e]
      <4>1. TornPrev(e)[x] = prev[e] /\ prev[e] # None
        BY <1>2, <2>3, <3>1 DEF TornPrev
      <4>2. prev[e] # e
        BY <2>1, <2>3, <3>1, <4>1
      <4>3. TornNext(e)[prev[e]] = next[e]
        BY <1>2, <2>1, <4>1 DEF TornNext
      <4>4. status[x] = "cleared"
        BY <1>2, <2>1, <3>1
      <4> QED BY <2>1, <3>1, <4>1, <4>2, <4>3, <4>4
    <3>2. CASE x # next[e]
      <4>1. TornPrev(e)[x] = prev[x] /\ prev[x] # None
        BY <1>2, <2>3, <3>2 DEF TornPrev
      <4>2. status[x] = "cleared" /\ prev[x] \in Element /\ status[prev[x]] = "cleared" /\ next[prev[x]] = x
        BY <1>2, <2>3, <4>1 DEF Sound, Old, OldBut
      <4>3. prev[x] # e
        BY <3>2, <4>2
      <4>4. prev[x] # prev[e]
        BY <2>1, <2>3, <4>1, <4>2
      <4>5. TornNext(e)[prev[x]] = x
        BY <1>2, <4>2, <4>4 DEF TornNext
      <4> QED BY <4>1, <4>2, <4>3, <4>5
    <3> QED BY <3>1, <3>2
  <2> QED BY <2>2, <2>3 DEF OldBut
<1> QED BY <1>3, <1>4

-----------------------------------------------------------------------------
(* Steps.                                                                  *)

\* Whatever is in Element can carry links and is not None.
LEMMA ElementLinks == \A x \in Element : x \in Link /\ x # None /\ x \notin Group
BY ElementAssumption DEF ElementAssumption, Link

\* An element, wherever it is, is torn out and put at place k of the others.
LEMMA MoveSound ==
  ASSUME TypeOK, Sound, NEW e \in Element,
         NEW k \in 1..(Len(Without(e)) + 1),
         order' = Put(Without(e), k, e), status' = [status EXCEPT ![e] = "drawn"],
         next'[e] = IF k = Len(Without(e)) + 1 THEN None ELSE Without(e)[k],
         prev'[e] = IF k = 1 THEN None ELSE Without(e)[k - 1],
         \A j \in 1..Len(Without(e)) : next'[Without(e)[j]] = IF j = k - 1 THEN e ELSE TornNext(e)[Without(e)[j]],
         \A j \in 1..Len(Without(e)) : prev'[Without(e)[j]] = IF j = k THEN e ELSE TornPrev(e)[Without(e)[j]],
         \A x \in Element \ {e} : status[x] # "drawn" => next'[x] = TornNext(e)[x] /\ prev'[x] = TornPrev(e)[x],
         top' = IF k = Len(Without(e)) + 1 THEN e ELSE TornTop(e),
         bottom' = IF k = 1 THEN e ELSE TornBottom(e)
  PROVE  Sound'
<1> DEFINE s == Without(e)
           nx == TornNext(e)
           pv == TornPrev(e)
           tp == TornTop(e)
           bt == TornBottom(e)
<1>1. /\ s \in Seq(Element) /\ Distinct(s)
      /\ \A j \in 1..Len(s) : s[j] # e /\ Drawn(s[j])
  BY WithoutDistinct DEF TypeOK, Sound
<1>2. \A x \in Element \ {e} : Drawn(x) => \E j \in 1..Len(s) : s[j] = x
  BY WithoutOthers DEF TypeOK
<1>3. Lies(s, nx, pv, tp, bt) /\ OldBut(e, nx, pv, status)
  BY TearLies, TearOld
<1>4. /\ order' = Put(s, k, e)
      /\ next'[e] = IF k = Len(s) + 1 THEN None ELSE s[k]
      /\ prev'[e] = IF k = 1 THEN None ELSE s[k - 1]
      /\ \A j \in 1..Len(s) : next'[s[j]] = IF j = k - 1 THEN e ELSE nx[s[j]]
      /\ \A j \in 1..Len(s) : prev'[s[j]] = IF j = k THEN e ELSE pv[s[j]]
      /\ top' = (IF k = Len(s) + 1 THEN e ELSE tp) /\ bottom' = (IF k = 1 THEN e ELSE bt)
      /\ k \in 1..(Len(s) + 1)
  OBVIOUS
<1>10. \A x \in Element \ {e} : status[x] # "drawn" => next'[x] = nx[x] /\ prev'[x] = pv[x]
  OBVIOUS
<1> HIDE DEF s, nx, pv, tp, bt
<1>5. Distinct(order')
  BY <1>1, <1>4, PutDistinct
<1>6. Lies(Put(s, k, e), next', prev', IF k = Len(s) + 1 THEN e ELSE tp, IF k = 1 THEN e ELSE bt)
  BY <1>1, <1>3, <1>4, PutLies
<1>7. Lies(order', next', prev', top', bottom')
  BY <1>4, <1>6
<1>8. Known'
  <2>1. /\ order' \in Seq(Element) /\ Len(order') = Len(s) + 1 /\ Len(s) \in Nat
        /\ \A j \in 1..(Len(s) + 1) : order'[j] = IF j < k THEN s[j] ELSE IF j = k THEN e ELSE s[j - 1]
    <3>1. order' \in Seq(Element) /\ Len(order') = Len(s) + 1
      BY <1>1, <1>4, PutType
    <3>2. \A j \in 1..(Len(s) + 1) : Put(s, k, e)[j] = IF j < k THEN s[j] ELSE IF j = k THEN e ELSE s[j - 1]
      BY <1>1, <1>4, PutAt
    <3> QED BY <1>1, <1>4, <3>1, <3>2
  <2>2. ASSUME NEW x \in Element PROVE (status[x] = "drawn" \/ x = e) => \E j \in 1..Len(order') : order'[j] = x
    <3>1. CASE x = e
      BY <1>4, <2>1, <3>1
    <3>2. CASE x # e /\ status[x] = "drawn"
      <4>1. PICK j \in 1..Len(s) : s[j] = x
        BY <1>2, <3>2 DEF Sound, Known
      <4>2. CASE j < k
        BY <2>1, <4>1, <4>2
      <4>3. CASE ~(j < k)
        <5>1. j + 1 \in 1..Len(order') /\ order'[j + 1] = s[(j + 1) - 1] /\ (j + 1) - 1 = j
          BY <1>4, <2>1, <4>3
        <5> QED BY <4>1, <5>1
      <4> QED BY <4>2, <4>3
    <3> QED BY <3>1, <3>2
  <2>3. ASSUME NEW j \in 1..Len(order') PROVE order'[j] = e \/ status[order'[j]] = "drawn"
    <3>1. \A i \in 1..Len(s) : s[i] \in Element /\ status[s[i]] = "drawn"
      BY <1>1 DEF Sound, Known
    <3>2. CASE j < k
      BY <1>4, <2>1, <3>1, <3>2
    <3>3. CASE j = k
      BY <2>1, <3>3
    <3>4. CASE j > k
      <4>1. j - 1 \in 1..Len(s) /\ order'[j] = s[j - 1]
        BY <1>4, <2>1, <3>4
      <4> QED BY <3>1, <4>1
    <3> QED BY <1>4, <2>1, <3>2, <3>3, <3>4
  <2>4. \A x \in Element : status'[x] = "drawn" <=> (status[x] = "drawn" \/ x = e)
    BY DEF TypeOK
  <2>5. \A x \in Element : Drawn(x)' <=> \E j \in 1..Len(order') : order'[j] = x
    BY DEF Drawn
  <2> QED BY <2>2, <2>3, <2>4, <2>5 DEF Known
<1>9. Old'
  <2>1. \A x \in Element : status'[x] # "drawn" => x # e /\ status'[x] = status[x]
    BY DEF TypeOK
  <2>2. \A x \in Element \ {e} : status'[x] = status[x]
    BY DEF TypeOK
  <2>3. ASSUME NEW x \in Element \ {e}, status[x] # "drawn", nx[x] # None
        PROVE  /\ status[x] = "cleared" /\ nx[x] \in Element \ {e} /\ nx[x] # None
               /\ status[nx[x]] = "cleared" /\ prev'[nx[x]] = x
    BY <1>3, <1>10, <2>3, ElementLinks DEF OldBut
  <2>4. ASSUME NEW x \in Element \ {e}, status[x] # "drawn", pv[x] # None
        PROVE  /\ status[x] = "cleared" /\ pv[x] \in Element \ {e} /\ pv[x] # None
               /\ status[pv[x]] = "cleared" /\ next'[pv[x]] = x
    BY <1>3, <1>10, <2>4, ElementLinks DEF OldBut
  <2>5. OldBut(None, next', prev', status')
    BY <1>3, <1>10, <2>1, <2>2, <2>3, <2>4, ElementLinks DEF OldBut
  <2> QED BY <2>5 DEF Old
<1> QED BY <1>5, <1>7, <1>8, <1>9 DEF Sound

-----------------------------------------------------------------------------
(* Types.                                                                  *)

\* Tearing keeps the types.
LEMMA TornType ==
  ASSUME TypeOK, NEW e \in Element
  PROVE  /\ TornNext(e) \in [Link -> Link \union {None}] /\ TornPrev(e) \in [Link -> Link \union {None}]
         /\ TornTop(e) \in Link \union {None} /\ TornBottom(e) \in Link \union {None}
         /\ Without(e) \in Seq(Element)
<1>1. e \in Link
  BY ElementLinks
<1>2. Without(e) \in Seq(Element)
  <2>1. CASE Drawn(e)
    BY <2>1, WithoutType DEF TypeOK
  <2>2. CASE ~Drawn(e)
    BY <2>2 DEF Without, TypeOK
  <2> QED BY <2>1, <2>2
<1> QED BY <1>1, <1>2 DEF TypeOK, TornNext, TornPrev, TornTop, TornBottom

\* Changing a link keeps the type.
LEMMA ExceptType ==
  ASSUME NEW f \in [Link -> Link \union {None}], NEW a, NEW u \in Link \union {None}
  PROVE  [f EXCEPT ![a] = u] \in [Link -> Link \union {None}]
OBVIOUS

\* A set's members are a sequence in either direction.
LEMMA SequenceType ==
  ASSUME NEW m, NEW s \in Seq(Element)
  PROVE  Sequence(m, s) \in Seq(Element)
<1>1. \A k \in 1..Len(s) : Len(s) + 1 - k \in 1..Len(s) /\ s[Len(s) + 1 - k] \in Element
  OBVIOUS
<1> QED BY <1>1 DEF Sequence

\* The method goes on to the next member.
LEMMA NextMemberType ==
  ASSUME TypeOK, call.left # <<>>
  PROVE  /\ Member \in Element
         /\ NextMember => call' \in [method : Methods \union {"none"}, items : Seq(Element),
                                       left : Seq(Element), target : Link \union {None}]
<1>1. call.left \in Seq(Element)
  BY DEF TypeOK
<1>2. Head(call.left) \in Element /\ Tail(call.left) \in Seq(Element)
  BY <1>1
<1> QED BY <1>2 DEF Member, NextMember, TypeOK

LEMMA IdleType == Idle \in [method : Methods \union {"none"}, items : Seq(Element),
                            left : Seq(Element), target : Link \union {None}]
BY DEF Idle

\* The place beside a drawn node.
LEMMA MovedType ==
  ASSUME TypeOK, NEW e \in Element, NEW d, Drawn(d)
  PROVE  /\ d \in Element /\ Moved(e, d) \in Seq(Element)
         /\ e # d => \E k \in 1..Len(Without(e)) :
              /\ Without(e)[k] = d
              /\ Moved(e, d) = Put(Without(e), IF call.method = "insertAfter" THEN k + 1 ELSE k, e)
<1>1. d \in Element
  BY DEF TypeOK, Drawn
<1>2. CASE e = d
  BY <1>1, <1>2 DEF Moved, TypeOK
<1>3. CASE e # d
  <2> DEFINE s == Without(e)
             k == CHOOSE k \in 1..Len(s) : s[k] = d
             j == IF call.method = "insertAfter" THEN k + 1 ELSE k
  <2>1. k \in 1..Len(s) /\ s[k] = d
    BY <1>3, WithoutOthers DEF TypeOK
  <2>2. s \in Seq(Element)
    BY TornType
  <2>3. Moved(e, d) = Put(s, j, e)
    BY <1>3 DEF Moved
  <2> HIDE DEF s, k
  <2>4. j \in 1..(Len(s) + 1)
    BY <2>1, <2>2
  <2>5. Put(s, j, e) \in Seq(Element)
    BY <2>2, <2>4, PutType
  <2> QED BY <1>1, <2>1, <2>3, <2>5 DEF s
<1> QED BY <1>2, <1>3

\* What an element is put beside.
LEMMA NeighbourType ==
  ASSUME TypeOK, Drawn(Beside(call.target))
  PROVE  /\ Neighbour(call.target) \in Link /\ Beside(call.target) \in Element
         /\ Neighbour(call.target) \notin Group => Neighbour(call.target) = Beside(call.target)
<1>1. Beside(call.target) \in Element
  BY DEF TypeOK, Drawn
<1>2. call.target # None
  BY <1>1, ElementAssumption DEF Beside, ElementAssumption
<1>3. call.target \in Link
  BY <1>2 DEF TypeOK
<1>4. CASE call.target \in Group
  BY <1>1, <1>3, <1>4, ElementLinks DEF Neighbour
<1>5. CASE call.target \notin Group
  BY <1>1, <1>3, <1>5 DEF Neighbour, Beside
<1> QED BY <1>4, <1>5

\* The types of the state, whatever is called on what.
THEOREM TypeCorrect == Spec => []TypeOK
<1>1. Init => TypeOK
  <2> SUFFICES ASSUME Init PROVE TypeOK
    OBVIOUS
  <2>1. <<>> \in Seq(Element)
    OBVIOUS
  <2>2. /\ next \in [Link -> Link \union {None}] /\ prev \in [Link -> Link \union {None}]
        /\ status \in [Element -> {"new", "drawn", "cleared", "removed"}]
    BY DEF Init
  <2>3. /\ call = Idle /\ vml \in BOOLEAN /\ astray \in BOOLEAN /\ order = <<>>
        /\ top \in Link \union {None} /\ bottom \in Link \union {None}
    BY DEF Init
  <2> QED BY <2>1, <2>2, <2>3, IdleType DEF TypeOK
<1>2. TypeOK /\ [Next]_vars => TypeOK'
  <2> SUFFICES ASSUME TypeOK, [Next]_vars PROVE TypeOK'
    OBVIOUS
  <2>1. ASSUME NEW e \in Element, Create(e) PROVE TypeOK'
    <3>1. Append(order, e) \in Seq(Element)
      BY DEF TypeOK
    <3> QED BY <2>1, <3>1, IdleType, ElementLinks DEF Create, TypeOK
  <2>2. CASE Clear
    <3>1. <<>> \in Seq(Element)
      OBVIOUS
    <3> QED BY <2>2, <3>1, IdleType DEF Clear, TypeOK
  <2>3. ASSUME NEW m \in Methods, NEW s \in Seq(Element), NEW d \in Link \union {None}, Call(m, s, d)
        PROVE  TypeOK'
    BY <2>3, SequenceType DEF Call, TypeOK, links
  <2>4. CASE OfRemoved
    BY <2>4, IdleType, NextMemberType DEF OfRemoved, TypeOK, links
  <2>5. CASE Remove
    <3>1. Member \in Element /\ Member \in Link
      BY <2>5, NextMemberType, ElementLinks DEF Remove, Turn
    <3>2. CASE status[Member] = "drawn"
      <4>1. next' \in [Link -> Link \union {None}] /\ prev' \in [Link -> Link \union {None}]
        BY <2>5, <3>1, <3>2, TornType DEF Remove
      <4>2. top' \in Link \union {None} /\ bottom' \in Link \union {None} /\ order' \in Seq(Element)
        BY <2>5, <3>1, <3>2, TornType DEF Remove
      <4> QED BY <2>5, <3>2, <4>1, <4>2, NextMemberType DEF Remove, Turn, TypeOK
    <3>3. CASE status[Member] # "drawn"
      BY <2>5, <3>1, <3>3, IdleType, TornType DEF Remove, TypeOK
    <3> QED BY <3>2, <3>3
  <2>6. CASE ToFront
    <3>1. Member \in Element /\ Member \in Link /\ Without(Member) \in Seq(Element)
      BY <2>6, NextMemberType, ElementLinks, TornType DEF ToFront, Turn
    <3>2. Append(Without(Member), Member) \in Seq(Element)
      BY <3>1
    <3>3. CASE status[Member] = "cleared"
      BY <2>6, <3>3, IdleType DEF ToFront, Throws, TypeOK, links
    <3>4. CASE status[Member] # "cleared" /\ top = Member
      BY <2>6, <3>1, <3>2, <3>4, NextMemberType DEF ToFront, Turn, TypeOK, links
    <3>5. CASE status[Member] # "cleared" /\ top # Member
      <4>1. next' \in [Link -> Link \union {None}] /\ prev' \in [Link -> Link \union {None}]
        <5>1. next' = [[TornNext(Member) EXCEPT ![Member] = None] EXCEPT ![top] = Member]
          BY <2>6, <3>5 DEF ToFront
        <5>2. prev' = [TornPrev(Member) EXCEPT ![Member] = top] /\ top \in Link \union {None}
          BY <2>6, <3>5 DEF ToFront, TypeOK
        <5> QED BY <3>1, <5>1, <5>2, TornType, ExceptType
      <4>2. top' \in Link \union {None} /\ bottom' \in Link \union {None} /\ order' \in Seq(Element)
        BY <2>6, <3>1, <3>2, <3>5, TornType DEF ToFront
      <4> QED BY <2>6, <3>5, <4>1, <4>2, NextMemberType DEF ToFront, Turn, TypeOK
    <3> QED BY <3>3, <3>4, <3>5
  <2>7. CASE ToBack
    <3>1. Member \in Element /\ Member \in Link /\ Without(Member) \in Seq(Element)
      BY <2>7, NextMemberType, ElementLinks, TornType DEF ToBack, Turn
    <3>2. Put(Without(Member), 1, Member) \in Seq(Element)
      BY <3>1, PutType
    <3>3. CASE status[Member] = "cleared"
      BY <2>7, <3>3, IdleType DEF ToBack, Throws, TypeOK, links
    <3>4. CASE status[Member] # "cleared" /\ bottom = Member
      BY <2>7, <3>1, <3>2, <3>4, NextMemberType DEF ToBack, Turn, TypeOK, links
    <3>5. CASE status[Member] # "cleared" /\ bottom # Member
      <4>1. next' \in [Link -> Link \union {None}] /\ prev' \in [Link -> Link \union {None}]
        <5>1. next' = [TornNext(Member) EXCEPT ![Member] = bottom] /\ bottom \in Link \union {None}
          BY <2>7, <3>5 DEF ToBack, TypeOK
        <5>2. prev' = [[TornPrev(Member) EXCEPT ![Member] = None] EXCEPT ![bottom] = Member]
          BY <2>7, <3>5 DEF ToBack
        <5> QED BY <3>1, <5>1, <5>2, TornType, ExceptType
      <4>2. top' \in Link \union {None} /\ bottom' \in Link \union {None} /\ order' \in Seq(Element)
        BY <2>7, <3>1, <3>2, <3>5, TornType DEF ToBack
      <4> QED BY <2>7, <3>5, <4>1, <4>2, NextMemberType DEF ToBack, Turn, TypeOK
    <3> QED BY <3>3, <3>4, <3>5
  <2>8. CASE InsertAfter
    <3>1. Member \in Element /\ Member \in Link
      BY <2>8, NextMemberType, ElementLinks DEF InsertAfter, Turn
    <3>2. CASE ~Drawn(Beside(call.target))
      BY <2>8, <3>2, IdleType DEF InsertAfter, Throws, TypeOK, links
    <3>3. CASE Drawn(Beside(call.target))
      <4>1. Neighbour(call.target) \in Link /\ Moved(Member, Beside(call.target)) \in Seq(Element)
        BY <3>1, <3>3, NeighbourType, MovedType
      <4>2. next' \in [Link -> Link \union {None}] /\ prev' \in [Link -> Link \union {None}]
        <5> DEFINE d == Neighbour(call.target)
        <5>1. next' = [[TornNext(Member) EXCEPT ![Member] = TornNext(Member)[d]] EXCEPT ![d] = Member]
          BY <2>8, <3>3 DEF InsertAfter
        <5>2. prev' = [x \in Link |-> IF x = Member THEN d ELSE IF x = TornNext(Member)[d] THEN Member ELSE TornPrev(Member)[x]]
          BY <2>8, <3>3 DEF InsertAfter
        <5>3. d \in Link
          BY <4>1
        <5> HIDE DEF d
        <5>4. TornNext(Member)[d] \in Link \union {None} /\ TornNext(Member) \in [Link -> Link \union {None}]
          BY <3>1, <5>3, TornType
        <5>5. TornPrev(Member) \in [Link -> Link \union {None}]
          BY <3>1, TornType
        <5>6. next' \in [Link -> Link \union {None}]
          BY <3>1, <5>1, <5>4, ExceptType
        <5>7. prev' \in [Link -> Link \union {None}]
          BY <3>1, <5>2, <5>3, <5>5
        <5> QED BY <5>6, <5>7
      <4>3. top' \in Link \union {None} /\ bottom' \in Link \union {None} /\ order' \in Seq(Element)
        BY <2>8, <3>1, <3>3, <4>1, TornType DEF InsertAfter
      <4>4. astray' \in BOOLEAN
        BY <2>8, <3>3 DEF InsertAfter, TypeOK
      <4> QED BY <2>8, <3>3, <4>2, <4>3, <4>4, NextMemberType DEF InsertAfter, Turn, TypeOK
    <3> QED BY <3>2, <3>3
  <2>9. CASE InsertBefore
    <3>1. Member \in Element /\ Member \in Link
      BY <2>9, NextMemberType, ElementLinks DEF InsertBefore, Turn
    <3>2. CASE ~Drawn(Beside(call.target))
      BY <2>9, <3>2, IdleType DEF InsertBefore, Throws, TypeOK, links
    <3>3. CASE Drawn(Beside(call.target))
      <4>1. Neighbour(call.target) \in Link /\ Moved(Member, Beside(call.target)) \in Seq(Element)
        BY <3>1, <3>3, NeighbourType, MovedType
      <4>2. next' \in [Link -> Link \union {None}] /\ prev' \in [Link -> Link \union {None}]
        <5> DEFINE d == Neighbour(call.target)
        <5>1. prev' = [[TornPrev(Member) EXCEPT ![Member] = TornPrev(Member)[d]] EXCEPT ![d] = Member]
          BY <2>9, <3>3 DEF InsertBefore
        <5>2. next' = [x \in Link |-> IF x = Member THEN d ELSE IF x = TornPrev(Member)[d] THEN Member ELSE TornNext(Member)[x]]
          BY <2>9, <3>3 DEF InsertBefore
        <5>3. d \in Link
          BY <4>1
        <5> HIDE DEF d
        <5>4. TornPrev(Member)[d] \in Link \union {None} /\ TornPrev(Member) \in [Link -> Link \union {None}]
          BY <3>1, <5>3, TornType
        <5>5. TornNext(Member) \in [Link -> Link \union {None}]
          BY <3>1, TornType
        <5>6. prev' \in [Link -> Link \union {None}]
          BY <3>1, <5>1, <5>4, ExceptType
        <5>7. next' \in [Link -> Link \union {None}]
          BY <3>1, <5>2, <5>3, <5>5
        <5> QED BY <5>6, <5>7
      <4>3. top' \in Link \union {None} /\ bottom' \in Link \union {None} /\ order' \in Seq(Element)
        BY <2>9, <3>1, <3>3, <4>1, TornType DEF InsertBefore
      <4>4. astray' \in BOOLEAN
        BY <2>9, <3>3 DEF InsertBefore, TypeOK
      <4> QED BY <2>9, <3>3, <4>2, <4>3, <4>4, NextMemberType DEF InsertBefore, Turn, TypeOK
    <3> QED BY <3>2, <3>3
  <2>10. CASE UNCHANGED vars
    BY <2>10 DEF vars, links, TypeOK
  <2>11. ASSUME NEW e \in Element PROVE <<e>> \in Seq(Element)
    OBVIOUS
  <2>12. ASSUME NEW g \in Group PROVE Items[g] \in Seq(Element)
    BY ElementAssumption DEF ElementAssumption
  <2> QED BY <2>1, <2>2, <2>3, <2>4, <2>5, <2>6, <2>7, <2>8, <2>9, <2>10, <2>11, <2>12 DEF Next, Page
<1> QED BY <1>1, <1>2, PTL DEF Spec

-----------------------------------------------------------------------------
(* The list is the drawing.                                                *)

\* A step that moves no element and takes none away changes nothing here.
LEMMA SameSound ==
  ASSUME Sound, UNCHANGED links, UNCHANGED order, UNCHANGED status
  PROVE  Sound'
<1>1. next' = next /\ prev' = prev /\ top' = top /\ bottom' = bottom
  BY DEF links
<1>2. Distinct(order)'
  BY DEF Sound, Distinct
<1>3. Known'
  BY DEF Sound, Known, Drawn
<1>4. Lies(order, next, prev, top, bottom)'
  BY <1>1 DEF Sound, Lies
<1>5. Old'
  BY <1>1 DEF Sound, Old, OldBut
<1> QED BY <1>2, <1>3, <1>4, <1>5 DEF Sound

\* An element that is new.
LEMMA CreateSound ==
  ASSUME TypeOK, Sound, NEW e \in Element, Create(e)
  PROVE  Sound'
<1>1. status[e] # "drawn" /\ status[e] # "cleared"
  BY DEF Create
<1>2. next[e] = None /\ prev[e] = None /\ e # None
  BY <1>1, ElementLinks DEF Sound, Old, OldBut
<1>3. Without(e) = order
  BY <1>1, TearOther
<1>4. /\ \A x \in Link : TornNext(e)[x] = next[x] /\ TornPrev(e)[x] = prev[x]
      /\ TornTop(e) = top /\ TornBottom(e) = bottom
  <2>1. None \notin Link
    BY ElementAssumption DEF ElementAssumption, Link
  <2>2. top # e /\ bottom # e
    BY <1>1, <1>2 DEF Sound, Known, Lies, Drawn, TypeOK
  <2> QED BY <1>2, <2>1, <2>2 DEF TornNext, TornPrev, TornTop, TornBottom
<1> DEFINE n == Len(order)
<1>5. /\ order \in Seq(Element) /\ n \in Nat /\ n + 1 \in 1..(n + 1)
      /\ \A j \in 1..n : order[j] \in Element /\ order[j] \in Link /\ order[j] # e /\ status[order[j]] = "drawn"
  BY <1>1, ElementLinks DEF TypeOK, Sound, Known, Drawn
<1>6. order' = Put(order, n + 1, e)
  BY <1>5, PutEnd DEF Create
<1>7. /\ status' = [status EXCEPT ![e] = "drawn"]
      /\ next'[e] = None
      /\ prev'[e] = IF n + 1 = 1 THEN None ELSE order[n]
  <2>1. top = IF n = 0 THEN None ELSE order[n]
    BY <1>5 DEF Sound, Lies
  <2>2. prev'[e] = top /\ next'[e] = None
    BY ElementLinks DEF Create, TypeOK
  <2> QED BY <1>5, <2>1, <2>2 DEF Create
<1>8. \A j \in 1..n : /\ next'[order[j]] = IF j = n THEN e ELSE next[order[j]]
                     /\ prev'[order[j]] = prev[order[j]]
  <2>1. ASSUME NEW j \in 1..n PROVE order[j] = top <=> j = n
    BY <1>5 DEF Sound, Lies, Distinct
  <2> QED BY <1>5, <2>1 DEF Create
<1>9. \A x \in Element \ {e} : status[x] # "drawn" => next'[x] = next[x] /\ prev'[x] = prev[x]
  <2>1. top # None => status[top] = "drawn"
    BY <1>5 DEF Sound, Lies
  <2> QED BY <2>1, ElementLinks DEF Create
<1>10. top' = e /\ bottom' = IF n + 1 = 1 THEN e ELSE bottom
  <2>1. bottom = None <=> n = 0
    BY <1>5, ElementLinks DEF Sound, Lies
  <2> QED BY <1>5, <2>1 DEF Create
<1> HIDE DEF n
<1>11. n = Len(Without(e)) /\ order = Without(e)
  BY <1>3 DEF n
<1> DEFINE k == n + 1
<1>12. /\ k \in 1..(Len(Without(e)) + 1) /\ order' = Put(Without(e), k, e)
       /\ status' = [status EXCEPT ![e] = "drawn"]
       /\ k = Len(Without(e)) + 1
       /\ k # 1 => k - 1 = n /\ n \in 1..n
       /\ \A j \in 1..Len(Without(e)) : j # k /\ (j = k - 1 <=> j = n)
  BY <1>5, <1>6, <1>7, <1>11
<1>13. /\ next'[e] = IF k = Len(Without(e)) + 1 THEN None ELSE Without(e)[k]
       /\ prev'[e] = IF k = 1 THEN None ELSE Without(e)[k - 1]
       /\ top' = IF k = Len(Without(e)) + 1 THEN e ELSE TornTop(e)
       /\ bottom' = IF k = 1 THEN e ELSE TornBottom(e)
  BY <1>4, <1>7, <1>10, <1>11, <1>12
<1>14. \A j \in 1..Len(Without(e)) : next'[Without(e)[j]] = IF j = k - 1 THEN e ELSE TornNext(e)[Without(e)[j]]
  BY <1>4, <1>5, <1>8, <1>11, <1>12
<1>15. \A j \in 1..Len(Without(e)) : prev'[Without(e)[j]] = IF j = k THEN e ELSE TornPrev(e)[Without(e)[j]]
  BY <1>4, <1>5, <1>8, <1>11, <1>12
<1>16. \A x \in Element \ {e} : status[x] # "drawn" => next'[x] = TornNext(e)[x] /\ prev'[x] = TornPrev(e)[x]
  BY <1>4, <1>9, ElementLinks
<1> HIDE DEF k
<1> QED BY <1>12, <1>13, <1>14, <1>15, <1>16, MoveSound

\* The elements of a cleared paper keep their links to each other.
LEMMA ClearSound ==
  ASSUME TypeOK, Sound, Clear
  PROVE  Sound'
<1>1. order' = <<>> /\ top' = None /\ bottom' = None /\ next' = next /\ prev' = prev
  BY DEF Clear
<1>2. \A x \in Element : /\ status'[x] # "drawn" /\ ~Drawn(x)'
                         /\ status'[x] = "cleared" <=> status[x] \in {"drawn", "cleared"}
  <2>1. \A x \in Element : status'[x] = IF Drawn(x) THEN "cleared" ELSE status[x]
    BY DEF Clear
  <2> QED BY <1>1, <2>1 DEF Sound, Known, Drawn
<1>3. ASSUME NEW x \in Element, next[x] # None
      PROVE  /\ status'[x] = "cleared" /\ next[x] \in Element /\ next[x] # None
             /\ status'[next[x]] = "cleared" /\ prev[next[x]] = x
  <2>1. CASE Drawn(x)
    <3>1. PICK k \in 1..Len(order) : order[k] = x
      BY <2>1 DEF Drawn
    <3>2. k # Len(order) /\ next[x] = order[k + 1] /\ k + 1 \in 1..Len(order)
      BY <1>3, <3>1 DEF Sound, Lies, TypeOK
    <3>3. prev[order[k + 1]] = order[k] /\ order[k + 1] \in Element /\ Drawn(order[k + 1])
      BY <3>2 DEF Sound, Lies, TypeOK, Drawn
    <3> QED BY <1>2, <2>1, <3>1, <3>2, <3>3, ElementLinks DEF Sound, Known
  <2>2. CASE ~Drawn(x)
    BY <1>2, <1>3, <2>2, ElementLinks DEF Sound, Known, Old, OldBut
  <2> QED BY <2>1, <2>2
<1>4. ASSUME NEW x \in Element, prev[x] # None
      PROVE  /\ status'[x] = "cleared" /\ prev[x] \in Element /\ prev[x] # None
             /\ status'[prev[x]] = "cleared" /\ next[prev[x]] = x
  <2>1. CASE Drawn(x)
    <3>1. PICK k \in 1..Len(order) : order[k] = x
      BY <2>1 DEF Drawn
    <3>2. k # 1 /\ prev[x] = order[k - 1] /\ k - 1 \in 1..Len(order) /\ k - 1 # Len(order)
      BY <1>4, <3>1 DEF Sound, Lies, TypeOK
    <3>3. next[order[k - 1]] = order[(k - 1) + 1] /\ order[k - 1] \in Element /\ Drawn(order[k - 1])
      BY <3>2 DEF Sound, Lies, TypeOK, Drawn
    <3> QED BY <1>2, <2>1, <3>1, <3>2, <3>3, ElementLinks DEF Sound, Known
  <2>2. CASE ~Drawn(x)
    BY <1>2, <1>4, <2>2, ElementLinks DEF Sound, Known, Old, OldBut
  <2> QED BY <2>1, <2>2
<1>5. Old'
  BY <1>1, <1>3, <1>4 DEF Old, OldBut
<1>6. Distinct(order') /\ Lies(order', next', prev', top', bottom')
  BY <1>1 DEF Distinct, Lies
<1>7. Known'
  BY <1>2 DEF Known
<1> QED BY <1>5, <1>6, <1>7 DEF Sound

\* What is removed from the paper leaves a list.
LEMMA RemoveSound ==
  ASSUME TypeOK, Sound, Remove, ~astray'
  PROVE  Sound'
<1> DEFINE e == Member
<1>1. e \in Element /\ status[e] = "drawn" /\ Drawn(e)
  BY NextMemberType DEF Remove, Turn, Sound, Known
<1>2. Lies(Without(e), TornNext(e), TornPrev(e), TornTop(e), TornBottom(e)) /\ OldBut(e, TornNext(e), TornPrev(e), status)
  BY <1>1, TearLies, TearOld
<1>3. /\ Without(e) \in Seq(Element) /\ Distinct(Without(e))
      /\ \A k \in 1..Len(Without(e)) : Without(e)[k] # e /\ Drawn(Without(e)[k])
  BY WithoutDistinct DEF TypeOK, Sound
<1>4. /\ order' = Without(e) /\ status' = [status EXCEPT ![e] = "removed"]
      /\ next' = [TornNext(e) EXCEPT ![e] = None] /\ prev' = [TornPrev(e) EXCEPT ![e] = None]
      /\ top' = TornTop(e) /\ bottom' = TornBottom(e)
  BY <1>1 DEF Remove
<1>5. \A x \in Element \ {e} : Drawn(x) => \E k \in 1..Len(Without(e)) : Without(e)[k] = x
  BY WithoutOthers DEF TypeOK
<1>6. TornNext(e) \in [Link -> Link \union {None}] /\ TornPrev(e) \in [Link -> Link \union {None}] /\ status \in [Element -> {"new", "drawn", "cleared", "removed"}]
  BY <1>1, TornType DEF TypeOK
<1> HIDE DEF e
<1>7. \A x \in Link \ {e} : next'[x] = TornNext(e)[x] /\ prev'[x] = TornPrev(e)[x]
  BY <1>4, <1>6
<1>8. next'[e] = None /\ prev'[e] = None /\ status'[e] = "removed" /\ \A x \in Element \ {e} : status'[x] = status[x]
  BY <1>1, <1>4, <1>6, ElementLinks
<1>9. Lies(order', next', prev', top', bottom')
  <2>1. \A k \in 1..Len(Without(e)) : Without(e)[k] \in Link \ {e}
    BY <1>3, ElementLinks
  <2> QED BY <1>2, <1>4, <1>7, <2>1 DEF Lies
<1>10. Known'
  <2>1. \A x \in Element : Drawn(x)' <=> \E k \in 1..Len(Without(e)) : Without(e)[k] = x
    BY <1>4 DEF Drawn
  <2> QED BY <1>3, <1>5, <1>8, <2>1 DEF Sound, Known
<1>11. Old'
  <2>1. \A x \in Element \ {e} : x \in Link /\ x # None
    BY ElementLinks
  <2>2. OldBut(None, next', prev', status')
    BY <1>2, <1>7, <1>8, <2>1 DEF OldBut
  <2> QED BY <2>2 DEF Old
<1> QED BY <1>3, <1>4, <1>9, <1>10, <1>11 DEF Sound

\* The element on top comes to where it was.
LEMMA LastStays ==
  ASSUME TypeOK, Sound, NEW e \in Element, Drawn(e), top = e
  PROVE  Append(Without(e), e) = order
<1>1. /\ Without(e) \in Seq(Element) /\ Len(Without(e)) = Len(order) - 1
      /\ \A k \in 1..(Len(order) - 1) : Without(e)[k] = IF k < At(e) THEN order[k] ELSE order[k + 1]
  BY WithoutType DEF TypeOK
<1>2. At(e) \in 1..Len(order) /\ order[At(e)] = e
  BY AtDrawn
<1>3. order[Len(order)] = e /\ At(e) = Len(order)
  BY <1>2 DEF Sound, Lies, Distinct, TypeOK
<1>4. \A k \in 1..Len(order) : Append(Without(e), e)[k] = order[k]
  BY <1>1, <1>2, <1>3 DEF TypeOK
<1>5. Append(Without(e), e) \in Seq(Element) /\ Len(Append(Without(e), e)) = Len(order)
  BY <1>1, <1>2
<1> QED BY <1>4, <1>5 DEF TypeOK

\* The element at the bottom comes to where it was.
LEMMA FirstStays ==
  ASSUME TypeOK, Sound, NEW e \in Element, Drawn(e), bottom = e
  PROVE  Put(Without(e), 1, e) = order
<1>1. /\ Without(e) \in Seq(Element) /\ Len(Without(e)) = Len(order) - 1
      /\ \A k \in 1..(Len(order) - 1) : Without(e)[k] = IF k < At(e) THEN order[k] ELSE order[k + 1]
  BY WithoutType DEF TypeOK
<1>2. At(e) \in 1..Len(order) /\ order[At(e)] = e
  BY AtDrawn
<1>3. order[1] = e /\ At(e) = 1
  BY <1>2 DEF Sound, Lies, Distinct, TypeOK
<1>4. ASSUME NEW k \in 1..Len(order) PROVE Put(Without(e), 1, e)[k] = order[k]
  <2>1. Put(Without(e), 1, e)[k] = IF k = 1 THEN e ELSE Without(e)[k - 1]
    BY <1>1, <1>2, PutAt
  <2>2. k # 1 => Without(e)[k - 1] = order[(k - 1) + 1]
    BY <1>1, <1>3
  <2> QED BY <1>3, <2>1, <2>2
<1>5. Put(Without(e), 1, e) \in Seq(Element) /\ Len(Put(Without(e), 1, e)) = Len(order)
  <2>1. 1 \in 1..(Len(Without(e)) + 1) /\ Len(Without(e)) + 1 = Len(order)
    BY <1>1, <1>2
  <2> QED BY <1>1, <2>1, PutType
<1> QED BY <1>4, <1>5 DEF TypeOK

\* After e was torn out, what top and bottom are, and that old drawings have neither.
LEMMA TornEnds ==
  ASSUME TypeOK, Sound, NEW e \in Element, status[e] = "drawn"
  PROVE  LET s == Without(e) IN
         /\ s \in Seq(Element) /\ Distinct(s)
         /\ \A j \in 1..Len(s) : s[j] \in Element /\ s[j] # e /\ status[s[j]] = "drawn"
         /\ top # e => s # <<>> /\ top = s[Len(s)]
         /\ bottom # e => s # <<>> /\ bottom = s[1]
         /\ top \in Element /\ bottom \in Element /\ status[top] = "drawn" /\ status[bottom] = "drawn"
<1> DEFINE s == Without(e)
<1>1. /\ s \in Seq(Element) /\ Distinct(s)
      /\ \A j \in 1..Len(s) : s[j] # e /\ Drawn(s[j])
      /\ Lies(s, TornNext(e), TornPrev(e), TornTop(e), TornBottom(e))
  BY WithoutDistinct, TearLies DEF TypeOK, Sound
<1>2. PICK k \in 1..Len(order) : order[k] = e
  BY DEF Sound, Known, Drawn
<1>3. /\ top = order[Len(order)] /\ bottom = order[1]
      /\ 1 \in 1..Len(order) /\ Len(order) \in 1..Len(order)
      /\ order[1] \in Element /\ order[Len(order)] \in Element
  BY <1>2 DEF Sound, Lies, TypeOK
<1>4. top \in Element /\ bottom \in Element /\ status[top] = "drawn" /\ status[bottom] = "drawn"
  BY <1>3 DEF Sound, Known, Drawn
<1>5. top # e => TornTop(e) = top
  BY DEF TornTop
<1>6. bottom # e => TornBottom(e) = bottom
  BY DEF TornBottom
<1>7. \A j \in 1..Len(s) : s[j] \in Element /\ status[s[j]] = "drawn"
  BY <1>1 DEF Sound, Known
<1> HIDE DEF s
<1>8. (top # e => s # <<>> /\ top = s[Len(s)]) /\ (bottom # e => s # <<>> /\ bottom = s[1])
  BY <1>1, <1>4, <1>5, <1>6, ElementLinks DEF Lies
<1> QED BY <1>1, <1>4, <1>7, <1>8 DEF s

\* toFront.
LEMMA ToFrontSound ==
  ASSUME TypeOK, Sound, ToFront
  PROVE  Sound'
<1> DEFINE e == Member
<1>1. e \in Element /\ call.left # <<>>
  BY NextMemberType DEF ToFront, Turn
<1>2. CASE status[e] = "cleared"
  BY <1>2, SameSound DEF ToFront, Throws
<1>3. CASE status[e] = "drawn"
  <2>1. order' = Append(Without(e), e) /\ status' = status /\ Drawn(e)
    BY <1>1, <1>3 DEF ToFront, Sound, Known
  <2>2. CASE top = e
    <3>1. order' = order
      BY <1>1, <2>1, <2>2, LastStays
    <3>2. UNCHANGED links
      BY <1>3, <2>2 DEF ToFront
    <3> QED BY <2>1, <3>1, <3>2, SameSound
  <2>3. CASE top # e
    <3> DEFINE s == Without(e)
               n == Len(s)
               k == n + 1
    <3>1. /\ s \in Seq(Element) /\ Distinct(s) /\ n \in Nat
          /\ \A j \in 1..n : s[j] \in Element /\ s[j] # e /\ status[s[j]] = "drawn"
          /\ s # <<>> /\ top = s[n] /\ top \in Element /\ status[top] = "drawn"
      BY <1>1, <1>3, <2>3, TornEnds
    <3>2. TornNext(e) \in [Link -> Link \union {None}] /\ TornPrev(e) \in [Link -> Link \union {None}]
      BY <1>1, TornType
    <3>3. /\ next' = [TornNext(e) EXCEPT ![e] = None, ![top] = e] /\ prev' = [TornPrev(e) EXCEPT ![e] = top]
          /\ top' = e /\ bottom' = TornBottom(e)
      BY <1>1, <1>3, <2>3 DEF ToFront
    <3>4. TornBottom(e) = s[1] /\ n # 0
      BY <1>1, <3>1, TearLies DEF Lies
    <3> HIDE DEF s, e
    <3>5. /\ next'[e] = None /\ next'[top] = e /\ \A x \in Link : x # e /\ x # top => next'[x] = TornNext(e)[x]
          /\ prev'[e] = top /\ \A x \in Link : x # e => prev'[x] = TornPrev(e)[x]
      BY <1>1, <2>3, <3>1, <3>2, <3>3, ElementLinks
    <3>6. k \in 1..(n + 1) /\ k # 1 /\ k - 1 = n /\ n \in 1..n
      BY <3>1, <3>4
    <3>7. order' = Put(s, k, e)
      BY <1>1, <2>1, <3>1, PutEnd DEF s
    <3>8. status' = [status EXCEPT ![e] = "drawn"]
      BY <1>1, <1>3, <2>1 DEF TypeOK
    <3>9. \A j \in 1..n : next'[s[j]] = IF j = k - 1 THEN e ELSE TornNext(e)[s[j]]
      <4>1. \A j \in 1..n : s[j] = top <=> j = n
        BY <3>1, <3>6 DEF Distinct
      <4> QED BY <3>1, <3>5, <3>6, <4>1, ElementLinks
    <3>10. \A j \in 1..n : prev'[s[j]] = IF j = k THEN e ELSE TornPrev(e)[s[j]]
      BY <3>1, <3>5, <3>6, ElementLinks
    <3>11. \A x \in Element \ {e} : status[x] # "drawn" => next'[x] = TornNext(e)[x] /\ prev'[x] = TornPrev(e)[x]
      BY <3>1, <3>5, ElementLinks
    <3>12. /\ next'[e] = IF k = n + 1 THEN None ELSE s[k]
           /\ prev'[e] = IF k = 1 THEN None ELSE s[k - 1]
           /\ top' = IF k = n + 1 THEN e ELSE TornTop(e)
           /\ bottom' = IF k = 1 THEN e ELSE TornBottom(e)
      BY <3>1, <3>3, <3>5, <3>6
    <3> HIDE DEF k
    <3> QED BY <1>1, <3>6, <3>7, <3>8, <3>9, <3>10, <3>11, <3>12, MoveSound DEF s
  <2> QED BY <2>2, <2>3
<1> QED BY <1>2, <1>3 DEF ToFront

\* toBack.
LEMMA ToBackSound ==
  ASSUME TypeOK, Sound, ToBack
  PROVE  Sound'
<1> DEFINE e == Member
<1>1. e \in Element /\ call.left # <<>>
  BY NextMemberType DEF ToBack, Turn
<1>2. CASE status[e] = "cleared"
  BY <1>2, SameSound DEF ToBack, Throws
<1>3. CASE status[e] = "drawn"
  <2>1. order' = Put(Without(e), 1, e) /\ status' = status /\ Drawn(e)
    BY <1>1, <1>3 DEF ToBack, Sound, Known
  <2>2. CASE bottom = e
    <3>1. order' = order
      BY <1>1, <2>1, <2>2, FirstStays
    <3>2. UNCHANGED links
      BY <1>3, <2>2 DEF ToBack
    <3> QED BY <2>1, <3>1, <3>2, SameSound
  <2>3. CASE bottom # e
    <3> DEFINE s == Without(e)
               n == Len(s)
               k == 1
    <3>1. /\ s \in Seq(Element) /\ Distinct(s) /\ n \in Nat
          /\ \A j \in 1..n : s[j] \in Element /\ s[j] # e /\ status[s[j]] = "drawn"
          /\ s # <<>> /\ bottom = s[1] /\ bottom \in Element /\ status[bottom] = "drawn"
      BY <1>1, <1>3, <2>3, TornEnds
    <3>2. TornNext(e) \in [Link -> Link \union {None}] /\ TornPrev(e) \in [Link -> Link \union {None}]
      BY <1>1, TornType
    <3>3. /\ next' = [TornNext(e) EXCEPT ![e] = bottom] /\ prev' = [TornPrev(e) EXCEPT ![e] = None, ![bottom] = e]
          /\ bottom' = e /\ top' = TornTop(e)
      BY <1>1, <1>3, <2>3 DEF ToBack
    <3> HIDE DEF s, e
    <3>5. /\ next'[e] = bottom /\ \A x \in Link : x # e => next'[x] = TornNext(e)[x]
          /\ prev'[e] = None /\ prev'[bottom] = e /\ \A x \in Link : x # e /\ x # bottom => prev'[x] = TornPrev(e)[x]
      BY <1>1, <2>3, <3>1, <3>2, <3>3, ElementLinks
    <3>6. k \in 1..(n + 1) /\ k # n + 1 /\ 1 \in 1..n
      BY <3>1
    <3>8. status' = [status EXCEPT ![e] = "drawn"]
      BY <1>1, <1>3, <2>1 DEF TypeOK
    <3>9. \A j \in 1..n : next'[s[j]] = IF j = k - 1 THEN e ELSE TornNext(e)[s[j]]
      BY <3>1, <3>5, <3>6, ElementLinks
    <3>10. \A j \in 1..n : prev'[s[j]] = IF j = k THEN e ELSE TornPrev(e)[s[j]]
      <4>1. \A j \in 1..n : s[j] = bottom <=> j = 1
        BY <3>1, <3>6 DEF Distinct
      <4> QED BY <3>1, <3>5, <3>6, <4>1, ElementLinks
    <3>11. \A x \in Element \ {e} : status[x] # "drawn" => next'[x] = TornNext(e)[x] /\ prev'[x] = TornPrev(e)[x]
      BY <3>1, <3>5, ElementLinks
    <3>12. /\ next'[e] = IF k = n + 1 THEN None ELSE s[k]
           /\ prev'[e] = IF k = 1 THEN None ELSE s[k - 1]
           /\ top' = IF k = n + 1 THEN e ELSE TornTop(e)
           /\ bottom' = IF k = 1 THEN e ELSE TornBottom(e)
      BY <3>1, <3>3, <3>5, <3>6
    <3>13. order' = Put(s, k, e)
      BY <2>1 DEF s, e
    <3> HIDE DEF k
    <3> QED BY <1>1, <3>6, <3>8, <3>9, <3>10, <3>11, <3>12, <3>13, MoveSound DEF s
  <2> QED BY <2>2, <2>3
<1> QED BY <1>2, <1>3 DEF ToBack

\* insertAfter, as long as nothing goes astray.
LEMMA InsertAfterSound ==
  ASSUME TypeOK, Sound, InsertAfter, ~astray'
  PROVE  Sound'
<1> DEFINE e == Member
           d == Neighbour(call.target)
<1>1. e \in Element /\ call.left # <<>> /\ call.method = "insertAfter"
  BY NextMemberType DEF InsertAfter, Turn
<1>2. CASE ~Drawn(Beside(call.target))
  BY <1>2, SameSound DEF InsertAfter, Throws
<1>3. CASE Drawn(Beside(call.target))
  <2>1. d \in Element /\ d = Beside(call.target) /\ d # e /\ Drawn(d)
    <3>1. ~Wrong(e, d)
      BY <1>3 DEF InsertAfter
    <3> QED BY <1>3, <3>1, NeighbourType DEF Wrong
  <2> DEFINE s == Without(e)
             n == Len(s)
  <2>2. PICK i \in 1..n : s[i] = d /\ order' = Put(s, i + 1, e)
    <3>1. order' = Moved(e, d)
      BY <1>3, <2>1 DEF InsertAfter
    <3> QED BY <1>1, <2>1, <3>1, MovedType
  <2> DEFINE k == i + 1
  <2>3. /\ s \in Seq(Element) /\ Distinct(s) /\ n \in Nat
        /\ \A j \in 1..n : s[j] \in Element /\ s[j] # e /\ status[s[j]] = "drawn"
    BY <1>1, WithoutDistinct DEF TypeOK, Sound, Known
  <2>4. Lies(s, TornNext(e), TornPrev(e), TornTop(e), TornBottom(e))
    BY <1>1, TearLies
  <2>5. TornNext(e) \in [Link -> Link \union {None}] /\ TornPrev(e) \in [Link -> Link \union {None}]
    BY <1>1, TornType
  <2>6. /\ next' = [TornNext(e) EXCEPT ![e] = TornNext(e)[d], ![d] = e]
        /\ prev' = [x \in Link |-> IF x = e THEN d ELSE IF x = TornNext(e)[d] THEN e ELSE TornPrev(e)[x]]
        /\ top' = (IF TornTop(e) = d THEN e ELSE TornTop(e)) /\ bottom' = TornBottom(e)
        /\ status' = [status EXCEPT ![e] = "drawn"]
    BY <1>1, <1>3 DEF InsertAfter
  <2> HIDE DEF s, e, d
  <2>7. TornNext(e)[d] = (IF i = n THEN None ELSE s[i + 1]) /\ TornTop(e) = s[n]
    BY <2>2, <2>3, <2>4 DEF Lies
  <2>8. /\ next'[e] = TornNext(e)[d] /\ next'[d] = e /\ \A x \in Link : x # e /\ x # d => next'[x] = TornNext(e)[x]
        /\ prev'[e] = d /\ \A x \in Link : x # e /\ x # TornNext(e)[d] => prev'[x] = TornPrev(e)[x]
        /\ \A x \in Link : x # e /\ x = TornNext(e)[d] => prev'[x] = e
    BY <1>1, <2>1, <2>5, <2>6, ElementLinks
  <2>9. k \in 1..(n + 1) /\ k # 1 /\ k - 1 = i /\ (k = n + 1 <=> i = n) /\ n \in 1..n
    BY <2>2, <2>3
  <2>10. \A j \in 1..n : next'[s[j]] = IF j = k - 1 THEN e ELSE TornNext(e)[s[j]]
    <3>1. \A j \in 1..n : s[j] = d <=> j = i
      BY <2>2, <2>3 DEF Distinct
    <3> QED BY <2>2, <2>3, <2>8, <2>9, <3>1, ElementLinks
  <2>11. \A j \in 1..n : prev'[s[j]] = IF j = k THEN e ELSE TornPrev(e)[s[j]]
    <3>1. \A j \in 1..n : s[j] = TornNext(e)[d] <=> j = k
      BY <2>2, <2>3, <2>7, ElementLinks DEF Distinct
    <3> QED BY <2>3, <2>8, <3>1, ElementLinks
  <2>12. \A x \in Element \ {e} : status[x] # "drawn" => next'[x] = TornNext(e)[x] /\ prev'[x] = TornPrev(e)[x]
    <3>1. status[d] = "drawn" /\ (TornNext(e)[d] # None => status[TornNext(e)[d]] = "drawn")
      BY <2>2, <2>3, <2>7
    <3> QED BY <2>8, <3>1, ElementLinks
  <2>13. /\ next'[e] = IF k = n + 1 THEN None ELSE s[k]
         /\ prev'[e] = IF k = 1 THEN None ELSE s[k - 1]
         /\ bottom' = IF k = 1 THEN e ELSE TornBottom(e)
    BY <2>2, <2>6, <2>7, <2>8, <2>9
  <2>14. top' = IF k = n + 1 THEN e ELSE TornTop(e)
    <3>1. s[n] = d <=> i = n
      BY <2>2, <2>3, <2>9 DEF Distinct
    <3> QED BY <2>6, <2>7, <2>9, <3>1
  <2>15. order' = Put(s, k, e)
    BY <2>2
  <2> HIDE DEF k
  <2> QED BY <1>1, <2>6, <2>9, <2>10, <2>11, <2>12, <2>13, <2>14, <2>15, MoveSound DEF s
<1> QED BY <1>2, <1>3

\* insertBefore, as long as nothing goes astray.
LEMMA InsertBeforeSound ==
  ASSUME TypeOK, Sound, InsertBefore, ~astray'
  PROVE  Sound'
<1> DEFINE e == Member
           d == Neighbour(call.target)
<1>1. e \in Element /\ call.left # <<>> /\ call.method = "insertBefore"
  BY NextMemberType DEF InsertBefore, Turn
<1>2. CASE ~Drawn(Beside(call.target))
  BY <1>2, SameSound DEF InsertBefore, Throws
<1>3. CASE Drawn(Beside(call.target))
  <2>1. d \in Element /\ d = Beside(call.target) /\ d # e /\ Drawn(d)
    <3>1. ~Wrong(e, d)
      BY <1>3 DEF InsertBefore
    <3> QED BY <1>3, <3>1, NeighbourType DEF Wrong
  <2> DEFINE s == Without(e)
             n == Len(s)
  <2>2. PICK k \in 1..n : s[k] = d /\ order' = Put(s, k, e)
    <3>1. order' = Moved(e, d)
      BY <1>3, <2>1 DEF InsertBefore
    <3> QED BY <1>1, <2>1, <3>1, MovedType
  <2>3. /\ s \in Seq(Element) /\ Distinct(s) /\ n \in Nat
        /\ \A j \in 1..n : s[j] \in Element /\ s[j] # e /\ status[s[j]] = "drawn"
    BY <1>1, WithoutDistinct DEF TypeOK, Sound, Known
  <2>4. Lies(s, TornNext(e), TornPrev(e), TornTop(e), TornBottom(e))
    BY <1>1, TearLies
  <2>5. TornNext(e) \in [Link -> Link \union {None}] /\ TornPrev(e) \in [Link -> Link \union {None}]
    BY <1>1, TornType
  <2>6. /\ prev' = [TornPrev(e) EXCEPT ![e] = TornPrev(e)[d], ![d] = e]
        /\ next' = [x \in Link |-> IF x = e THEN d ELSE IF x = TornPrev(e)[d] THEN e ELSE TornNext(e)[x]]
        /\ bottom' = (IF TornBottom(e) = d THEN e ELSE TornBottom(e)) /\ top' = TornTop(e)
        /\ status' = [status EXCEPT ![e] = "drawn"]
    BY <1>1, <1>3 DEF InsertBefore
  <2> HIDE DEF s, e, d
  <2>7. TornPrev(e)[d] = (IF k = 1 THEN None ELSE s[k - 1]) /\ TornBottom(e) = s[1]
    BY <2>2, <2>3, <2>4 DEF Lies
  <2>8. /\ prev'[e] = TornPrev(e)[d] /\ prev'[d] = e /\ \A x \in Link : x # e /\ x # d => prev'[x] = TornPrev(e)[x]
        /\ next'[e] = d /\ \A x \in Link : x # e /\ x # TornPrev(e)[d] => next'[x] = TornNext(e)[x]
        /\ \A x \in Link : x # e /\ x = TornPrev(e)[d] => next'[x] = e
    BY <1>1, <2>1, <2>5, <2>6, ElementLinks
  <2>9. k \in 1..(n + 1) /\ k # n + 1 /\ 1 \in 1..n /\ (k # 1 => k - 1 \in 1..n)
    BY <2>2, <2>3
  <2>10. \A j \in 1..n : prev'[s[j]] = IF j = k THEN e ELSE TornPrev(e)[s[j]]
    <3>1. \A j \in 1..n : s[j] = d <=> j = k
      BY <2>2, <2>3 DEF Distinct
    <3> QED BY <2>2, <2>3, <2>8, <3>1, ElementLinks
  <2>11. \A j \in 1..n : next'[s[j]] = IF j = k - 1 THEN e ELSE TornNext(e)[s[j]]
    <3>1. \A j \in 1..n : s[j] = TornPrev(e)[d] <=> j = k - 1
      BY <2>2, <2>3, <2>7, <2>9, ElementLinks DEF Distinct
    <3> QED BY <2>3, <2>8, <3>1, ElementLinks
  <2>12. \A x \in Element \ {e} : status[x] # "drawn" => next'[x] = TornNext(e)[x] /\ prev'[x] = TornPrev(e)[x]
    <3>1. status[d] = "drawn" /\ (TornPrev(e)[d] # None => status[TornPrev(e)[d]] = "drawn")
      BY <2>2, <2>3, <2>7, <2>9
    <3> QED BY <2>8, <3>1, ElementLinks
  <2>13. /\ next'[e] = IF k = n + 1 THEN None ELSE s[k]
         /\ prev'[e] = IF k = 1 THEN None ELSE s[k - 1]
         /\ top' = IF k = n + 1 THEN e ELSE TornTop(e)
    BY <2>2, <2>6, <2>7, <2>8, <2>9
  <2>14. bottom' = IF k = 1 THEN e ELSE TornBottom(e)
    <3>1. s[1] = d <=> k = 1
      BY <2>2, <2>3, <2>9 DEF Distinct
    <3> QED BY <2>6, <2>7, <3>1
  <2> QED BY <1>1, <2>2, <2>6, <2>9, <2>10, <2>11, <2>12, <2>13, <2>14, MoveSound DEF s
<1> QED BY <1>2, <1>3

\* The list is that of the drawing, and the links that cleared elements keep lead to each other.
THEOREM ListSound == Spec => []ListInv
<1>1. Init => Sound
  <2> SUFFICES ASSUME Init PROVE Sound
    OBVIOUS
  <2>1. \A x \in Element : next[x] = None /\ prev[x] = None /\ status[x] = "new"
    BY ElementLinks DEF Init
  <2>2. order = <<>> /\ top = None /\ bottom = None
    BY DEF Init
  <2> QED BY <2>1, <2>2 DEF Sound, Distinct, Known, Lies, Drawn, Old, OldBut
<1>2. TypeOK /\ (~astray => Sound) /\ [Next]_vars => (~astray' => Sound')
  <2> SUFFICES ASSUME TypeOK, ~astray => Sound, [Next]_vars, ~astray' PROVE Sound'
    OBVIOUS
  <2>1. ~astray
    BY DEF Next, Page, Create, Clear, Call, OfRemoved, Remove, ToFront, ToBack, InsertAfter, InsertBefore,
           Throws, vars
  <2>2. ASSUME NEW e \in Element, Create(e) PROVE Sound'
    BY <2>1, <2>2, CreateSound
  <2>3. CASE Clear
    BY <2>1, <2>3, ClearSound
  <2>4. ASSUME NEW m, NEW s, NEW d, Call(m, s, d) PROVE Sound'
    BY <2>1, <2>4, SameSound DEF Call
  <2>5. CASE OfRemoved
    BY <2>1, <2>5, SameSound DEF OfRemoved
  <2>6. CASE Remove
    BY <2>1, <2>6, RemoveSound
  <2>7. CASE ToFront
    BY <2>1, <2>7, ToFrontSound
  <2>8. CASE ToBack
    BY <2>1, <2>8, ToBackSound
  <2>9. CASE InsertAfter
    BY <2>1, <2>9, InsertAfterSound
  <2>10. CASE InsertBefore
    BY <2>1, <2>10, InsertBeforeSound
  <2>11. CASE UNCHANGED vars
    BY <2>1, <2>11, SameSound DEF vars
  <2> QED BY <2>2, <2>3, <2>4, <2>5, <2>6, <2>7, <2>8, <2>9, <2>10, <2>11 DEF Next, Page
<1> QED BY <1>1, <1>2, TypeCorrect, PTL DEF Spec, ListInv

\* What the run checks on four elements and a set, for any of them (tear to insertbefore).
THEOREM LinkedHolds == Spec => []Linked
<1>1. ListInv => Linked
  BY DEF ListInv, Sound, Lies, Linked
<1> QED BY <1>1, ListSound, PTL

-----------------------------------------------------------------------------
(***************************************************************************)
(* The members of a set that is moved.  Those that a call has been through *)
(* lie in line: in the order they were called in, each nearer than the one *)
(* before to where they are moved to, which is an end of the drawing or an *)
(* element that stays where it is.                                         *)
(***************************************************************************)

\* x is somewhere before y in s.
Prec(s, x, y) == \E i, j \in 1..Len(s) : i < j /\ s[i] = x /\ s[j] = y

Line == Sequence(call.method, call.items)
Progress == Len(call.items) - Len(call.left)
Settled == {Line[k] : k \in 1..Progress}

InLine(x, y) == IF call.method \in {"toFront", "insertBefore"} THEN Prec(order, x, y) ELSE Prec(order, y, x)
Anchored == call.method \in {"insertAfter", "insertBefore"}

\* Nothing lies between a member that was moved and the place it was moved to but such members.
Gathered ==
  /\ \A d \in {Beside(call.target)}, x \in Settled : Drawn(x) =>
       /\ Anchored => InLine(x, d)
       /\ \A y \in Element : InLine(x, y) /\ (Anchored => InLine(y, d)) => y \in Settled
  /\ \A j, k \in 1..Progress : \A x \in {Line[j]}, y \in {Line[k]} :
       j < k /\ Drawn(x) /\ Drawn(y) => InLine(x, y)

\* The members that are left are the last of the line.
InCall ==
  /\ Distinct(call.items) /\ Len(call.left) <= Len(call.items)
  /\ \A k \in 1..Len(call.left) : call.left[k] = Line[Progress + k]

Gathering == call.method \notin {"none", "remove"} /\ ~astray /\ Beside(call.target) \notin Members

GatherInv == InCall /\ (Gathering => Gathered)

\* What is before what, when an element is put into a sequence.
LEMMA PrecPut ==
  ASSUME NEW S, NEW s \in Seq(S), NEW k \in 1..(Len(s) + 1), NEW e \in S, \A j \in 1..Len(s) : s[j] # e
  PROVE  /\ \A x, y : x # e /\ y # e => (Prec(Put(s, k, e), x, y) <=> Prec(s, x, y))
         /\ \A x : Prec(Put(s, k, e), x, e) <=> \E i \in 1..Len(s) : i < k /\ s[i] = x
         /\ \A y : Prec(Put(s, k, e), e, y) <=> \E i \in 1..Len(s) : i >= k /\ s[i] = y
<1> DEFINE p == Put(s, k, e)
<1>1. Len(p) = Len(s) + 1 /\ Len(s) \in Nat
  BY PutType
<1>2. \A j \in 1..(Len(s) + 1) : p[j] = IF j < k THEN s[j] ELSE IF j = k THEN e ELSE s[j - 1]
  BY PutAt
<1> HIDE DEF p
<1>3. \A j \in 1..Len(p) :
        \/ j < k /\ j \in 1..Len(s) /\ p[j] = s[j]
        \/ j = k /\ p[j] = e
        \/ j > k /\ j - 1 \in 1..Len(s) /\ p[j] = s[j - 1]
  BY <1>1, <1>2
<1>4. \A i \in 1..Len(s) : i < k => i \in 1..Len(p) /\ p[i] = s[i]
  BY <1>1, <1>2
<1>5. \A i \in 1..Len(s) : i >= k => i + 1 \in 1..Len(p) /\ p[i + 1] = s[i]
  BY <1>1, <1>2
<1>6. k \in 1..Len(p) /\ p[k] = e
  BY <1>1, <1>2
<1>7. ASSUME NEW x, NEW y, x # e, y # e PROVE Prec(p, x, y) <=> Prec(s, x, y)
  <2>1. ASSUME Prec(p, x, y) PROVE Prec(s, x, y)
    <3>1. PICK i \in 1..Len(p), j \in 1..Len(p) : i < j /\ p[i] = x /\ p[j] = y
      BY <2>1 DEF Prec
    <3>2. PICK a \in 1..Len(s) : s[a] = x /\ ((i < k /\ a = i) \/ (i > k /\ a = i - 1))
      BY <1>3, <1>7, <3>1
    <3>3. PICK b \in 1..Len(s) : s[b] = y /\ ((j < k /\ b = j) \/ (j > k /\ b = j - 1))
      BY <1>3, <1>7, <3>1
    <3>4. a < b
      BY <1>1, <3>1, <3>2, <3>3
    <3> QED BY <3>2, <3>3, <3>4 DEF Prec
  <2>2. ASSUME Prec(s, x, y) PROVE Prec(p, x, y)
    <3>1. PICK i \in 1..Len(s), j \in 1..Len(s) : i < j /\ s[i] = x /\ s[j] = y
      BY <2>2 DEF Prec
    <3>a. \A c \in 1..Len(s) : \E a \in 1..Len(p) :
            p[a] = s[c] /\ ((c < k /\ a = c) \/ (c >= k /\ a = c + 1))
      <4> TAKE c \in 1..Len(s)
      <4>1. CASE c < k
        BY <1>4, <4>1
      <4>2. CASE c >= k
        BY <1>5, <4>2
      <4> QED BY <4>1, <4>2
    <3>2. PICK a \in 1..Len(p) : p[a] = x /\ ((i < k /\ a = i) \/ (i >= k /\ a = i + 1))
      BY <3>1, <3>a
    <3>3. PICK b \in 1..Len(p) : p[b] = y /\ ((j < k /\ b = j) \/ (j >= k /\ b = j + 1))
      BY <3>1, <3>a
    <3>4. a < b
      BY <3>1, <3>2, <3>3
    <3> QED BY <3>2, <3>3, <3>4 DEF Prec
  <2> QED BY <2>1, <2>2
<1>8. ASSUME NEW x PROVE Prec(p, x, e) <=> \E i \in 1..Len(s) : i < k /\ s[i] = x
  <2>1. ASSUME Prec(p, x, e) PROVE \E i \in 1..Len(s) : i < k /\ s[i] = x
    <3>1. PICK i \in 1..Len(p), j \in 1..Len(p) : i < j /\ p[i] = x /\ p[j] = e
      BY <2>1 DEF Prec
    <3>2. j = k
      BY <1>3, <3>1
    <3> QED BY <1>3, <3>1, <3>2
  <2>2. ASSUME NEW i \in 1..Len(s), i < k, s[i] = x PROVE Prec(p, x, e)
    BY <1>4, <1>6, <2>2 DEF Prec
  <2> QED BY <2>1, <2>2
<1>9. ASSUME NEW y PROVE Prec(p, e, y) <=> \E i \in 1..Len(s) : i >= k /\ s[i] = y
  <2>1. ASSUME Prec(p, e, y) PROVE \E i \in 1..Len(s) : i >= k /\ s[i] = y
    <3>1. PICK i \in 1..Len(p), j \in 1..Len(p) : i < j /\ p[i] = e /\ p[j] = y
      BY <2>1 DEF Prec
    <3>2. i = k /\ j > k
      BY <1>3, <3>1
    <3>3. j - 1 \in 1..Len(s) /\ p[j] = s[j - 1] /\ j - 1 >= k
      BY <1>3, <3>2
    <3> QED BY <3>1, <3>3
  <2>2. ASSUME NEW i \in 1..Len(s), i >= k, s[i] = y PROVE Prec(p, e, y)
    <3>1. i + 1 \in 1..Len(p) /\ p[i + 1] = y /\ k < i + 1
      BY <1>5, <2>2
    <3> QED BY <1>6, <3>1 DEF Prec
  <2> QED BY <2>1, <2>2
<1> QED BY <1>7, <1>8, <1>9 DEF p

\* Taking an element out changes nothing between the others.
LEMMA PrecWithout ==
  ASSUME order \in Seq(Element), NEW e, NEW x, NEW y, x # e, y # e
  PROVE  Prec(Without(e), x, y) <=> Prec(order, x, y)
<1>1. CASE ~Drawn(e)
  BY <1>1 DEF Without
<1>2. CASE Drawn(e)
  <2> DEFINE s == Without(e)
             p == At(e)
             n == Len(order)
  <2>1. p \in 1..n /\ order[p] = e /\ Len(s) = n - 1 /\ n \in Nat
        /\ \A k \in 1..(n - 1) : s[k] = IF k < p THEN order[k] ELSE order[k + 1]
    BY <1>2, AtDrawn, WithoutType
  <2> HIDE DEF s, p, n
  <2>2. \A k \in 1..Len(s) : \/ k < p /\ k \in 1..n /\ s[k] = order[k]
                             \/ k >= p /\ k + 1 \in 1..n /\ s[k] = order[k + 1]
    BY <2>1
  <2>3. \A k \in 1..n : \/ k < p /\ k \in 1..Len(s) /\ order[k] = s[k]
                        \/ k = p
                        \/ k > p /\ k - 1 \in 1..Len(s) /\ order[k] = s[k - 1]
    BY <2>1
  <2>4. ASSUME Prec(s, x, y) PROVE Prec(order, x, y)
    <3>1. PICK i \in 1..Len(s), j \in 1..Len(s) : i < j /\ s[i] = x /\ s[j] = y
      BY <2>4 DEF Prec
    <3>2. PICK a \in 1..n : order[a] = x /\ ((i < p /\ a = i) \/ (i >= p /\ a = i + 1))
      BY <2>2, <3>1
    <3>3. PICK b \in 1..n : order[b] = y /\ ((j < p /\ b = j) \/ (j >= p /\ b = j + 1))
      BY <2>2, <3>1
    <3>4. a < b
      BY <2>1, <3>1, <3>2, <3>3
    <3> QED BY <3>2, <3>3, <3>4 DEF Prec, n
  <2>5. ASSUME Prec(order, x, y) PROVE Prec(s, x, y)
    <3>1. PICK i \in 1..n, j \in 1..n : i < j /\ order[i] = x /\ order[j] = y
      BY <2>5 DEF Prec, n
    <3>2. PICK a \in 1..Len(s) : s[a] = x /\ ((i < p /\ a = i) \/ (i > p /\ a = i - 1))
      BY <2>1, <2>3, <3>1
    <3>3. PICK b \in 1..Len(s) : s[b] = y /\ ((j < p /\ b = j) \/ (j > p /\ b = j - 1))
      BY <2>1, <2>3, <3>1
    <3>4. a < b
      BY <2>1, <3>1, <3>2, <3>3
    <3> QED BY <3>2, <3>3, <3>4 DEF Prec
  <2> QED BY <2>4, <2>5 DEF s
<1> QED BY <1>1, <1>2

\* Of two distinct places one is before the other.
LEMMA PrecStrict ==
  ASSUME NEW S, NEW s \in Seq(S), Distinct(s), NEW x, NEW y, Prec(s, x, y)
  PROVE  x # y /\ ~Prec(s, y, x)
<1>1. PICK i \in 1..Len(s), j \in 1..Len(s) : i < j /\ s[i] = x /\ s[j] = y
  BY DEF Prec
<1>2. \A k \in 1..Len(s) : (s[k] = x => k = i) /\ (s[k] = y => k = j)
  BY <1>1 DEF Distinct
<1> QED BY <1>1, <1>2 DEF Prec

\* What is drawn is before or after something only where it is drawn.
LEMMA PrecDrawn ==
  ASSUME NEW x, NEW y, Prec(order, x, y)
  PROVE  Drawn(x) /\ Drawn(y)
BY DEF Prec, Drawn

\* The members in the order they are called in are distinct, as the items are.
LEMMA LineDistinct ==
  ASSUME TypeOK, InCall
  PROVE  /\ Line \in Seq(Element) /\ Len(Line) = Len(call.items) /\ Distinct(Line)
         /\ \A k \in 1..Len(Line) : Line[k] \in Members
         /\ \A x \in Members : \E k \in 1..Len(Line) : Line[k] = x
<1> DEFINE s == call.items
           n == Len(s)
<1>1. s \in Seq(Element) /\ n \in Nat /\ Distinct(s)
  BY DEF TypeOK, InCall
<1>2. Line \in Seq(Element)
  BY <1>1, SequenceType DEF Line
<1>3. CASE call.method # "insertAfter"
  <2>1. Line = s
    BY <1>3 DEF Line, Sequence
  <2> QED BY <1>1, <1>2, <2>1 DEF Members
<1>4. CASE call.method = "insertAfter"
  <2>1. Line = [k \in 1..n |-> s[n + 1 - k]]
    BY <1>4 DEF Line, Sequence
  <2> HIDE DEF s, n
  <2>2. Len(Line) = n /\ \A k \in 1..n : Line[k] = s[n + 1 - k] /\ n + 1 - k \in 1..n
    BY <1>1, <1>2, <2>1
  <2>3. Distinct(Line)
    <3> SUFFICES ASSUME NEW j \in 1..n, NEW k \in 1..n, Line[j] = Line[k] PROVE j = k
      BY <2>2 DEF Distinct
    <3>1. n + 1 - j \in 1..Len(s) /\ n + 1 - k \in 1..Len(s) /\ s[n + 1 - j] = s[n + 1 - k]
      BY <2>2 DEF n
    <3>2. n + 1 - j = n + 1 - k
      BY <1>1, <3>1 DEF Distinct
    <3> QED BY <1>1, <3>2
  <2>4. \A k \in 1..Len(Line) : Line[k] \in Members
    BY <2>2 DEF Members, s, n
  <2>5. ASSUME NEW x \in Members PROVE \E k \in 1..Len(Line) : Line[k] = x
    <3>1. PICK i \in 1..n : s[i] = x
      BY DEF Members, s, n
    <3>2. n + 1 - i \in 1..n /\ n + 1 - (n + 1 - i) = i
      BY <1>1
    <3>3. Line[n + 1 - i] = x
      BY <2>2, <3>1, <3>2
    <3> QED BY <2>2, <3>2, <3>3
  <2> QED BY <1>2, <2>2, <2>3, <2>4, <2>5 DEF n, s
<1> QED BY <1>3, <1>4

\* The call goes on to its next member.
LEMMA LineStep ==
  ASSUME TypeOK, InCall, call.left # <<>>, NextMember
  PROVE  /\ InCall' /\ Line' = Line /\ Progress' = Progress + 1 /\ Progress \in Nat
         /\ Progress + 1 \in 1..Len(Line) /\ Line[Progress + 1] = Member
         /\ Settled' = Settled \union {Member} /\ Member \notin Settled
         /\ Member \in Members /\ Member \in Element /\ Settled \subseteq Members
         /\ call'.method = call.method /\ call'.target = call.target /\ call'.items = call.items
         /\ Members' = Members /\ Beside(call.target)' = Beside(call.target)
<1> DEFINE s == call.items
           l == call.left
<1>1. s \in Seq(Element) /\ l \in Seq(Element) /\ Len(s) \in Nat /\ Len(l) \in Nat \ {0} /\ Len(l) <= Len(s)
  BY DEF TypeOK, InCall
<1>2. /\ call'.method = call.method /\ call'.target = call.target /\ call'.items = s /\ call'.left = Tail(l)
  BY DEF NextMember, TypeOK
<1>3. /\ Line \in Seq(Element) /\ Len(Line) = Len(s) /\ Distinct(Line)
      /\ \A k \in 1..Len(Line) : Line[k] \in Members
  BY LineDistinct
<1>4. Line' = Line /\ Members' = Members
  BY <1>2 DEF Line, Members
<1>5. Beside(call.target)' = Beside(call.target)
  BY <1>2 DEF Beside
<1>6. /\ Tail(l) \in Seq(Element) /\ Len(Tail(l)) = Len(l) - 1 /\ Head(l) = l[1]
      /\ \A k \in 1..(Len(l) - 1) : Tail(l)[k] = l[k + 1]
  BY <1>1
<1>a. Progress = Len(s) - Len(l) /\ Progress' = Len(s) - Len(Tail(l))
  BY <1>2 DEF Progress
<1> HIDE DEF s, l
<1>7. Progress' = Progress + 1 /\ Progress \in Nat /\ Progress + 1 \in 1..Len(Line)
  BY <1>1, <1>3, <1>6, <1>a
<1>8. Line[Progress + 1] = Member
  <2>1. \A k \in 1..Len(l) : l[k] = Line[Progress + k]
    BY DEF InCall, l
  <2>2. 1 \in 1..Len(l)
    BY <1>1
  <2>3. Progress + 1 = Progress + 1 /\ l[1] = Line[Progress + 1]
    BY <2>1, <2>2
  <2> QED BY <1>6, <2>3 DEF Member, l
<1>9. Settled' = Settled \union {Member}
  <2>1. Settled' = {Line[k] : k \in 1..(Progress + 1)}
    BY <1>4, <1>7 DEF Settled
  <2>2. 1..(Progress + 1) = 1..Progress \union {Progress + 1}
    BY <1>7
  <2> QED BY <1>8, <2>1, <2>2 DEF Settled
<1>10. Member \notin Settled /\ Settled \subseteq Members
  <2>1. \A k \in 1..Progress : k \in 1..Len(Line) /\ k # Progress + 1
    BY <1>3, <1>7, <1>1
  <2>2. \A k \in 1..Progress : Line[k] \in Members /\ Line[k] # Line[Progress + 1]
    BY <1>3, <1>7, <2>1 DEF Distinct
  <2> QED BY <1>8, <2>2 DEF Settled
<1>11. InCall'
  <2>1. Len(Tail(l)) <= Len(s) /\ Distinct(s)
    BY <1>1, <1>6 DEF InCall, s
  <2>2. ASSUME NEW k \in 1..Len(Tail(l)) PROVE Tail(l)[k] = Line[(Progress + 1) + k]
    <3>1. k + 1 \in 1..Len(l) /\ Progress + (k + 1) = (Progress + 1) + k /\ k \in 1..(Len(l) - 1)
      BY <1>1, <1>6, <1>7
    <3>2. l[k + 1] = Line[Progress + (k + 1)]
      BY <3>1 DEF InCall, l
    <3> QED BY <1>6, <3>1, <3>2
  <2> QED BY <1>2, <1>4, <1>7, <2>1, <2>2 DEF InCall, s, l
<1>12. Member \in Members /\ Member \in Element
  <2>1. Line[Progress + 1] \in Members /\ Line[Progress + 1] \in Element
    BY <1>3, <1>7
  <2> QED BY <1>8, <2>1
<1> QED BY <1>2, <1>4, <1>5, <1>7, <1>8, <1>9, <1>10, <1>11, <1>12 DEF s

\* A step of the call that moves nothing: its member is not on the paper.
LEMMA SkipGathers ==
  ASSUME TypeOK, InCall, Gathering => Gathered, call.left # <<>>, NextMember, ~Drawn(Member),
         order' = order, astray' = astray
  PROVE  GatherInv'
<1>1. /\ InCall' /\ Line' = Line /\ Progress' = Progress + 1 /\ Progress \in Nat
      /\ Line[Progress + 1] = Member /\ Settled' = Settled \union {Member}
      /\ call'.method = call.method /\ call'.target = call.target
      /\ Members' = Members /\ Beside(call.target)' = Beside(call.target)
  BY LineStep
<1>2. ASSUME Gathering' PROVE Gathered'
  <2>1. Gathered
    BY <1>1, <1>2 DEF Gathering
  <2>2. \A x, y : InLine(x, y)' <=> InLine(x, y)
    BY <1>1 DEF InLine
  <2>3. (\A x : Drawn(x)' <=> Drawn(x)) /\ (Anchored' <=> Anchored)
    BY <1>1 DEF Drawn, Anchored
  <2>4. ASSUME NEW d, d = Beside(call.target), NEW x \in Settled', Drawn(x)
        PROVE  /\ Anchored => InLine(x, d)
               /\ \A y \in Element : InLine(x, y) /\ (Anchored => InLine(y, d)) => y \in Settled'
    BY <1>1, <2>1, <2>4 DEF Gathered
  <2>5. ASSUME NEW j \in 1..(Progress + 1), NEW k \in 1..(Progress + 1), NEW x, NEW y, x = Line[j], y = Line[k],
               j < k, Drawn(x), Drawn(y)
        PROVE  InLine(x, y)
    <3>1. j \in 1..Progress /\ k \in 1..Progress
      BY <1>1, <2>5
    <3> QED BY <2>1, <2>5, <3>1 DEF Gathered
  <2> QED BY <1>1, <2>2, <2>3, <2>4, <2>5 DEF Gathered
<1> QED BY <1>1, <1>2 DEF GatherInv

\* A step that moves its member to its place in the line.
LEMMA MoveGathers ==
  ASSUME TypeOK, InCall, Gathering => Gathered, call.left # <<>>, NextMember, astray' = astray,
         NEW e, e = Member, NEW d, d = Beside(call.target),
         \A x : Drawn(x)' <=> Drawn(x) \/ x = e,
         \A x, y : x # e /\ y # e => (InLine(x, y)' <=> InLine(x, y)),
         \A x, y : InLine(x, y) => x # y /\ ~InLine(y, x) /\ Drawn(x) /\ Drawn(y),
         \A x, y : InLine(x, y)' => x # y /\ ~InLine(y, x)',
         Anchored /\ d # e =>
           /\ InLine(e, d)' /\ \A x : x # e => (InLine(x, e)' <=> InLine(x, d))
           /\ \A y : InLine(e, y)' => y = d \/ InLine(d, y),
         ~Anchored => \A x : (InLine(x, e)' <=> Drawn(x) /\ x # e) /\ ~InLine(e, x)'
  PROVE  GatherInv'
<1>1. /\ InCall' /\ Line' = Line /\ Progress' = Progress + 1 /\ Progress \in Nat
      /\ Progress + 1 \in 1..Len(Line) /\ Line[Progress + 1] = e
      /\ Settled' = Settled \union {e} /\ e \notin Settled /\ e \in Members /\ Settled \subseteq Members
      /\ call'.method = call.method /\ call'.target = call.target
      /\ Members' = Members /\ Beside(call.target)' = Beside(call.target)
  BY LineStep
<1>2. ASSUME Gathering' PROVE Gathered'
  <2>1. Gathered /\ d \notin Members
    BY <1>1, <1>2 DEF Gathering
  <2>2. d # e /\ d \notin Settled /\ (Anchored' <=> Anchored)
    BY <1>1, <2>1 DEF Anchored
  <2>3. ASSUME NEW x \in Settled, Drawn(x)
        PROVE  /\ Anchored => InLine(x, d)'
               /\ \A y \in Element : InLine(x, y)' /\ (Anchored => InLine(y, d)') => y \in Settled \union {e}
    <3>1. x # e /\ x # d
      BY <1>1, <2>2, <2>3
    <3>2. (Anchored => InLine(x, d))
          /\ \A y \in Element : InLine(x, y) /\ (Anchored => InLine(y, d)) => y \in Settled
      BY <2>1, <2>3 DEF Gathered
    <3> QED BY <2>2, <3>1, <3>2
  <2>4. Anchored => InLine(e, d)'
    BY <2>2
  <2>5. ASSUME NEW y \in Element, InLine(e, y)', Anchored => InLine(y, d)' PROVE y \in Settled \union {e}
    <3>1. CASE Anchored
      <4>1. y = d \/ InLine(d, y)
        BY <2>2, <2>5, <3>1
      <4>2. y # d /\ y # e
        BY <2>5, <3>1
      <4>3. InLine(y, d)
        BY <2>2, <2>5, <3>1, <4>2
      <4> QED BY <4>1, <4>2, <4>3
    <3>2. CASE ~Anchored
      BY <2>5, <3>2
    <3> QED BY <3>1, <3>2
  <2>6. ASSUME NEW j \in 1..(Progress + 1), NEW k \in 1..(Progress + 1), NEW x, NEW y, x = Line[j], y = Line[k],
               j < k, Drawn(x)', Drawn(y)'
        PROVE  InLine(x, y)'
    <3>1. j \in 1..Progress /\ x \in Settled /\ x # e /\ x # d /\ Drawn(x)
      <4>1. j \in 1..Progress /\ x \in Settled
        BY <1>1, <2>6 DEF Settled
      <4> QED BY <1>1, <2>2, <2>6, <4>1
    <3>2. CASE k = Progress + 1
      <4>1. y = e
        BY <1>1, <2>6, <3>2
      <4>2. CASE Anchored
        BY <2>1, <2>2, <3>1, <4>1, <4>2 DEF Gathered
      <4>3. CASE ~Anchored
        BY <3>1, <4>1, <4>3
      <4> QED BY <4>2, <4>3
    <3>3. CASE k # Progress + 1
      <4>1. k \in 1..Progress /\ y \in Settled
        BY <1>1, <2>6, <3>3 DEF Settled
      <4>2. y # e /\ Drawn(y)
        BY <1>1, <2>6, <4>1
      <4>3. InLine(x, y)
        BY <2>1, <2>6, <3>1, <4>1, <4>2 DEF Gathered
      <4> QED BY <3>1, <4>2, <4>3
    <3> QED BY <3>2, <3>3
  <2>7. ASSUME NEW x \in Settled', Drawn(x)'
        PROVE  /\ Anchored => InLine(x, d)'
               /\ \A y \in Element : InLine(x, y)' /\ (Anchored => InLine(y, d)') => y \in Settled'
    <3>1. CASE x = e
      BY <1>1, <2>4, <2>5, <3>1
    <3>2. CASE x # e
      <4>1. x \in Settled /\ Drawn(x)
        BY <1>1, <2>7, <3>2
      <4> QED BY <1>1, <2>3, <4>1
    <3> QED BY <3>1, <3>2
  <2> QED BY <1>1, <2>2, <2>6, <2>7 DEF Gathered
<1> QED BY <1>1, <1>2 DEF GatherInv

\* What is before what on the paper, after an element was put at place k of the others.
LEMMA MoveLine ==
  ASSUME TypeOK, Sound, NEW e \in Element, NEW k \in 1..(Len(Without(e)) + 1),
         order' = Put(Without(e), k, e), call'.method = call.method
  PROVE  /\ \A x : Drawn(x)' <=> Drawn(x) \/ x = e
         /\ \A x, y : x # e /\ y # e => (InLine(x, y)' <=> InLine(x, y))
         /\ \A x, y : InLine(x, y) => x # y /\ ~InLine(y, x) /\ Drawn(x) /\ Drawn(y)
         /\ \A x, y : InLine(x, y)' => x # y /\ ~InLine(y, x)'
         /\ \A x : Prec(order', x, e) <=> \E i \in 1..Len(Without(e)) : i < k /\ Without(e)[i] = x
         /\ \A y : Prec(order', e, y) <=> \E i \in 1..Len(Without(e)) : i >= k /\ Without(e)[i] = y
<1> DEFINE s == Without(e)
<1>1. /\ order \in Seq(Element) /\ Distinct(order) /\ s \in Seq(Element) /\ Distinct(s)
      /\ \A j \in 1..Len(s) : s[j] # e /\ Drawn(s[j])
  BY WithoutDistinct DEF TypeOK, Sound
<1>2. \A x : x # e /\ Drawn(x) => \E j \in 1..Len(s) : s[j] = x
  BY <1>1, WithoutOthers
<1>3. \A x, y : x # e /\ y # e => (Prec(s, x, y) <=> Prec(order, x, y))
  BY <1>1, PrecWithout
<1>4. order' = Put(s, k, e) /\ k \in 1..(Len(s) + 1)
  OBVIOUS
<1> HIDE DEF s
<1>5. order' \in Seq(Element) /\ Distinct(order') /\ Len(order') = Len(s) + 1
  BY <1>1, <1>4, PutType, PutDistinct
<1>6. \A j \in 1..(Len(s) + 1) : order'[j] = IF j < k THEN s[j] ELSE IF j = k THEN e ELSE s[j - 1]
  BY <1>1, <1>4, PutAt
<1>7. ASSUME NEW x PROVE Drawn(x)' <=> Drawn(x) \/ x = e
  <2>1. ASSUME NEW j \in 1..Len(order'), order'[j] = x PROVE Drawn(x) \/ x = e
    <3>1. \/ j < k /\ j \in 1..Len(s) /\ x = s[j]
          \/ x = e
          \/ j > k /\ j - 1 \in 1..Len(s) /\ x = s[j - 1]
      BY <1>1, <1>4, <1>5, <1>6, <2>1
    <3> QED BY <1>1, <3>1
  <2>2. ASSUME x = e PROVE Drawn(x)'
    <3>1. k \in 1..Len(order') /\ order'[k] = e
      BY <1>4, <1>5, <1>6
    <3> QED BY <2>2, <3>1 DEF Drawn
  <2>3. ASSUME x # e, Drawn(x) PROVE Drawn(x)'
    <3>1. PICK j \in 1..Len(s) : s[j] = x
      BY <1>2, <2>3
    <3>2. CASE j < k
      <4>1. j \in 1..Len(order') /\ order'[j] = x
        BY <1>1, <1>4, <1>5, <1>6, <3>1, <3>2
      <4> QED BY <4>1 DEF Drawn
    <3>3. CASE j >= k
      <4>1. j + 1 \in 1..(Len(s) + 1) /\ ~(j + 1 < k) /\ j + 1 # k /\ (j + 1) - 1 = j
        BY <1>1, <1>4, <3>3
      <4>2. order'[j + 1] = x
        BY <1>6, <3>1, <4>1
      <4> QED BY <1>5, <4>1, <4>2 DEF Drawn
    <3> QED BY <1>4, <3>2, <3>3
  <2> QED BY <2>1, <2>2, <2>3 DEF Drawn
<1>8. /\ \A x, y : x # e /\ y # e => (Prec(order', x, y) <=> Prec(order, x, y))
      /\ \A x : Prec(order', x, e) <=> \E i \in 1..Len(s) : i < k /\ s[i] = x
      /\ \A y : Prec(order', e, y) <=> \E i \in 1..Len(s) : i >= k /\ s[i] = y
  BY <1>1, <1>3, <1>4, PrecPut
<1>9. /\ \A x, y : Prec(order, x, y) => x # y /\ ~Prec(order, y, x) /\ Drawn(x) /\ Drawn(y)
      /\ \A x, y : Prec(order', x, y) => x # y /\ ~Prec(order', y, x)
  BY <1>1, <1>5, PrecStrict, PrecDrawn
<1> QED BY <1>7, <1>8, <1>9 DEF InLine, s

\* A call that is given up, or another one.
LEMMA IdleGathers ==
  ASSUME call' = Idle
  PROVE  GatherInv'
<1>1. /\ call'.items = <<>> /\ call'.left = <<>> /\ call'.method = "none"
  BY DEF Idle
<1>2. Len(<<>>) = 0 /\ 1..0 = {}
  OBVIOUS
<1> QED BY <1>1, <1>2 DEF GatherInv, InCall, Gathering, Distinct

\* toFront of the member.
LEMMA ToFrontGathers ==
  ASSUME TypeOK, Sound, GatherInv, ToFront
  PROVE  GatherInv'
<1>1. call.left # <<>> /\ call.method = "toFront" /\ InCall /\ (Gathering => Gathered) /\ ~Anchored
  BY DEF ToFront, Turn, GatherInv, Anchored
<1>2. CASE status[Member] = "cleared"
  BY <1>2, IdleGathers DEF ToFront, Throws
<1>3. CASE status[Member] = "drawn"
  <2>1. NextMember /\ astray' = astray /\ order' = Append(Without(Member), Member)
    BY <1>3 DEF ToFront
  <2>2. PICK e \in Element : e = Member
    BY <1>1, NextMemberType
  <2>3. PICK d : d = Beside(call.target)
    OBVIOUS
  <2> DEFINE s == Without(e)
             k == Len(s) + 1
  <2>4. s \in Seq(Element) /\ \A j \in 1..Len(s) : s[j] # e /\ Drawn(s[j])
    BY <2>2, WithoutDistinct DEF TypeOK, Sound
  <2>5. \A x : x # e /\ Drawn(x) => \E j \in 1..Len(s) : s[j] = x
    BY WithoutOthers DEF TypeOK
  <2>6. order' = Put(s, k, e)
    BY <2>1, <2>2, <2>4, PutEnd
  <2>7. k \in 1..(Len(s) + 1)
    BY <2>4
  <2>8. call'.method = call.method
    BY <1>1, <2>1, LineStep
  <2> HIDE DEF k
  <2>9. /\ \A x : Drawn(x)' <=> Drawn(x) \/ x = e
        /\ \A x, y : x # e /\ y # e => (InLine(x, y)' <=> InLine(x, y))
        /\ \A x, y : InLine(x, y) => x # y /\ ~InLine(y, x) /\ Drawn(x) /\ Drawn(y)
        /\ \A x, y : InLine(x, y)' => x # y /\ ~InLine(y, x)'
        /\ \A x : Prec(order', x, e) <=> \E i \in 1..Len(s) : i < k /\ s[i] = x
        /\ \A y : Prec(order', e, y) <=> \E i \in 1..Len(s) : i >= k /\ s[i] = y
    BY <2>6, <2>7, <2>8, MoveLine
  <2> HIDE DEF s
  <2>10. \A i \in 1..Len(s) : i < k /\ ~(i >= k)
    BY <2>4 DEF k
  <2>11. \A x : (Prec(order', x, e) <=> Drawn(x) /\ x # e) /\ ~Prec(order', e, x)
    BY <2>4, <2>5, <2>9, <2>10
  <2>12. \A x : (InLine(x, e)' <=> Drawn(x) /\ x # e) /\ ~InLine(e, x)'
    BY <1>1, <2>8, <2>11 DEF InLine
  <2> QED BY <1>1, <2>1, <2>2, <2>3, <2>9, <2>12, MoveGathers
<1> QED BY <1>2, <1>3 DEF ToFront

\* toBack of the member.
LEMMA ToBackGathers ==
  ASSUME TypeOK, Sound, GatherInv, ToBack
  PROVE  GatherInv'
<1>1. call.left # <<>> /\ call.method = "toBack" /\ InCall /\ (Gathering => Gathered) /\ ~Anchored
  BY DEF ToBack, Turn, GatherInv, Anchored
<1>2. CASE status[Member] = "cleared"
  BY <1>2, IdleGathers DEF ToBack, Throws
<1>3. CASE status[Member] = "drawn"
  <2>1. NextMember /\ astray' = astray /\ order' = Put(Without(Member), 1, Member)
    BY <1>3 DEF ToBack
  <2>2. PICK e \in Element : e = Member
    BY <1>1, NextMemberType
  <2>3. PICK d : d = Beside(call.target)
    OBVIOUS
  <2> DEFINE s == Without(e)
  <2>4. s \in Seq(Element) /\ \A j \in 1..Len(s) : s[j] # e /\ Drawn(s[j])
    BY <2>2, WithoutDistinct DEF TypeOK, Sound
  <2>5. \A x : x # e /\ Drawn(x) => \E j \in 1..Len(s) : s[j] = x
    BY WithoutOthers DEF TypeOK
  <2>6. order' = Put(s, 1, e)
    BY <2>1, <2>2
  <2>7. 1 \in 1..(Len(s) + 1)
    BY <2>4
  <2>8. call'.method = call.method
    BY <1>1, <2>1, LineStep
  <2>9. /\ \A x : Drawn(x)' <=> Drawn(x) \/ x = e
        /\ \A x, y : x # e /\ y # e => (InLine(x, y)' <=> InLine(x, y))
        /\ \A x, y : InLine(x, y) => x # y /\ ~InLine(y, x) /\ Drawn(x) /\ Drawn(y)
        /\ \A x, y : InLine(x, y)' => x # y /\ ~InLine(y, x)'
        /\ \A x : Prec(order', x, e) <=> \E i \in 1..Len(s) : i < 1 /\ s[i] = x
        /\ \A y : Prec(order', e, y) <=> \E i \in 1..Len(s) : i >= 1 /\ s[i] = y
    BY <2>6, <2>7, <2>8, MoveLine
  <2> HIDE DEF s
  <2>10. \A i \in 1..Len(s) : i >= 1 /\ ~(i < 1)
    BY <2>4
  <2>11. \A x : (Prec(order', e, x) <=> Drawn(x) /\ x # e) /\ ~Prec(order', x, e)
    BY <2>4, <2>5, <2>9, <2>10
  <2>12. \A x : (InLine(x, e)' <=> Drawn(x) /\ x # e) /\ ~InLine(e, x)'
    BY <1>1, <2>8, <2>11 DEF InLine
  <2> QED BY <1>1, <2>1, <2>2, <2>3, <2>9, <2>12, MoveGathers
<1> QED BY <1>2, <1>3 DEF ToBack

\* Where the members need not lie together any more, or where the target is one of them.
LEMMA FreeGathers ==
  ASSUME TypeOK, GatherInv, call.left # <<>>, NextMember,
         astray' \/ call.method = "remove" \/ Beside(call.target) = Member
  PROVE  GatherInv'
BY LineStep DEF GatherInv, Gathering

\* What is before and after an element of a sequence without doubles.
LEMMA PrecOf ==
  ASSUME NEW S, NEW s \in Seq(S), Distinct(s), NEW k \in 1..Len(s), NEW i \in 1..Len(s)
  PROVE  (i < k <=> Prec(s, s[i], s[k])) /\ (i > k <=> Prec(s, s[k], s[i]))
<1>1. \A a, b \in 1..Len(s) : s[a] = s[b] => a = b
  BY DEF Distinct
<1> QED BY <1>1 DEF Prec

\* insertAfter of the member.
LEMMA InsertAfterGathers ==
  ASSUME TypeOK, ~astray => Sound, GatherInv, InsertAfter
  PROVE  GatherInv'
<1>1. call.left # <<>> /\ call.method = "insertAfter" /\ InCall /\ (Gathering => Gathered) /\ Anchored
  BY DEF InsertAfter, Turn, GatherInv, Anchored
<1>2. CASE ~Drawn(Beside(call.target))
  BY <1>2, IdleGathers DEF InsertAfter, Throws
<1>3. CASE Drawn(Beside(call.target)) /\ (astray' \/ Beside(call.target) = Member)
  BY <1>1, <1>3, FreeGathers DEF InsertAfter
<1>4. CASE Drawn(Beside(call.target)) /\ ~astray' /\ Beside(call.target) # Member
  <2>1. /\ NextMember /\ ~astray /\ astray' = astray /\ Sound /\ order' = Moved(Member, Beside(call.target))
    BY <1>4 DEF InsertAfter, TypeOK
  <2>2. PICK e \in Element : e = Member
    BY <1>1, NextMemberType
  <2>3. PICK d : d = Beside(call.target) /\ d # e /\ Drawn(d)
    BY <1>4, <2>2
  <2> DEFINE s == Without(e)
  <2>4. s \in Seq(Element) /\ Distinct(s) /\ \A j \in 1..Len(s) : s[j] # e /\ Drawn(s[j])
    BY <2>1, <2>2, WithoutDistinct DEF TypeOK, Sound
  <2>5. \A x : x # e /\ Drawn(x) => \E j \in 1..Len(s) : s[j] = x
    BY WithoutOthers DEF TypeOK
  <2>6. PICK i \in 1..Len(s) : s[i] = d /\ order' = Put(s, i + 1, e)
    <3>1. order' = Moved(e, d)
      BY <2>1, <2>2, <2>3
    <3> QED BY <1>1, <2>3, <3>1, MovedType
  <2>7. i + 1 \in 1..(Len(s) + 1)
    BY <2>4
  <2>8. call'.method = call.method
    BY <1>1, <2>1, LineStep
  <2>9. /\ \A x : Drawn(x)' <=> Drawn(x) \/ x = e
        /\ \A x, y : x # e /\ y # e => (InLine(x, y)' <=> InLine(x, y))
        /\ \A x, y : InLine(x, y) => x # y /\ ~InLine(y, x) /\ Drawn(x) /\ Drawn(y)
        /\ \A x, y : InLine(x, y)' => x # y /\ ~InLine(y, x)'
        /\ \A x : Prec(order', x, e) <=> \E j \in 1..Len(s) : j < i + 1 /\ s[j] = x
        /\ \A y : Prec(order', e, y) <=> \E j \in 1..Len(s) : j >= i + 1 /\ s[j] = y
    BY <2>1, <2>6, <2>7, <2>8, MoveLine
  <2>a. \A x, y : x # e /\ y # e => (Prec(s, x, y) <=> Prec(order, x, y))
    BY PrecWithout DEF TypeOK
  <2> HIDE DEF s
  <2>10. \A j \in 1..Len(s) : /\ j < i + 1 <=> j = i \/ Prec(s, s[j], d)
                              /\ j >= i + 1 <=> Prec(s, d, s[j])
    <3> TAKE j \in 1..Len(s)
    <3>1. (j < i <=> Prec(s, s[j], d)) /\ (j > i <=> Prec(s, d, s[j]))
      BY <2>4, <2>6, PrecOf
    <3> QED BY <3>1
  <2>11. \A x : x # e => /\ Prec(order', x, e) <=> x = d \/ Prec(order, x, d)
                         /\ Prec(order', e, x) <=> Prec(order, d, x)
    <3> SUFFICES ASSUME NEW x, x # e
                 PROVE  /\ Prec(order', x, e) <=> x = d \/ Prec(order, x, d)
                        /\ Prec(order', e, x) <=> Prec(order, d, x)
      OBVIOUS
    <3>1. (Prec(s, x, d) <=> Prec(order, x, d)) /\ (Prec(s, d, x) <=> Prec(order, d, x))
      BY <2>3, <2>a
    <3>2. Prec(s, x, d) \/ Prec(s, d, x) => \E j \in 1..Len(s) : s[j] = x
      BY DEF Prec
    <3> QED BY <2>6, <2>9, <2>10, <3>1, <3>2
  <2>12. ~Prec(order', e, e)
    BY <2>9 DEF InLine
  <2>13. /\ InLine(e, d)' /\ \A x : x # e => (InLine(x, e)' <=> InLine(x, d))
         /\ \A y : InLine(e, y)' => y = d \/ InLine(d, y)
    BY <1>1, <2>3, <2>8, <2>11, <2>12 DEF InLine
  <2> QED BY <1>1, <2>1, <2>2, <2>3, <2>9, <2>13, MoveGathers
<1> QED BY <1>2, <1>3, <1>4
\* insertBefore of the member.
LEMMA InsertBeforeGathers ==
  ASSUME TypeOK, ~astray => Sound, GatherInv, InsertBefore
  PROVE  GatherInv'
<1>1. call.left # <<>> /\ call.method = "insertBefore" /\ InCall /\ (Gathering => Gathered) /\ Anchored
  BY DEF InsertBefore, Turn, GatherInv, Anchored
<1>2. CASE ~Drawn(Beside(call.target))
  BY <1>2, IdleGathers DEF InsertBefore, Throws
<1>3. CASE Drawn(Beside(call.target)) /\ (astray' \/ Beside(call.target) = Member)
  BY <1>1, <1>3, FreeGathers DEF InsertBefore
<1>4. CASE Drawn(Beside(call.target)) /\ ~astray' /\ Beside(call.target) # Member
  <2>1. /\ NextMember /\ ~astray /\ astray' = astray /\ Sound /\ order' = Moved(Member, Beside(call.target))
    BY <1>4 DEF InsertBefore, TypeOK
  <2>2. PICK e \in Element : e = Member
    BY <1>1, NextMemberType
  <2>3. PICK d : d = Beside(call.target) /\ d # e /\ Drawn(d)
    BY <1>4, <2>2
  <2> DEFINE s == Without(e)
  <2>4. s \in Seq(Element) /\ Distinct(s) /\ \A j \in 1..Len(s) : s[j] # e /\ Drawn(s[j])
    BY <2>1, <2>2, WithoutDistinct DEF TypeOK, Sound
  <2>5. \A x : x # e /\ Drawn(x) => \E j \in 1..Len(s) : s[j] = x
    BY WithoutOthers DEF TypeOK
  <2>6. PICK i \in 1..Len(s) : s[i] = d /\ order' = Put(s, i, e)
    <3>1. order' = Moved(e, d)
      BY <2>1, <2>2, <2>3
    <3> QED BY <1>1, <2>3, <3>1, MovedType
  <2>7. i \in 1..(Len(s) + 1)
    BY <2>4
  <2>8. call'.method = call.method
    BY <1>1, <2>1, LineStep
  <2>9. /\ \A x : Drawn(x)' <=> Drawn(x) \/ x = e
        /\ \A x, y : x # e /\ y # e => (InLine(x, y)' <=> InLine(x, y))
        /\ \A x, y : InLine(x, y) => x # y /\ ~InLine(y, x) /\ Drawn(x) /\ Drawn(y)
        /\ \A x, y : InLine(x, y)' => x # y /\ ~InLine(y, x)'
        /\ \A x : Prec(order', x, e) <=> \E j \in 1..Len(s) : j < i /\ s[j] = x
        /\ \A y : Prec(order', e, y) <=> \E j \in 1..Len(s) : j >= i /\ s[j] = y
    BY <2>1, <2>6, <2>7, <2>8, MoveLine
  <2>a. \A x, y : x # e /\ y # e => (Prec(s, x, y) <=> Prec(order, x, y))
    BY PrecWithout DEF TypeOK
  <2> HIDE DEF s
  <2>10. \A j \in 1..Len(s) : /\ j < i <=> Prec(s, s[j], d)
                              /\ j >= i <=> j = i \/ Prec(s, d, s[j])
    <3> TAKE j \in 1..Len(s)
    <3>1. (j < i <=> Prec(s, s[j], d)) /\ (j > i <=> Prec(s, d, s[j]))
      BY <2>4, <2>6, PrecOf
    <3> QED BY <3>1
  <2>11. \A x : x # e => /\ Prec(order', x, e) <=> Prec(order, x, d)
                         /\ Prec(order', e, x) <=> x = d \/ Prec(order, d, x)
    <3> SUFFICES ASSUME NEW x, x # e
                 PROVE  /\ Prec(order', x, e) <=> Prec(order, x, d)
                        /\ Prec(order', e, x) <=> x = d \/ Prec(order, d, x)
      OBVIOUS
    <3>1. (Prec(s, x, d) <=> Prec(order, x, d)) /\ (Prec(s, d, x) <=> Prec(order, d, x))
      BY <2>3, <2>a
    <3>2. Prec(s, x, d) \/ Prec(s, d, x) => \E j \in 1..Len(s) : s[j] = x
      BY DEF Prec
    <3> QED BY <2>6, <2>9, <2>10, <3>1, <3>2
  <2>12. ~Prec(order', e, e)
    BY <2>9 DEF InLine
  <2>13. /\ InLine(e, d)' /\ \A x : x # e => (InLine(x, e)' <=> InLine(x, d))
         /\ \A y : InLine(e, y)' => y = d \/ InLine(d, y)
    BY <1>1, <2>3, <2>8, <2>11, <2>12 DEF InLine
  <2> QED BY <1>1, <2>1, <2>2, <2>3, <2>9, <2>13, MoveGathers
<1> QED BY <1>2, <1>3, <1>4

\* Where every element of a set is in it once, a call is of elements that differ.
NoDoubles == \A g \in Group : Distinct(Items[g])

\* A call begins, with all of its members left.
LEMMA CallGathers ==
  ASSUME NEW m \in Methods, NEW s \in Seq(Element), Distinct(s), NEW d, Call(m, s, d)
  PROVE  GatherInv'
<1>1. call'.method = m /\ call'.items = s /\ call'.left = Sequence(m, s)
  BY DEF Call
<1>2. Len(Sequence(m, s)) = Len(s) /\ Len(s) \in Nat
  BY DEF Sequence
<1>3. Progress' = 0 /\ Line' = Sequence(m, s)
  BY <1>1, <1>2 DEF Progress, Line
<1>4. InCall'
  <2>1. \A k \in 1..Len(Sequence(m, s)) : 0 + k = k
    BY <1>2
  <2> QED BY <1>1, <1>2, <1>3, <2>1 DEF InCall
<1>5. Gathered'
  <2>1. 1..0 = {}
    OBVIOUS
  <2> QED BY <1>3, <2>1 DEF Gathered, Settled
<1> QED BY <1>4, <1>5 DEF GatherInv

\* A member that was removed is not on the paper.
LEMMA OfRemovedGathers ==
  ASSUME TypeOK, ~astray => Sound, GatherInv, OfRemoved
  PROVE  GatherInv'
<1>1. /\ call.left # <<>> /\ status[Member] = "removed" /\ order' = order /\ astray' = astray
      /\ call' = Idle \/ NextMember
  BY DEF OfRemoved
<1>2. CASE call' = Idle
  BY <1>2, IdleGathers
<1>3. CASE NextMember /\ astray
  BY <1>1, <1>3, FreeGathers
<1>4. CASE NextMember /\ ~astray
  <2>1. Member \in Element
    BY <1>1, NextMemberType
  <2>2. ~Drawn(Member)
    BY <1>1, <1>4, <2>1 DEF Sound, Known
  <2> QED BY <1>1, <1>4, <2>2, SkipGathers DEF GatherInv
<1> QED BY <1>1, <1>2, <1>3, <1>4

\* remove puts nothing anywhere.
LEMMA RemoveGathers ==
  ASSUME TypeOK, GatherInv, Remove
  PROVE  GatherInv'
<1>1. call.left # <<>> /\ call.method = "remove" /\ (NextMember \/ call' = Idle)
  BY DEF Remove, Turn
<1> QED BY <1>1, FreeGathers, IdleGathers

\* toFront and toBack, also where the list is broken.
LEMMA EndsGather ==
  ASSUME TypeOK, ~astray => Sound, GatherInv, ToFront \/ ToBack
  PROVE  GatherInv'
<1>1. call.left # <<>> /\ astray' = astray /\ (NextMember \/ call' = Idle)
  BY DEF ToFront, ToBack, Turn, Throws
<1>2. CASE astray
  BY <1>1, <1>2, FreeGathers, IdleGathers
<1>3. CASE ~astray
  BY <1>3, ToFrontGathers, ToBackGathers
<1> QED BY <1>2, <1>3

\* Every step keeps the members that were moved in line.
LEMMA GatherStep ==
  ASSUME NoDoubles, ListInv, GatherInv, [Next]_vars
  PROVE  GatherInv'
<1>0. TypeOK /\ (~astray => Sound)
  BY DEF ListInv
<1>1. ASSUME NEW e \in Element, Create(e) PROVE GatherInv'
  BY <1>1, IdleGathers DEF Create
<1>2. CASE Clear
  BY <1>2, IdleGathers DEF Clear
<1>3. ASSUME NEW m \in Methods, NEW d, NEW e \in Element, Call(m, <<e>>, d) PROVE GatherInv'
  <2>1. <<e>> \in Seq(Element) /\ Distinct(<<e>>)
    BY DEF Distinct
  <2> QED BY <1>3, <2>1, CallGathers
<1>4. ASSUME NEW m \in Methods, NEW d, NEW g \in Group, Call(m, Items[g], d) PROVE GatherInv'
  <2>1. Items[g] \in Seq(Element) /\ Distinct(Items[g])
    BY ElementAssumption DEF NoDoubles, ElementAssumption
  <2> QED BY <1>4, <2>1, CallGathers
<1>5. CASE OfRemoved
  BY <1>0, <1>5, OfRemovedGathers
<1>6. CASE Remove
  BY <1>0, <1>6, RemoveGathers
<1>7. CASE ToFront \/ ToBack
  BY <1>0, <1>7, EndsGather
<1>8. CASE InsertAfter
  BY <1>0, <1>8, InsertAfterGathers
<1>9. CASE InsertBefore
  BY <1>0, <1>9, InsertBeforeGathers
<1>10. CASE UNCHANGED vars
  <2>1. call' = call /\ order' = order /\ astray' = astray
    BY <1>10 DEF vars
  <2>2. Line' = Line /\ Progress' = Progress
    BY <2>1 DEF Line, Progress
  <2>3. Settled' = Settled /\ Members' = Members /\ (Anchored' <=> Anchored)
    BY <2>1, <2>2 DEF Settled, Members, Anchored
  <2>4. Beside(call.target)' = Beside(call.target)
    BY <2>1 DEF Beside
  <2>5. (\A x : Drawn(x)' <=> Drawn(x)) /\ (\A x, y : InLine(x, y)' <=> InLine(x, y))
    BY <2>1 DEF Drawn, InLine
  <2>6. Gathered => Gathered'
    BY <2>2, <2>3, <2>4, <2>5 DEF Gathered
  <2>7. InCall'
    BY <2>1, <2>2 DEF GatherInv, InCall
  <2>8. Gathering' => Gathering
    BY <2>1, <2>3, <2>4 DEF Gathering
  <2> QED BY <2>6, <2>7, <2>8 DEF GatherInv
<1> QED BY <1>1, <1>2, <1>3, <1>4, <1>5, <1>6, <1>7, <1>8, <1>9, <1>10 DEF Next, Page

\* What lies between two members that were moved is one of them too.
LEMMA BetweenGathered ==
  ASSUME TypeOK, Distinct(order), Gathered, NEW a \in Settled, NEW b \in Settled, Drawn(a), Drawn(b),
         NEW z \in Element, InLine(a, z), InLine(z, b)
  PROVE  z \in Settled
<1>1. PICK d : d = Beside(call.target)
  OBVIOUS
<1>2. /\ Anchored => InLine(b, d)
      /\ InLine(a, z) /\ (Anchored => InLine(z, d)) => z \in Settled
  BY <1>1 DEF Gathered
<1>3. \A x, y, v : Prec(order, x, y) /\ Prec(order, y, v) => Prec(order, x, v)
  <2> SUFFICES ASSUME NEW x, NEW y, NEW v, Prec(order, x, y), Prec(order, y, v) PROVE Prec(order, x, v)
    OBVIOUS
  <2>1. PICK i \in 1..Len(order), j \in 1..Len(order) : i < j /\ order[i] = x /\ order[j] = y
    BY DEF Prec
  <2>2. PICK k \in 1..Len(order), l \in 1..Len(order) : k < l /\ order[k] = y /\ order[l] = v
    BY DEF Prec
  <2>3. j = k
    BY <2>1, <2>2 DEF Distinct
  <2>4. i < l
    BY <2>1, <2>2, <2>3 DEF TypeOK
  <2> QED BY <2>1, <2>2, <2>4 DEF Prec
<1>4. InLine(z, b) /\ InLine(b, d) => InLine(z, d)
  BY <1>3 DEF InLine
<1> QED BY <1>2, <1>4

\* Where two members of a finished call stand, the one before the other in the set.
LEMMA PairGathered ==
  ASSUME TypeOK, InCall, Gathered, call.left = <<>>, call.method \notin {"none", "remove"},
         NEW j \in 1..Len(call.items), NEW k \in 1..Len(call.items), j < k,
         NEW x, x = call.items[j], NEW y, y = call.items[k], Drawn(x), Drawn(y)
  PROVE  /\ Settled = Members /\ x \in Members /\ y \in Members
         /\ InLine(x, y) \/ InLine(y, x)
         /\ IF call.method = "toBack" THEN Prec(order, y, x) ELSE Prec(order, x, y)
<1> DEFINE n == Len(call.items)
<1>1. call.items \in Seq(Element) /\ n \in Nat /\ Len(<<>>) = 0
  BY DEF TypeOK
<1>2. Progress = n
  BY <1>1 DEF Progress
<1>3. /\ Len(Line) = n /\ \A i \in 1..Len(Line) : Line[i] \in Members
      /\ \A v \in Members : \E i \in 1..Len(Line) : Line[i] = v
  BY LineDistinct
<1>4. Settled = Members
  BY <1>2, <1>3 DEF Settled
<1>5. x \in Members /\ y \in Members
  BY DEF Members
<1>6. \A a, b \in 1..n : \A v, w : a < b /\ v = Line[a] /\ w = Line[b] /\ Drawn(v) /\ Drawn(w) => InLine(v, w)
  BY <1>2 DEF Gathered
<1>7. CASE call.method # "insertAfter"
  <2>1. Line = call.items
    BY <1>7 DEF Line, Sequence
  <2>2. InLine(x, y)
    BY <1>6, <2>1
  <2>3. call.method \in {"toFront", "toBack", "insertBefore"}
    BY <1>7 DEF TypeOK, Methods
  <2> QED BY <1>4, <1>5, <2>2, <2>3 DEF InLine
<1>8. CASE call.method = "insertAfter"
  <2> HIDE DEF n
  <2>1. Line = [i \in 1..n |-> call.items[n + 1 - i]]
    BY <1>8 DEF Line, Sequence, n
  <2>2. /\ n + 1 - k \in 1..n /\ n + 1 - j \in 1..n /\ n + 1 - k < n + 1 - j
        /\ n + 1 - (n + 1 - k) = k /\ n + 1 - (n + 1 - j) = j
    BY <1>1 DEF n
  <2>3. Line[n + 1 - k] = y /\ Line[n + 1 - j] = x
    BY <2>1, <2>2
  <2>4. InLine(y, x)
    BY <1>6, <2>2, <2>3
  <2> QED BY <1>4, <1>5, <1>8, <2>4 DEF InLine
<1> QED BY <1>7, <1>8

\* The members of a set that was moved lie as the set has them, and nothing else lies among
\* them, however many there are and whatever of them was removed or cleared; a set that has an
\* element twice is left out, since then the element lies where its last move put it.
THEOREM TogetherHolds == NoDoubles /\ Spec => []Together
<1> SUFFICES ASSUME NoDoubles PROVE Spec => []Together
  OBVIOUS
<1>1. Init => GatherInv
  <2> SUFFICES ASSUME Init PROVE GatherInv
    OBVIOUS
  <2>1. call.items = <<>> /\ call.left = <<>> /\ call.method = "none"
    BY DEF Init, Idle
  <2>2. Len(<<>>) = 0 /\ 1..0 = {}
    OBVIOUS
  <2> QED BY <2>1, <2>2 DEF GatherInv, InCall, Gathering, Distinct
<1>2. ListInv /\ GatherInv /\ [Next]_vars => GatherInv'
  BY GatherStep
<1>3. ListInv /\ GatherInv => Together
  <2> SUFFICES ASSUME ListInv, GatherInv, call.left = <<>>, call.method \notin {"none", "remove"}, ~astray,
                      Beside(call.target) \notin Members,
                      NEW j \in 1..Len(call.items), NEW k \in 1..Len(call.items), j < k,
                      Drawn(call.items[j]), Drawn(call.items[k])
               PROVE  /\ (At(call.items[j]) < At(call.items[k])) <=> (call.method # "toBack")
                      /\ \A i \in 1..Len(order) :
                           \/ i > At(call.items[j]) /\ i < At(call.items[k])
                           \/ i > At(call.items[k]) /\ i < At(call.items[j])
                           => order[i] \in Members
    BY DEF Together
  <2>1. PICK x, y : x = call.items[j] /\ y = call.items[k]
    OBVIOUS
  <2>2. TypeOK /\ Distinct(order) /\ InCall /\ Gathered /\ order \in Seq(Element)
    BY DEF ListInv, Sound, GatherInv, Gathering, TypeOK
  <2>3. /\ Settled = Members /\ x \in Members /\ y \in Members
        /\ InLine(x, y) \/ InLine(y, x)
        /\ IF call.method = "toBack" THEN Prec(order, y, x) ELSE Prec(order, x, y)
    BY <2>1, <2>2, PairGathered
  <2>4. PICK p \in 1..Len(order), q \in 1..Len(order) :
          p = At(x) /\ q = At(y) /\ order[p] = x /\ order[q] = y
    BY <2>1, AtDrawn
  <2>5. \A a, b \in 1..Len(order) : (a < b <=> Prec(order, order[a], order[b]))
    BY <2>2, PrecOf
  <2>6. (p < q <=> Prec(order, x, y)) /\ (q < p <=> Prec(order, y, x))
    BY <2>4, <2>5
  <2>7. p < q <=> call.method # "toBack"
    BY <2>2, <2>3, <2>4, <2>6
  <2>8. ASSUME NEW i \in 1..Len(order), (i > p /\ i < q) \/ (i > q /\ i < p)
        PROVE  order[i] \in Members
    <3>1. PICK z \in Element : z = order[i]
      BY <2>2
    <3>2. \/ Prec(order, x, z) /\ Prec(order, z, y)
          \/ Prec(order, y, z) /\ Prec(order, z, x)
      <4>1. \/ p < i /\ i < q
            \/ q < i /\ i < p
        BY <2>8
      <4> QED BY <2>4, <2>5, <3>1, <4>1
    <3>3. \/ InLine(x, z) /\ InLine(z, y)
          \/ InLine(y, z) /\ InLine(z, x)
      BY <3>2 DEF InLine
    <3>4. Drawn(x) /\ Drawn(y)
      BY <2>1
    <3> QED BY <2>2, <2>3, <3>1, <3>3, <3>4, BetweenGathered
  <2> QED BY <2>1, <2>4, <2>7, <2>8
<1> QED BY <1>1, <1>2, <1>3, ListSound, PTL DEF Spec

-----------------------------------------------------------------------------
(* The animations of elements.                                             *)

LEMMA FrameSizes == \A S : F!Cardinality(S) = Cardinality(S)
BY Zenon DEF F!Cardinality, Cardinality

LEMMA FrameFinite == \A S : F!IsFiniteSet(S) <=> IsFiniteSet(S)
BY Zenon DEF F!IsFiniteSet, IsFiniteSet

LEMMA FramesSift == \A s, T : F!Sifted(s, T) = Sifted(s, T)
BY Zenon DEF F!Sifted, Sifted

\* The animations are numbered; None is neither a number nor an element.
LEMMA FrameConstants ==
  /\ IsFiniteSet(Anim) /\ Cardinality(Anim) \in Nat /\ Anim = 1..Cardinality(Anim)
  /\ Parts \in Seq(Shape) /\ Parts # <<>> /\ None \notin Nat /\ None \notin Shape
<1>1. F!IsFiniteSet(Anim) /\ Anim = 1..F!Cardinality(Anim)
  BY FrameAssumption DEF F!AnimAssumption
<1>2. IsFiniteSet(Anim) /\ Anim = 1..Cardinality(Anim)
  BY <1>1, FrameSizes, FrameFinite
<1>3. Cardinality(Anim) \in Nat
  BY <1>2, FS_CardinalityType
<1>4. Parts \in Seq(Shape) /\ Parts # <<>> /\ None \notin Nat /\ None \notin Shape
  BY FrameAssumption DEF F!AnimAssumption
<1> QED
  BY <1>2, <1>3, <1>4

\* Animations are started one after another; between frames there is no place in the array.
Begun == \E k \in Nat : F!Started = 1..k
FrameTypes == F!TypeOK /\ Begun /\ IF at.doing = "nothing" THEN at = F!Idle ELSE at.l # 0

\* Those that were not started have no fate.  As long as nobody meddled, a frame that sets
\* attributes is at the place of the animation whose attributes they are.
Placed ==
  ~meddled => /\ F!OwnEnd
              /\ \A a \in Anim : el[a] = None => fate[a] = "none"
              /\ at.doing = "attr" => at.l \in 1..Len(entries) /\ entries[at.l] = at.anim

\* A callback that is still to be called is the one that stop clears, unless another took its
\* place in _ac or the element was removed.
Timed ==
  \A a \in timers :
    \/ el[a] \in removed
    \/ \E b \in F!Started : b > a /\ el[b] = el[a]
    \/ ac[el[a]] = a /\ fate[a] # "stopped"

\* What the collector of a set is waiting for: t calls in all, one of each member at least.
Collecting ==
  /\ timers \cap called = {}
  /\ IF waiting = None THEN members = {} /\ heard = 0
     ELSE /\ waiting \in Nat /\ heard = IF waiting = 0 THEN 1 ELSE 0
          /\ \E t \in Nat : Cardinality(members) <= t /\ waiting + Cardinality(members \cap called) = t

FramesOK == FrameTypes /\ F!LoopRuns /\ Placed /\ Timed /\ Collecting

LEMMA FramesStart == F!Init => FramesOK
<1> SUFFICES ASSUME F!Init  PROVE FramesOK
  OBVIOUS
<1>1. F!Started = {} /\ entries = <<>> /\ timers = {} /\ called = {} /\ members = {} /\ at = F!Idle
  BY DEF F!Init, F!Started
<1>2. F!Started = 1..0
  BY <1>1
<1>3. FrameTypes
  <2>1. Begun
    BY <1>2 DEF Begun
  <2>2. F!TypeOK
    <3>1. el \in [Anim -> Shape \union {None}] /\ entries \in Seq(Anim) /\ over \subseteq F!Started
      BY <1>1 DEF F!Init
    <3>2. fate \in [Anim -> {"none", "runs", "ends", "stopped", "lost"}] /\ ac \in [Shape -> Anim \union {None}]
      BY DEF F!Init
    <3>3. loops \in Nat /\ late \subseteq over /\ removed \subseteq Shape /\ heard \in Nat
      BY DEF F!Init
    <3>4. at \in [l : Nat, anim : Anim \union {None}, doing : {"nothing", "next", "attr", "run"}]
      BY DEF F!Init, F!Idle
    <3>5. thrown \in BOOLEAN /\ meddled \in BOOLEAN
      BY DEF F!Init
    <3>6. timers \subseteq F!Started /\ called \subseteq F!Started /\ members \subseteq F!Started
      BY <1>1
    <3>7. waiting \in Nat \union {None}
      BY DEF F!Init
    <3> QED
      BY <3>1, <3>2, <3>3, <3>4, <3>5, <3>6, <3>7 DEF F!TypeOK
  <2> QED
    BY <1>1, <2>1, <2>2 DEF FrameTypes, F!Idle
<1>4. F!LoopRuns
  BY <1>1 DEF F!LoopRuns
<1>5. Placed
  BY <1>1 DEF Placed, F!OwnEnd, F!Init, F!Idle
<1>6. Timed
  BY <1>1 DEF Timed
<1>7. Collecting
  BY <1>1 DEF Collecting, F!Init
<1> QED
  BY <1>3, <1>4, <1>5, <1>6, <1>7 DEF FramesOK

\* The numbers that the next animations get.
LEMMA NextNumbers ==
  ASSUME Begun
  PROVE  \E k \in Nat : /\ F!Started = 1..k /\ (k = 0 \/ k \in Anim) /\ \A n : F!Id(n) = k + n
                        /\ \A n \in Nat : F!Fresh(n) <=> k + n \in Anim \union {0}
<1>1. PICK k \in Nat : F!Started = 1..k
  BY DEF Begun
<1>2. Cardinality(1..k) = k
  BY FS_Interval
<1>3. F!Cardinality(F!Started) = k
  BY <1>1, <1>2, FrameSizes
<1>4. k # 0 => k \in F!Started
  BY <1>1
<1>5. F!Started \subseteq Anim
  BY DEF F!Started
<1> QED
  BY <1>1, <1>3, <1>4, <1>5 DEF F!Id, F!Fresh

\* A step of a frame that leaves the animations and their callbacks alone.
LEMMA FrameMoves ==
  ASSUME FramesOK,
         UNCHANGED <<el, entries, over, fate, removed, timers, ac, waiting, members, heard, called, meddled>>,
         loops' \in Nat, late' \subseteq over, thrown' \in BOOLEAN,
         at' \in [l : Nat, anim : Anim \union {None}, doing : {"nothing", "next", "attr", "run"}],
         at' = F!Idle \/ (at'.doing # "nothing" /\ at'.l # 0),
         at'.doing = "attr" => at'.l \in 1..Len(entries) /\ entries[at'.l] = at'.anim,
         entries # <<>> /\ at' = F!Idle /\ ~thrown' => loops' > 0
  PROVE  FramesOK'
<1>1. F!Started' = F!Started
  BY DEF F!Started
<1>2. F!TypeOK'
  BY <1>1 DEF FramesOK, FrameTypes, F!TypeOK
<1>3. FrameTypes'
  BY <1>1, <1>2 DEF FramesOK, FrameTypes, Begun, F!Idle
<1>4. F!LoopRuns'
  BY DEF F!LoopRuns, F!Idle
<1>5. Placed'
  BY DEF FramesOK, Placed, F!OwnEnd
<1>6. Timed'
  BY <1>1 DEF FramesOK, Timed
<1>7. Collecting'
  BY DEF FramesOK, Collecting
<1> QED
  BY <1>3, <1>4, <1>5, <1>6, <1>7 DEF FramesOK

LEMMA FrameBeginsSafe ==
  ASSUME FramesOK, F!FrameBegins  PROVE FramesOK'
<1>1. /\ UNCHANGED <<el, entries, over, fate, removed, timers, ac, waiting, members, heard, called, thrown, meddled>>
      /\ loops > 0 /\ loops' = loops - 1 /\ late' = over /\ at' = [l |-> 1, anim |-> None, doing |-> "next"]
  BY DEF F!FrameBegins, F!array, F!calls
<1>2. loops' \in Nat /\ thrown' \in BOOLEAN
  BY <1>1 DEF FramesOK, FrameTypes, F!TypeOK
<1>3. /\ at' \in [l : Nat, anim : Anim \union {None}, doing : {"nothing", "next", "attr", "run"}]
      /\ at'.doing = "next" /\ at'.l # 0 /\ at' # F!Idle
  BY <1>1 DEF F!Idle
<1> QED
  BY <1>1, <1>2, <1>3, FrameMoves

LEMMA FrameGoesOnSafe ==
  ASSUME FramesOK, F!FrameGoesOn  PROVE FramesOK'
<1>1. /\ UNCHANGED <<el, entries, over, fate, removed, timers, ac, waiting, members, heard, called, thrown, meddled>>
      /\ UNCHANGED <<loops, late>> /\ at.doing = "next" /\ at.l <= Len(entries)
      /\ at' = IF el[entries[at.l]] \in removed THEN [at EXCEPT !.l = @ + 1]
               ELSE [at EXCEPT !.anim = entries[at.l], !.doing = "attr"]
  BY DEF F!FrameGoesOn, F!array, F!calls
<1>2. /\ loops \in Nat /\ late \subseteq over /\ thrown \in BOOLEAN /\ entries \in Seq(Anim) /\ at.l # 0
      /\ at \in [l : Nat, anim : Anim \union {None}, doing : {"nothing", "next", "attr", "run"}]
  BY <1>1 DEF FramesOK, FrameTypes, F!TypeOK
<1>3. at.l \in 1..Len(entries)
  BY <1>1, <1>2
<1>4. entries[at.l] \in Anim
  BY <1>2, <1>3
<1>5. /\ at' \in [l : Nat, anim : Anim \union {None}, doing : {"nothing", "next", "attr", "run"}]
      /\ at'.doing # "nothing" /\ at'.l # 0
      /\ at'.doing = "attr" => at'.l \in 1..Len(entries) /\ entries[at'.l] = at'.anim
  <2>1. CASE el[entries[at.l]] \in removed
    BY <1>1, <1>2, <2>1
  <2>2. CASE el[entries[at.l]] \notin removed
    BY <1>1, <1>2, <1>3, <1>4, <2>2
  <2> QED
    BY <2>1, <2>2
<1>6. at' # F!Idle
  BY <1>5 DEF F!Idle
<1> QED
  BY <1>1, <1>2, <1>5, <1>6, FrameMoves

LEMMA RunReturnsSafe ==
  ASSUME FramesOK, F!RunReturns  PROVE FramesOK'
<1>1. /\ UNCHANGED <<el, entries, over, fate, removed, timers, ac, waiting, members, heard, called, thrown, meddled>>
      /\ UNCHANGED <<loops, late>> /\ at' = [l |-> at.l + 1, anim |-> None, doing |-> "next"]
  BY DEF F!RunReturns, F!array, F!calls
<1>2. loops \in Nat /\ late \subseteq over /\ thrown \in BOOLEAN /\ at.l \in Nat
  BY DEF FramesOK, FrameTypes, F!TypeOK
<1>3. /\ at' \in [l : Nat, anim : Anim \union {None}, doing : {"nothing", "next", "attr", "run"}]
      /\ at'.doing = "next" /\ at'.l # 0 /\ at' # F!Idle
  BY <1>1, <1>2 DEF F!Idle
<1> QED
  BY <1>1, <1>2, <1>3, FrameMoves

LEMMA ThrowsSafe ==
  ASSUME FramesOK, F!Throws  PROVE FramesOK'
<1>1. /\ UNCHANGED <<el, entries, over, fate, removed, timers, ac, waiting, members, heard, called, meddled>>
      /\ UNCHANGED <<loops, late>> /\ at' = F!Idle /\ thrown' = TRUE
  BY DEF F!Throws, F!array, F!calls
<1>2. loops \in Nat /\ late \subseteq over
  BY DEF FramesOK, FrameTypes, F!TypeOK
<1>3. /\ at' \in [l : Nat, anim : Anim \union {None}, doing : {"nothing", "next", "attr", "run"}]
      /\ at'.doing = "nothing"
  BY <1>1 DEF F!Idle
<1> QED
  BY <1>1, <1>2, <1>3, FrameMoves

LEMMA FrameEndsSafe ==
  ASSUME FramesOK, F!FrameEnds  PROVE FramesOK'
<1>1. /\ UNCHANGED <<el, entries, over, fate, removed, timers, ac, waiting, members, heard, called, thrown, meddled>>
      /\ at' = F!Idle /\ late' = {} /\ loops' = IF entries # <<>> THEN loops + 1 ELSE loops
  BY DEF F!FrameEnds, F!array, F!calls
<1>2. loops \in Nat /\ thrown \in BOOLEAN
  BY DEF FramesOK, FrameTypes, F!TypeOK
<1>3. /\ at' \in [l : Nat, anim : Anim \union {None}, doing : {"nothing", "next", "attr", "run"}]
      /\ at'.doing = "nothing"
  BY <1>1 DEF F!Idle
<1>4. loops' \in Nat /\ (entries # <<>> => loops' > 0)
  BY <1>1, <1>2
<1> QED
  BY <1>1, <1>2, <1>3, <1>4, FrameMoves

\* What is in r is in s at another place than l.
Elsewhere(r, s, l) == \A k \in 1..Len(r) : \E j \in 1..Len(s) : j # l /\ r[k] = s[j]

\* What is left of an array when a place was taken out of it.
LEMMA OutIs ==
  ASSUME NEW S, NEW s \in Seq(S), NEW l \in Nat \ {0},
         NEW r, r = F!Out(s, l)
  PROVE  /\ r \in Seq(S)
         /\ Elsewhere(r, s, l)
         /\ \A j \in 1..Len(s) : j # l => \E k \in 1..Len(r) : r[k] = s[j]
         /\ Distinct(s) => Distinct(r)
<1> DEFINE n == Len(s)
<1>0. n \in Nat /\ \A j \in 1..n : s[j] \in S
  OBVIOUS
<1>1. CASE l > n
  <2>1. r = s
    BY <1>1 DEF F!Out
  <2>2. \A j \in 1..n : j # l
    BY <1>0, <1>1
  <2> QED
    BY <2>1, <2>2 DEF Elsewhere
<1>2. CASE ~(l > n)
  <2>1. r = [k \in 1..(n - 1) |-> IF k < l THEN s[k] ELSE s[k + 1]] /\ l \in 1..n
    BY <1>0, <1>2 DEF F!Out
  <2> HIDE DEF n
  <2>2. n - 1 \in Nat
    BY <1>0, <2>1
  <2>3. r \in Seq(S) /\ Len(r) = n - 1
    <3>1. \A k \in 1..(n - 1) : (IF k < l THEN s[k] ELSE s[k + 1]) \in S
      <4> SUFFICES ASSUME NEW k \in 1..(n - 1)  PROVE s[k] \in S /\ s[k + 1] \in S
        OBVIOUS
      <4>1. k \in 1..n /\ k + 1 \in 1..n
        BY <1>0
      <4> QED
        BY <1>0, <4>1
    <3>2. r \in [1..(n - 1) -> S]
      BY <2>1, <3>1
    <3> QED
      BY <2>2, <3>2, LenProperties
  <2>4. ASSUME NEW k \in 1..(n - 1)
        PROVE  \E j \in 1..n : j # l /\ r[k] = s[j] /\ j = IF k < l THEN k ELSE k + 1
    <3>1. r[k] = IF k < l THEN s[k] ELSE s[k + 1]
      BY <2>1
    <3>2. CASE k < l
      <4>1. k \in 1..n /\ k # l
        BY <1>0, <2>1, <3>2
      <4> QED
        BY <3>1, <3>2, <4>1
    <3>3. CASE ~(k < l)
      <4>1. k + 1 \in 1..n /\ k + 1 # l
        BY <1>0, <2>1, <3>3
      <4> QED
        BY <3>1, <3>3, <4>1
    <3> QED
      BY <3>2, <3>3
  <2>5. ASSUME NEW j \in 1..n, j # l  PROVE \E k \in 1..(n - 1) : r[k] = s[j]
    <3>1. CASE j < l
      <4>1. j \in 1..(n - 1)
        BY <1>0, <2>1, <3>1
      <4> QED
        BY <2>1, <3>1, <4>1
    <3>2. CASE ~(j < l)
      <4>1. j - 1 \in 1..(n - 1) /\ ~(j - 1 < l) /\ (j - 1) + 1 = j
        BY <1>0, <2>1, <2>5, <3>2
      <4> QED
        BY <2>1, <4>1
    <3> QED
      BY <3>1, <3>2
  <2>6. ASSUME Distinct(s), NEW j \in 1..(n - 1), NEW k \in 1..(n - 1), r[j] = r[k]  PROVE j = k
    <3>1. PICK x \in 1..n : r[j] = s[x] /\ x = IF j < l THEN j ELSE j + 1
      BY <2>4
    <3>2. PICK y \in 1..n : r[k] = s[y] /\ y = IF k < l THEN k ELSE k + 1
      BY <2>4
    <3>3. x = y
      BY <2>6, <3>1, <3>2 DEF Distinct, n
    <3> QED
      BY <2>1, <3>1, <3>2, <3>3
  <2>7. Elsewhere(r, s, l)
    BY <2>3, <2>4 DEF Elsewhere, n
  <2> QED
    BY <2>3, <2>5, <2>6, <2>7 DEF Distinct, n
<1> QED
  BY <1>1, <1>2

\* A step within a frame, or of the page's code, that starts no animation.
LEMMA FrameTypesStay ==
  ASSUME FramesOK, UNCHANGED el,
         entries' \in Seq(Anim), fate' \in [Anim -> {"none", "runs", "ends", "stopped", "lost"}],
         over \subseteq over', over' \subseteq F!Started, loops' = loops, late' = late, removed' \subseteq Shape,
         at' \in [l : Nat, anim : Anim \union {None}, doing : {"nothing", "next", "attr", "run"}],
         IF at'.doing = "nothing" THEN at' = F!Idle ELSE at'.l # 0,
         timers' \subseteq timers, called' \subseteq called \union timers, ac' \in [Shape -> Anim \union {None}],
         waiting' \in Nat \union {None}, members' = members, heard' \in Nat,
         thrown' \in BOOLEAN, meddled' \in BOOLEAN
  PROVE  FrameTypes' /\ F!Started' = F!Started
<1>1. F!Started' = F!Started
  BY DEF F!Started
<1>2. /\ timers \subseteq F!Started /\ called \subseteq F!Started /\ members \subseteq F!Started
      /\ late \subseteq over /\ loops \in Nat /\ el \in [Anim -> Shape \union {None}] /\ Begun
  BY DEF FramesOK, FrameTypes, F!TypeOK
<1>3. Begun'
  BY <1>1, <1>2 DEF Begun
<1>4. el' \in [Anim -> Shape \union {None}] /\ late' \subseteq over' /\ loops' \in Nat
  BY <1>2
<1>5. timers' \subseteq F!Started' /\ called' \subseteq F!Started' /\ members' \subseteq F!Started' /\ over' \subseteq F!Started'
  BY <1>1, <1>2
<1>6. F!TypeOK'
  BY <1>4, <1>5 DEF F!TypeOK
<1> QED
  BY <1>1, <1>3, <1>6 DEF FrameTypes, F!Idle

LEMMA AttrReturnsSafe ==
  ASSUME FramesOK, F!AttrReturns  PROVE FramesOK'
<1>1. /\ UNCHANGED <<el, over, removed, timers, ac, waiting, members, heard, called, thrown, meddled>>
      /\ UNCHANGED <<loops, late>> /\ at.doing = "attr"
  BY DEF F!AttrReturns, F!calls
<1>2. /\ loops \in Nat /\ late \subseteq over /\ over \subseteq F!Started /\ thrown \in BOOLEAN /\ meddled \in BOOLEAN
      /\ entries \in Seq(Anim) /\ el \in [Anim -> Shape \union {None}] /\ removed \subseteq Shape
      /\ fate \in [Anim -> {"none", "runs", "ends", "stopped", "lost"}]
      /\ at \in [l : Nat, anim : Anim \union {None}, doing : {"nothing", "next", "attr", "run"}]
      /\ at.l # 0 /\ ac \in [Shape -> Anim \union {None}] /\ waiting \in Nat \union {None} /\ heard \in Nat
  BY <1>1 DEF FramesOK, FrameTypes, F!TypeOK
<1>3. CASE at.anim \notin late
  <2>1. at' = [at EXCEPT !.doing = "run"] /\ UNCHANGED <<entries, fate>>
    BY <1>3 DEF F!AttrReturns
  <2>2. /\ at' \in [l : Nat, anim : Anim \union {None}, doing : {"nothing", "next", "attr", "run"}]
        /\ at'.doing = "run" /\ at'.l # 0
    BY <1>2, <2>1
  <2>3. at' # F!Idle
    BY <2>2 DEF F!Idle
  <2> QED
    BY <1>1, <1>2, <2>1, <2>2, <2>3, FrameMoves
<1>4. CASE at.anim \in late
  <2> DEFINE o == at.anim
             l == at.l
  <2>1. /\ at' = [at EXCEPT !.anim = None, !.doing = "next"] /\ entries' = F!Out(entries, l)
        /\ fate' = [a \in Anim |-> IF a = o /\ fate[a] = "runs" THEN "ends"
                                   ELSE IF l <= Len(entries) /\ a = entries[l] THEN "lost" ELSE fate[a]]
    BY <1>4 DEF F!AttrReturns, F!Spliced
  <2>2. o \in Anim /\ l \in Nat \ {0}
    BY <1>2, <1>4 DEF F!Started
  <2>3. /\ at' \in [l : Nat, anim : Anim \union {None}, doing : {"nothing", "next", "attr", "run"}]
        /\ at'.doing = "next" /\ at'.l # 0
    BY <1>2, <2>1
  <2> HIDE DEF o, l
  <2>4. /\ entries' \in Seq(Anim)
        /\ \A k \in 1..Len(entries') : \E j \in 1..Len(entries) : j # l /\ entries'[k] = entries[j]
        /\ \A j \in 1..Len(entries) : j # l => \E k \in 1..Len(entries') : entries'[k] = entries[j]
        /\ Distinct(entries) => Distinct(entries')
    <3> DEFINE r == entries'
               s == entries
    <3>1. s \in Seq(Anim) /\ r = F!Out(s, l)
      BY <1>2, <2>1
    <3> HIDE DEF r, s
    <3>2. r \in Seq(Anim)
      BY <2>2, <3>1, OutIs
    <3>3. Elsewhere(r, s, l)
      BY <2>2, <3>1, OutIs
    <3>4. \A j \in 1..Len(s) : j # l => \E k \in 1..Len(r) : r[k] = s[j]
      BY <2>2, <3>1, OutIs
    <3>5. Distinct(s) => Distinct(r)
      BY <2>2, <3>1, OutIs
    <3> QED
      BY <3>2, <3>3, <3>4, <3>5 DEF r, s, Elsewhere
  <2>5. /\ fate' \in [Anim -> {"none", "runs", "ends", "stopped", "lost"}]
        /\ \A a \in Anim : fate'[a] = IF a = o /\ fate[a] = "runs" THEN "ends"
                                      ELSE IF l <= Len(entries) /\ a = entries[l] THEN "lost" ELSE fate[a]
    <3> DEFINE new(a) == IF a = o /\ fate[a] = "runs" THEN "ends"
                         ELSE IF l <= Len(entries) /\ a = entries[l] THEN "lost" ELSE fate[a]
    <3>1. \A a \in Anim : new(a) \in {"none", "runs", "ends", "stopped", "lost"}
      BY <1>2
    <3>2. fate' = [a \in Anim |-> new(a)]
      BY <2>1
    <3> HIDE DEF new
    <3>3. fate' \in [Anim -> {"none", "runs", "ends", "stopped", "lost"}] /\ \A a \in Anim : fate'[a] = new(a)
      BY <3>1, <3>2
    <3> QED
      BY <3>3 DEF new
  <2>6. timers' \subseteq timers /\ called' \subseteq called \union timers /\ ac' \in [Shape -> Anim \union {None}]
        /\ waiting' \in Nat \union {None} /\ heard' \in Nat /\ thrown' \in BOOLEAN /\ meddled' \in BOOLEAN
    BY <1>1, <1>2
  <2>7. FrameTypes' /\ F!Started' = F!Started
    BY <1>1, <1>2, <2>3, <2>4, <2>5, <2>6, FrameTypesStay
  <2>8. F!LoopRuns'
    BY <2>3 DEF F!LoopRuns, F!Idle
  <2>9. Placed'
    <3> SUFFICES ASSUME ~meddled
                 PROVE  /\ F!OwnEnd'
                        /\ \A a \in Anim : el[a] = None => fate'[a] = "none"
                        /\ at'.doing # "attr"
      BY <1>1 DEF Placed
    <3>1. /\ \A a \in Anim : fate[a] = "runs" <=> \E k \in 1..Len(entries) : entries[k] = a
          /\ Distinct(entries) /\ \A a \in Anim : fate[a] # "lost"
          /\ \A a \in Anim : el[a] = None => fate[a] = "none"
          /\ l \in 1..Len(entries) /\ entries[l] = o
      BY <1>1 DEF FramesOK, Placed, F!OwnEnd, Distinct, o, l
    <3>2. fate[o] = "runs" /\ l <= Len(entries)
      BY <1>2, <2>2, <3>1
    <3>3. \A a \in Anim : fate'[a] = IF a = o THEN "ends" ELSE fate[a]
      BY <2>5, <3>1, <3>2
    <3>4. \A j \in 1..Len(entries) : entries[j] = o => j = l
      BY <3>1 DEF Distinct
    <3>5. ASSUME NEW a \in Anim  PROVE fate'[a] = "runs" <=> \E k \in 1..Len(entries') : entries'[k] = a
      <4>1. ASSUME fate'[a] = "runs"  PROVE \E k \in 1..Len(entries') : entries'[k] = a
        <5>1. a # o /\ fate[a] = "runs"
          BY <3>3, <4>1
        <5>2. PICK j \in 1..Len(entries) : entries[j] = a
          BY <3>1, <5>1
        <5> QED
          BY <2>4, <3>1, <5>1, <5>2
      <4>2. ASSUME NEW k \in 1..Len(entries'), entries'[k] = a  PROVE fate'[a] = "runs"
        <5>1. PICK j \in 1..Len(entries) : j # l /\ entries'[k] = entries[j]
          BY <2>4
        <5>2. a # o
          BY <3>4, <4>2, <5>1
        <5> QED
          BY <3>1, <3>3, <4>2, <5>1, <5>2
      <4> QED
        BY <4>1, <4>2
    <3>6. \A a \in Anim : fate'[a] # "lost"
      BY <3>1, <3>3
    <3>7. F!OwnEnd'
      BY <2>4, <3>1, <3>5, <3>6 DEF F!OwnEnd, Distinct
    <3>8. \A a \in Anim : el[a] = None => fate'[a] = "none"
      BY <3>1, <3>2, <3>3
    <3> QED
      BY <2>3, <3>7, <3>8
  <2>10. Timed'
    <3>1. timers \subseteq Anim
      BY DEF FramesOK, FrameTypes, F!TypeOK, F!Started
    <3>2. \A a \in Anim : fate[a] # "stopped" => fate'[a] # "stopped"
      BY <2>5
    <3> QED
      BY <1>1, <2>7, <3>1, <3>2 DEF FramesOK, Timed
  <2>11. Collecting'
    BY <1>1 DEF FramesOK, Collecting
  <2> QED
    BY <2>7, <2>8, <2>9, <2>10, <2>11 DEF FramesOK
<1> QED
  BY <1>3, <1>4

LEMMA RemoveSafe ==
  ASSUME FramesOK, NEW e \in Shape, F!Remove(e)  PROVE FramesOK'
<1>1. /\ UNCHANGED <<el, entries, over, fate, timers, waiting, members, heard, called, thrown, meddled>>
      /\ UNCHANGED <<loops, late, at>> /\ removed' = removed \union {e} /\ ac' = [ac EXCEPT ![e] = None]
  BY DEF F!Remove, F!array
<1>2. /\ entries \in Seq(Anim) /\ el \in [Anim -> Shape \union {None}] /\ removed \subseteq Shape
      /\ fate \in [Anim -> {"none", "runs", "ends", "stopped", "lost"}] /\ over \subseteq F!Started
      /\ at \in [l : Nat, anim : Anim \union {None}, doing : {"nothing", "next", "attr", "run"}]
      /\ ac \in [Shape -> Anim \union {None}] /\ waiting \in Nat \union {None} /\ heard \in Nat
      /\ thrown \in BOOLEAN /\ meddled \in BOOLEAN
      /\ IF at.doing = "nothing" THEN at = F!Idle ELSE at.l # 0
      /\ timers \subseteq Anim
  BY DEF FramesOK, FrameTypes, F!TypeOK, F!Started
<1>3. ac' \in [Shape -> Anim \union {None}] /\ \A d \in Shape : ac'[d] = IF d = e THEN None ELSE ac[d]
  BY <1>1, <1>2
<1>4. FrameTypes' /\ F!Started' = F!Started
  <2>1. IF at'.doing = "nothing" THEN at' = F!Idle ELSE at'.l # 0
    BY <1>1, <1>2
  <2> QED
    BY <1>1, <1>2, <1>3, <2>1, FrameTypesStay
<1>5. F!LoopRuns'
  BY <1>1 DEF FramesOK, F!LoopRuns, F!Idle
<1>6. Placed'
  BY <1>1 DEF FramesOK, Placed, F!OwnEnd
<1>7. Timed'
  <2> SUFFICES ASSUME NEW a \in timers, el[a] \notin removed', ~\E b \in F!Started : b > a /\ el[b] = el[a]
               PROVE  ac'[el[a]] = a /\ fate[a] # "stopped"
    BY <1>1, <1>4 DEF Timed
  <2>1. ac[el[a]] = a /\ fate[a] # "stopped" /\ el[a] # e /\ a \in F!Started
    BY <1>1 DEF FramesOK, Timed, FrameTypes, F!TypeOK
  <2>2. el[a] \in Shape
    BY <1>2, <2>1 DEF F!Started
  <2> QED
    BY <1>3, <2>1, <2>2
<1>8. Collecting'
  BY <1>1 DEF FramesOK, Collecting
<1> QED
  BY <1>4, <1>5, <1>6, <1>7, <1>8 DEF FramesOK

LEMMA TimeIsUpSafe ==
  ASSUME FramesOK, NEW a \in Anim, F!TimeIsUp(a)  PROVE FramesOK'
<1>1. /\ UNCHANGED <<el, entries, fate, timers, ac, waiting, members, heard, called, thrown, meddled>>
      /\ UNCHANGED <<loops, late, at, removed>> /\ over' = over \union {a} /\ a \in F!Started
  BY DEF F!TimeIsUp, F!calls
<1>2. /\ entries \in Seq(Anim) /\ removed \subseteq Shape /\ over \subseteq F!Started
      /\ fate \in [Anim -> {"none", "runs", "ends", "stopped", "lost"}]
      /\ at \in [l : Nat, anim : Anim \union {None}, doing : {"nothing", "next", "attr", "run"}]
      /\ ac \in [Shape -> Anim \union {None}] /\ waiting \in Nat \union {None} /\ heard \in Nat
      /\ thrown \in BOOLEAN /\ meddled \in BOOLEAN
      /\ IF at.doing = "nothing" THEN at = F!Idle ELSE at.l # 0
  BY DEF FramesOK, FrameTypes, F!TypeOK
<1>3. FrameTypes' /\ F!Started' = F!Started
  <2>1. IF at'.doing = "nothing" THEN at' = F!Idle ELSE at'.l # 0
    BY <1>1, <1>2
  <2>2. over \subseteq over' /\ over' \subseteq F!Started
    BY <1>1, <1>2
  <2> QED
    BY <1>1, <1>2, <2>1, <2>2, FrameTypesStay
<1>4. F!LoopRuns'
  BY <1>1 DEF FramesOK, F!LoopRuns, F!Idle
<1>5. Placed'
  BY <1>1 DEF FramesOK, Placed, F!OwnEnd
<1>6. Timed'
  BY <1>1, <1>3 DEF FramesOK, Timed
<1>7. Collecting'
  BY <1>1 DEF FramesOK, Collecting
<1> QED
  BY <1>3, <1>4, <1>5, <1>6, <1>7 DEF FramesOK

LEMMA CallBackSafe ==
  ASSUME FramesOK, NEW a \in Anim, F!CallBack(a)  PROVE FramesOK'
<1>1. /\ UNCHANGED <<el, entries, over, fate, ac, members, thrown, meddled>>
      /\ UNCHANGED <<loops, late, at, removed>> /\ a \in timers
      /\ timers' = timers \ {a} /\ called' = called \union {a}
      /\ IF a \in members THEN waiting' = waiting - 1 /\ heard' = IF waiting = 1 THEN heard + 1 ELSE heard
         ELSE UNCHANGED <<waiting, heard>>
  BY DEF F!CallBack, F!array
<1>2. /\ entries \in Seq(Anim) /\ removed \subseteq Shape /\ over \subseteq F!Started
      /\ fate \in [Anim -> {"none", "runs", "ends", "stopped", "lost"}]
      /\ at \in [l : Nat, anim : Anim \union {None}, doing : {"nothing", "next", "attr", "run"}]
      /\ ac \in [Shape -> Anim \union {None}] /\ thrown \in BOOLEAN /\ meddled \in BOOLEAN
      /\ IF at.doing = "nothing" THEN at = F!Idle ELSE at.l # 0
      /\ members \subseteq Anim /\ waiting \in Nat \union {None} /\ heard \in Nat
  BY DEF FramesOK, FrameTypes, F!TypeOK, F!Started
<1>3. timers' \cap called' = {}
  BY <1>1 DEF FramesOK, Collecting
<1>4. ASSUME a \in members  PROVE Collecting' /\ waiting' \in Nat \union {None} /\ heard' \in Nat
  <2>1. /\ waiting \in Nat /\ heard = (IF waiting = 0 THEN 1 ELSE 0) /\ waiting # None /\ a \notin called
    BY <1>1, <1>4, FrameConstants DEF FramesOK, Collecting
  <2>2. PICK t \in Nat : Cardinality(members) <= t /\ waiting + Cardinality(members \cap called) = t
    BY <2>1 DEF FramesOK, Collecting
  <2>3. IsFiniteSet(members)
    BY <1>2, FrameConstants, FS_Subset
  <2>4. IsFiniteSet(members \cap called) /\ IsFiniteSet(members \cap called')
    <3>1. members \cap called \subseteq members /\ members \cap called' \subseteq members
      OBVIOUS
    <3> QED
      BY <2>3, <3>1, FS_Subset
  <2>5. Cardinality(members \cap called') = Cardinality(members \cap called) + 1
    <3>1. members \cap called' = (members \cap called) \union {a} /\ a \notin members \cap called
      BY <1>1, <1>4, <2>1
    <3> QED
      BY <2>4, <3>1, FS_AddElement
  <2>6. Cardinality(members \cap called') <= Cardinality(members)
    <3>1. members \cap called' \subseteq members
      OBVIOUS
    <3> QED
      BY <2>3, <3>1, FS_Subset
  <2>7. Cardinality(members) \in Nat /\ Cardinality(members \cap called) \in Nat
    BY <2>3, <2>4, FS_CardinalityType
  <2>8. waiting' = waiting - 1 /\ heard' = IF waiting = 1 THEN heard + 1 ELSE heard
    BY <1>1, <1>4
  <2>9. waiting >= 1
    BY <2>1, <2>2, <2>5, <2>6, <2>7
  <2>10. waiting' \in Nat /\ heard' = IF waiting' = 0 THEN 1 ELSE 0
    BY <2>1, <2>8, <2>9
  <2>11. waiting' + Cardinality(members \cap called') = t
    BY <2>1, <2>2, <2>5, <2>7, <2>8
  <2>12. Collecting'
    <3>1. waiting' # None
      BY <2>10, FrameConstants
    <3>2. Cardinality(members') <= t /\ waiting' + Cardinality(members' \cap called') = t
      BY <1>1, <2>2, <2>11
    <3> QED
      BY <1>3, <2>2, <2>10, <3>1, <3>2 DEF Collecting
  <2> QED
    BY <2>10, <2>12
<1>5. ASSUME a \notin members  PROVE Collecting' /\ waiting' \in Nat \union {None} /\ heard' \in Nat
  <2>1. members \cap called' = members \cap called /\ UNCHANGED <<waiting, heard>>
    BY <1>1, <1>5
  <2>2. Collecting'
    BY <1>1, <1>3, <2>1 DEF FramesOK, Collecting
  <2> QED
    BY <1>2, <2>1, <2>2
<1>6. Collecting' /\ waiting' \in Nat \union {None} /\ heard' \in Nat
  BY <1>4, <1>5
<1>7. FrameTypes' /\ F!Started' = F!Started
  <2>1. IF at'.doing = "nothing" THEN at' = F!Idle ELSE at'.l # 0
    BY <1>1, <1>2
  <2>2. timers' \subseteq timers /\ called' \subseteq called \union timers
    BY <1>1
  <2> QED
    BY <1>1, <1>2, <1>6, <2>1, <2>2, FrameTypesStay
<1>8. F!LoopRuns'
  BY <1>1 DEF FramesOK, F!LoopRuns, F!Idle
<1>9. Placed'
  BY <1>1 DEF FramesOK, Placed, F!OwnEnd
<1>10. Timed'
  BY <1>1, <1>7 DEF FramesOK, Timed
<1> QED
  BY <1>6, <1>7, <1>8, <1>9, <1>10 DEF FramesOK

LEMMA StopSafe ==
  ASSUME FramesOK, NEW e \in Shape, F!Stop(e)  PROVE FramesOK'
<1> DEFINE T == {a \in Anim : ~F!Same(e, el[a])}
<1>1. /\ UNCHANGED <<el, over, removed, waiting, members, heard, called, thrown>>
      /\ UNCHANGED <<loops, late, at>>
      /\ timers' = timers \ F!Cleared(e) /\ ac' = [ac EXCEPT ![e] = None]
      /\ meddled' = (meddled \/ (at.doing = "attr" /\ entries' # entries))
      /\ fate' = [a \in Anim |-> IF fate[a] = "runs" /\ F!Same(e, el[a]) THEN "stopped" ELSE fate[a]]
  BY DEF F!Stop
<1>2. /\ entries \in Seq(Anim) /\ el \in [Anim -> Shape \union {None}] /\ removed \subseteq Shape
      /\ fate \in [Anim -> {"none", "runs", "ends", "stopped", "lost"}] /\ over \subseteq F!Started
      /\ at \in [l : Nat, anim : Anim \union {None}, doing : {"nothing", "next", "attr", "run"}]
      /\ ac \in [Shape -> Anim \union {None}] /\ waiting \in Nat \union {None} /\ heard \in Nat
      /\ thrown \in BOOLEAN /\ meddled \in BOOLEAN
      /\ IF at.doing = "nothing" THEN at = F!Idle ELSE at.l # 0
      /\ timers \subseteq Anim
  BY DEF FramesOK, FrameTypes, F!TypeOK, F!Started
<1>3. entries' = Sifted(entries, T)
  BY FramesSift DEF F!Stop
<1>4. entries' \in Seq(Anim) /\ (entries = <<>> => entries' = <<>>)
  BY <1>2, <1>3, SiftedIs, SiftedEmpty
<1>5. /\ \A i \in 1..Len(entries') : \E j \in 1..Len(entries) : entries'[i] = entries[j] /\ entries[j] \in T
      /\ \A j \in 1..Len(entries) : entries[j] \in T => \E i \in 1..Len(entries') : entries'[i] = entries[j]
      /\ Distinct(entries) => Distinct(entries')
  <2> DEFINE s == entries
             r == entries'
  <2>1. s \in Seq(Anim) /\ r = Sifted(s, T)
    BY <1>2, <1>3
  <2> HIDE DEF r, s, T
  <2>2. \A i \in 1..Len(r) : \E j \in 1..Len(s) : r[i] = s[j] /\ s[j] \in T
    BY <2>1, SiftedIs
  <2>3. \A j \in 1..Len(s) : s[j] \in T => \E i \in 1..Len(r) : r[i] = s[j]
    BY <2>1, SiftedIs
  <2>4. (\A i, j \in 1..Len(s) : s[i] = s[j] => i = j) => \A i, j \in 1..Len(r) : r[i] = r[j] => i = j
    BY <2>1, SiftedIs
  <2> QED
    BY <2>2, <2>3, <2>4 DEF r, s, Distinct
<1>6. /\ fate' \in [Anim -> {"none", "runs", "ends", "stopped", "lost"}]
      /\ \A a \in Anim : fate'[a] = IF fate[a] = "runs" /\ a \notin T THEN "stopped" ELSE fate[a]
  <2>1. \A a \in Anim : F!Same(e, el[a]) <=> a \notin T
    OBVIOUS
  <2>2. fate' = [a \in Anim |-> IF fate[a] = "runs" /\ a \notin T THEN "stopped" ELSE fate[a]]
    BY <1>1, <2>1
  <2> HIDE DEF T
  <2> QED
    BY <1>2, <2>2
<1>7. ac' \in [Shape -> Anim \union {None}] /\ \A d \in Shape : ac'[d] = IF d = e THEN None ELSE ac[d]
  BY <1>1, <1>2
<1>8. meddled' \in BOOLEAN
  BY <1>1, <1>2, Zenon
<1> HIDE DEF T
<1>9. FrameTypes' /\ F!Started' = F!Started
  <2>1. IF at'.doing = "nothing" THEN at' = F!Idle ELSE at'.l # 0
    BY <1>1, <1>2
  <2>2. timers' \subseteq timers /\ called' \subseteq called \union timers
    BY <1>1
  <2> QED
    BY <1>1, <1>2, <1>4, <1>6, <1>7, <1>8, <2>1, <2>2, FrameTypesStay
<1>10. F!LoopRuns'
  BY <1>1, <1>4 DEF FramesOK, F!LoopRuns, F!Idle
<1>11. Placed'
  <2> SUFFICES ASSUME ~meddled'
               PROVE  /\ F!OwnEnd'
                      /\ \A a \in Anim : el[a] = None => fate'[a] = "none"
                      /\ at.doing = "attr" => at.l \in 1..Len(entries') /\ entries'[at.l] = at.anim
    BY <1>1 DEF Placed
  <2>1. ~meddled /\ (at.doing = "attr" => entries' = entries)
    BY <1>1
  <2>2. /\ \A a \in Anim : fate[a] = "runs" <=> \E k \in 1..Len(entries) : entries[k] = a
        /\ Distinct(entries) /\ \A a \in Anim : fate[a] # "lost"
        /\ \A a \in Anim : el[a] = None => fate[a] = "none"
        /\ at.doing = "attr" => at.l \in 1..Len(entries) /\ entries[at.l] = at.anim
    BY <2>1 DEF FramesOK, Placed, F!OwnEnd, Distinct
  <2>3. ASSUME NEW a \in Anim  PROVE fate'[a] = "runs" <=> \E k \in 1..Len(entries') : entries'[k] = a
    <3>1. fate'[a] = "runs" <=> fate[a] = "runs" /\ a \in T
      BY <1>6
    <3>2. (\E k \in 1..Len(entries') : entries'[k] = a) <=> a \in T /\ \E k \in 1..Len(entries) : entries[k] = a
      BY <1>5
    <3> QED
      BY <2>2, <3>1, <3>2
  <2>4. \A a \in Anim : fate'[a] # "lost"
    BY <1>6, <2>2
  <2>5. F!OwnEnd'
    BY <1>5, <2>2, <2>3, <2>4 DEF F!OwnEnd, Distinct
  <2>6. \A a \in Anim : el[a] = None => fate'[a] = "none"
    BY <1>6, <2>2
  <2> QED
    BY <2>1, <2>2, <2>5, <2>6
<1>12. Timed'
  <2> SUFFICES ASSUME NEW a \in timers', el[a] \notin removed, ~\E b \in F!Started : b > a /\ el[b] = el[a]
               PROVE  ac'[el[a]] = a /\ fate'[a] # "stopped"
    BY <1>1, <1>9 DEF Timed
  <2>1. a \in timers /\ a \notin F!Cleared(e)
    BY <1>1
  <2>2. ac[el[a]] = a /\ fate[a] # "stopped" /\ a \in F!Started
    BY <2>1 DEF FramesOK, Timed, FrameTypes, F!TypeOK
  <2>3. el[a] \in Shape /\ a \in Anim
    BY <1>2, <2>2 DEF F!Started
  <2>4. el[a] # e
    BY <2>1, <2>2 DEF F!Cleared
  <2>5. a \in T
    BY <2>3, <2>4 DEF T, F!Same
  <2> QED
    BY <1>6, <1>7, <2>2, <2>3, <2>4, <2>5
<1>13. Collecting'
  BY <1>1 DEF FramesOK, Collecting
<1> QED
  BY <1>9, <1>10, <1>11, <1>12, <1>13 DEF FramesOK

\* What is late at once has its time up.
LEMMA LateIsOver ==
  ASSUME NEW new, NEW atOnce, F!LateAtOnce(new, atOnce), late \subseteq over
  PROVE  over' \subseteq over \union new /\ late' \subseteq over'
BY Zenon DEF F!LateAtOnce

\* The first of the numbers that were not given away is that of no animation.
LEMMA AnimateSafe ==
  ASSUME FramesOK, NEW e \in Shape, NEW callback \in BOOLEAN, NEW atOnce \in BOOLEAN, F!Animate(e, callback, atOnce)
  PROVE  FramesOK'
<1>1. PICK k \in Nat : /\ F!Started = 1..k /\ (k = 0 \/ k \in Anim) /\ \A n : F!Id(n) = k + n
                       /\ \A n \in Nat : F!Fresh(n) <=> k + n \in Anim \union {0}
  BY NextNumbers DEF FramesOK, FrameTypes
<1> DEFINE a == k + 1
<1>2. a \in Anim /\ a \in Nat /\ a \notin F!Started /\ a = F!Id(1)
  <2>1. k + 1 \in Anim \union {0}
    BY <1>1 DEF F!Animate
  <2> QED
    BY <1>1, <2>1
<1> HIDE DEF a
<1>3. /\ UNCHANGED <<removed, waiting, members, heard, called, thrown, meddled>> /\ at' = at
      /\ el' = [el EXCEPT ![a] = e] /\ fate' = [fate EXCEPT ![a] = "runs"]
      /\ entries' = entries \o <<a>> /\ loops' = IF entries = <<>> /\ <<a>> # <<>> THEN loops + 1 ELSE loops
      /\ IF callback THEN timers' = timers \union {a} /\ ac' = [ac EXCEPT ![e] = a] ELSE UNCHANGED <<timers, ac>>
  BY <1>2 DEF F!Animate, F!Push
<1>4. /\ entries \in Seq(Anim) /\ el \in [Anim -> Shape \union {None}] /\ removed \subseteq Shape
      /\ fate \in [Anim -> {"none", "runs", "ends", "stopped", "lost"}] /\ over \subseteq F!Started
      /\ at \in [l : Nat, anim : Anim \union {None}, doing : {"nothing", "next", "attr", "run"}]
      /\ ac \in [Shape -> Anim \union {None}] /\ waiting \in Nat \union {None} /\ heard \in Nat
      /\ thrown \in BOOLEAN /\ meddled \in BOOLEAN /\ loops \in Nat /\ late \subseteq over
      /\ IF at.doing = "nothing" THEN at = F!Idle ELSE at.l # 0
      /\ timers \subseteq F!Started /\ called \subseteq F!Started /\ members \subseteq F!Started
  BY DEF FramesOK, FrameTypes, F!TypeOK
<1>4a. over' \subseteq over \union {a} /\ late' \subseteq over'
  <2>1. F!LateAtOnce({a}, atOnce)
    BY <1>2, Zenon DEF F!Animate
  <2> QED
    BY <1>4, <2>1, LateIsOver
<1>5. e # None /\ el[a] = None
  BY <1>2, FrameConstants DEF F!Started
<1>6. el' \in [Anim -> Shape \union {None}] /\ el'[a] = e /\ \A b \in Anim : b # a => el'[b] = el[b]
  BY <1>2, <1>3, <1>4
<1>7. F!Started' = F!Started \union {a}
  BY <1>2, <1>5, <1>6 DEF F!Started
<1>8. F!Started' = 1..(k + 1)
  BY <1>1, <1>7 DEF a
<1>9. /\ fate' \in [Anim -> {"none", "runs", "ends", "stopped", "lost"}]
      /\ fate'[a] = "runs" /\ \A b \in Anim : b # a => fate'[b] = fate[b]
  BY <1>2, <1>3, <1>4
<1>10. /\ entries' \in Seq(Anim) /\ Len(entries') = Len(entries) + 1 /\ Len(entries) \in Nat
       /\ entries'[Len(entries) + 1] = a /\ \A j \in 1..Len(entries) : entries'[j] = entries[j]
  BY <1>2, <1>3, <1>4
<1>11. loops' \in Nat /\ (entries = <<>> => loops' > 0) /\ loops' >= loops
  BY <1>3, <1>4
<1>12. /\ ac' \in [Shape -> Anim \union {None}] /\ timers \subseteq timers' /\ timers' \subseteq timers \union {a}
       /\ a \in timers' => ac'[e] = a
       /\ \A d \in Shape : ac'[d] = ac[d] \/ (d = e /\ ac'[d] = a)
  BY <1>2, <1>3, <1>4
<1>13. F!TypeOK'
  <2>1. timers' \subseteq F!Started' /\ called' \subseteq F!Started' /\ members' \subseteq F!Started' /\ over' \subseteq F!Started'
    BY <1>3, <1>4, <1>7, <1>12, <1>4a
  <2>2. late' \subseteq over' /\ removed' \subseteq Shape /\ waiting' \in Nat \union {None} /\ heard' \in Nat
    BY <1>3, <1>4, <1>4a
  <2>3. at' \in [l : Nat, anim : Anim \union {None}, doing : {"nothing", "next", "attr", "run"}]
        /\ thrown' \in BOOLEAN /\ meddled' \in BOOLEAN
    BY <1>3, <1>4
  <2> QED
    BY <1>6, <1>9, <1>10, <1>11, <1>12, <2>1, <2>2, <2>3 DEF F!TypeOK
<1>14. FrameTypes'
  <2>1. Begun'
    BY <1>1, <1>8 DEF Begun
  <2> QED
    BY <1>3, <1>4, <1>13, <2>1 DEF FrameTypes, F!Idle
<1>15. F!LoopRuns'
  BY <1>3, <1>4, <1>11 DEF FramesOK, F!LoopRuns, F!Idle
<1>16. Placed'
  <2> SUFFICES ASSUME ~meddled
               PROVE  /\ F!OwnEnd'
                      /\ \A b \in Anim : el'[b] = None => fate'[b] = "none"
                      /\ at.doing = "attr" => at.l \in 1..Len(entries') /\ entries'[at.l] = at.anim
    BY <1>3 DEF Placed
  <2>1. /\ \A b \in Anim : fate[b] = "runs" <=> \E j \in 1..Len(entries) : entries[j] = b
        /\ Distinct(entries) /\ \A b \in Anim : fate[b] # "lost"
        /\ \A b \in Anim : el[b] = None => fate[b] = "none"
        /\ at.doing = "attr" => at.l \in 1..Len(entries) /\ entries[at.l] = at.anim
    BY DEF FramesOK, Placed, F!OwnEnd, Distinct
  <2>2. \A j \in 1..Len(entries) : entries[j] # a
    BY <1>2, <1>5, <2>1
  <2>3. ASSUME NEW b \in Anim  PROVE fate'[b] = "runs" <=> \E j \in 1..Len(entries') : entries'[j] = b
    <3>1. CASE b = a
      <4>1. Len(entries) + 1 \in 1..Len(entries')
        BY <1>10
      <4> QED
        BY <1>9, <1>10, <3>1, <4>1
    <3>2. CASE b # a
      <4>1. (\E j \in 1..Len(entries') : entries'[j] = b) <=> \E j \in 1..Len(entries) : entries[j] = b
        BY <1>10, <3>2
      <4> QED
        BY <1>9, <2>1, <3>2, <4>1
    <3> QED
      BY <3>1, <3>2
  <2>4. Distinct(entries')
    BY <1>10, <2>1, <2>2 DEF Distinct
  <2>5. \A b \in Anim : fate'[b] # "lost"
    BY <1>9, <2>1
  <2>6. \A b \in Anim : el'[b] = None => fate'[b] = "none"
    BY <1>5, <1>6, <1>9, <2>1
  <2>7. at.doing = "attr" => at.l \in 1..Len(entries') /\ entries'[at.l] = at.anim
    BY <1>10, <2>1
  <2> QED
    BY <2>3, <2>4, <2>5, <2>6, <2>7 DEF F!OwnEnd, Distinct
<1>17. Timed'
  <2> SUFFICES ASSUME NEW b \in timers', el'[b] \notin removed, ~\E c \in F!Started' : c > b /\ el'[c] = el'[b]
               PROVE  ac'[el'[b]] = b /\ fate'[b] # "stopped"
    BY <1>3 DEF Timed
  <2>1. CASE b = a
    BY <1>6, <1>9, <1>12, <2>1
  <2>2. CASE b # a
    <3>1. b \in timers /\ b \in F!Started /\ b \in Anim
      BY <1>4, <1>12, <2>2 DEF F!Started
    <3>2. el'[b] = el[b] /\ fate'[b] = fate[b] /\ b \in 1..k
      BY <1>1, <1>6, <1>9, <2>2, <3>1
    <3>3. \A c \in F!Started : el'[c] = el[c]
      BY <1>2, <1>6 DEF F!Started
    <3>4. ac[el[b]] = b /\ fate[b] # "stopped"
      BY <1>7, <3>1, <3>2, <3>3 DEF FramesOK, Timed
    <3>5. a > b
      BY <1>1, <3>2 DEF a
    <3>6. el[b] # e
      BY <1>6, <1>7, <3>2, <3>5
    <3>7. el[b] \in Shape
      BY <1>4, <3>1 DEF F!Started
    <3> QED
      BY <1>12, <3>2, <3>4, <3>6, <3>7
  <2> QED
    BY <2>1, <2>2
<1>18. Collecting'
  <2>1. timers' \cap called' = {}
    BY <1>2, <1>3, <1>4, <1>12 DEF FramesOK, Collecting
  <2> QED
    BY <1>3, <2>1 DEF FramesOK, Collecting
<1> QED
  BY <1>14, <1>15, <1>16, <1>17, <1>18 DEF FramesOK

\* A set of numbers up to n that has a member has a last one.
LEMMA HasLast ==
  ASSUME NEW n \in Nat, NEW S, S \subseteq 1..n, S # {}
  PROVE  \E x \in S : \A y \in S : y <= x
<1> DEFINE Free == {j \in 0..n : \A y \in S : y <= n - j}
<1>1. 0 \in Free
  OBVIOUS
<1>2. n \notin Free
  <2>1. PICK y \in S : TRUE
    OBVIOUS
  <2>2. y \in 1..n /\ ~(y <= n - n)
    OBVIOUS
  <2> QED
    BY <2>2
<1>3. PICK j \in 1..n : j - 1 \in Free /\ j \notin Free
  <2> HIDE DEF Free
  <2>1. CASE \A j \in 1..n : j - 1 \in Free => j \in Free
    <3>1. \A j \in 0..n : j \in Free
      BY <1>1, <2>1, UpTo
    <3> QED
      BY <1>2, <3>1
  <2> QED
    BY <2>1
<1>4. PICK x \in S : ~(x <= n - j)
  BY <1>3
<1>5. \A y \in S : y <= n - (j - 1)
  BY <1>3
<1>6. n - (j - 1) = x
  BY <1>3, <1>4, <1>5
<1> QED
  BY <1>4, <1>5, <1>6

\* The items that are there, from the last to the first.
LEMMA ThereIs ==
  /\ F!There \in Seq(Shape) /\ \A i \in 1..Len(F!There) : F!There[i] \in Shape \ removed
  /\ Len(Parts) \in Nat \ {0} /\ Len(F!There) <= Len(Parts)
  /\ Parts[Len(Parts)] \in removed => Len(F!There) <= Len(Parts) - 1
<1> DEFINE n == Len(Parts)
           s == [k \in 1..n |-> Parts[n + 1 - k]]
           T == Shape \ removed
<1>1. n \in Nat /\ n # 0 /\ \A k \in 1..n : Parts[k] \in Shape
  BY FrameConstants
<1>2. s \in Seq(Shape) /\ Len(s) = n /\ s # <<>> /\ s[1] = Parts[n]
  <2> HIDE DEF n
  <2>1. \A k \in 1..n : Parts[n + 1 - k] \in Shape
    <3> SUFFICES ASSUME NEW k \in 1..n  PROVE Parts[n + 1 - k] \in Shape
      OBVIOUS
    <3>1. n + 1 - k \in 1..n
      BY <1>1
    <3> QED
      BY <1>1, <3>1
  <2>2. s \in [1..n -> Shape]
    BY <2>1
  <2>3. s \in Seq(Shape) /\ Len(s) = n
    BY <1>1, <2>2, LenProperties
  <2>4. s[1] = Parts[n + 1 - 1] /\ n + 1 - 1 = n
    BY <1>1
  <2> QED
    BY <1>1, <2>3, <2>4
<1>3. F!There = Sifted(s, T)
  BY FramesSift DEF F!There
<1> HIDE DEF s, T, n
<1>4. Sifted(s, T) \in Seq(Shape)
  BY <1>2, SiftedIs
<1>5. \A i \in 1..Len(Sifted(s, T)) : \E j \in 1..Len(s) : Sifted(s, T)[i] = s[j] /\ s[j] \in T
  BY <1>2, SiftedIs
<1>6. Len(Sifted(s, T)) <= Len(s) /\ (s # <<>> /\ s[1] \notin T => Len(Sifted(s, T)) <= Len(s) - 1)
  BY <1>2, SiftedShort
<1>7. \A i \in 1..Len(F!There) : F!There[i] \in Shape \ removed
  BY <1>3, <1>5 DEF T
<1>8. Parts[n] \in removed => s[1] \notin T
  BY <1>2 DEF T
<1> QED
  BY <1>1, <1>2, <1>3, <1>4, <1>6, <1>7, <1>8 DEF n

LEMMA AnimateSetSafe ==
  ASSUME FramesOK, NEW atOnce \in BOOLEAN, F!AnimateSet(atOnce)  PROVE FramesOK'
<1>1. PICK k \in Nat : /\ F!Started = 1..k /\ (k = 0 \/ k \in Anim) /\ \A n : F!Id(n) = k + n
                       /\ \A n \in Nat : F!Fresh(n) <=> k + n \in Anim \union {0}
  BY NextNumbers DEF FramesOK, FrameTypes
<1> DEFINE there == F!There
           m == Len(there)
           ids == [i \in 1..Len(there) |-> F!Id(i)]
           given == {ids[i] : i \in 1..Len(ids)}
           first == IF Parts[Len(Parts)] \in removed THEN 1 ELSE 0
           left == Len(Parts) - first
           mine(d) == {a \in given : el'[a] = d}
<1>2. /\ there \in Seq(Shape) /\ m \in Nat /\ \A i \in 1..m : there[i] \in Shape \ removed
      /\ left \in Nat /\ m <= left
  <2>1. m \in Nat
    BY ThereIs
  <2>2. Len(Parts) \in Nat \ {0} /\ m <= Len(Parts) /\ (first = 1 => m <= Len(Parts) - 1) /\ first \in {0, 1}
    BY ThereIs
  <2> HIDE DEF first, m
  <2>3. left \in Nat /\ m <= left
    BY <2>1, <2>2
  <2> QED
    BY <2>1, <2>3, ThereIs DEF m
<1>3. ids = [i \in 1..m |-> k + i] /\ F!Id(0) = k
  BY <1>1
<1>4. /\ UNCHANGED <<at, removed, called, thrown, meddled>> /\ waiting = None /\ F!Fresh(m)
      /\ el' = [a \in Anim |-> IF a \in given THEN there[a - k] ELSE el[a]]
      /\ fate' = [a \in Anim |-> IF a \in given THEN "runs" ELSE fate[a]]
      /\ entries' = entries \o ids /\ loops' = IF entries = <<>> /\ ids # <<>> THEN loops + 1 ELSE loops
      /\ timers' = timers \union given
      /\ ac' = [d \in Shape |-> IF \E a \in given : el'[a] = d
                                THEN CHOOSE a \in given : el'[a] = d /\ \A b \in given : el'[b] = d => b <= a
                                ELSE ac[d]]
      /\ waiting' = left /\ members' = given /\ heard' = IF left = 0 THEN heard + 1 ELSE heard
  <2>1. /\ UNCHANGED <<at, removed, called, thrown, meddled>> /\ waiting = None /\ F!Fresh(m)
        /\ el' = [a \in Anim |-> IF a \in given THEN there[a - F!Id(0)] ELSE el[a]]
        /\ fate' = [a \in Anim |-> IF a \in given THEN "runs" ELSE fate[a]]
    BY DEF F!AnimateSet
  <2>2. entries' = entries \o ids /\ loops' = IF entries = <<>> /\ ids # <<>> THEN loops + 1 ELSE loops
    BY DEF F!AnimateSet, F!Push
  <2>3. /\ timers' = timers \union given
        /\ ac' = [d \in Shape |-> IF \E a \in given : el'[a] = d
                                  THEN CHOOSE a \in given : el'[a] = d /\ \A b \in given : el'[b] = d => b <= a
                                  ELSE ac[d]]
    BY DEF F!AnimateSet
  <2>4. waiting' = left /\ members' = given /\ heard' = IF Len(Parts) = first THEN heard + 1 ELSE heard
    BY DEF F!AnimateSet, F!LenItems
  <2>5. Len(Parts) = first <=> left = 0
    BY ThereIs
  <2>6. el' = [a \in Anim |-> IF a \in given THEN there[a - k] ELSE el[a]]
    BY <1>3, <2>1
  <2>7. heard' = IF left = 0 THEN heard + 1 ELSE heard
    BY <2>4, <2>5
  <2> HIDE DEF there, m, ids, given, left, first
  <2> QED
    BY <2>1, <2>2, <2>3, <2>4, <2>6, <2>7
<1>5. /\ entries \in Seq(Anim) /\ el \in [Anim -> Shape \union {None}] /\ removed \subseteq Shape
      /\ fate \in [Anim -> {"none", "runs", "ends", "stopped", "lost"}] /\ over \subseteq F!Started
      /\ at \in [l : Nat, anim : Anim \union {None}, doing : {"nothing", "next", "attr", "run"}]
      /\ ac \in [Shape -> Anim \union {None}] /\ heard = 0 /\ members = {}
      /\ thrown \in BOOLEAN /\ meddled \in BOOLEAN /\ loops \in Nat /\ late \subseteq over
      /\ IF at.doing = "nothing" THEN at = F!Idle ELSE at.l # 0
      /\ timers \subseteq F!Started /\ called \subseteq F!Started
  BY <1>4 DEF FramesOK, FrameTypes, F!TypeOK, Collecting
<1>5a. over' \subseteq over \union given /\ late' \subseteq over'
  <2>1. F!LateAtOnce(given, atOnce)
    BY Zenon DEF F!AnimateSet
  <2> HIDE DEF given
  <2> QED
    BY <1>5, <2>1, LateIsOver
<1>6. /\ ids \in [1..m -> Nat] /\ Len(ids) = m /\ given = (k + 1)..(k + m) /\ (ids = <<>> <=> m = 0)
      /\ given \subseteq Anim
  <2> HIDE DEF m
  <2>1. ids \in [1..m -> Nat] /\ Len(ids) = m /\ \A i \in 1..m : ids[i] = k + i
    <3> HIDE DEF ids
    <3> QED
      BY <1>1, <1>2, <1>3
  <2>2. given = (k + 1)..(k + m)
    <3>1. ASSUME NEW a \in given  PROVE a \in (k + 1)..(k + m)
      <4>1. PICK i \in 1..Len(ids) : a = ids[i]
        OBVIOUS
      <4>2. i \in 1..m /\ a = k + i
        BY <2>1, <4>1
      <4> HIDE DEF given
      <4> QED
        BY <1>2, <4>2
    <3>2. ASSUME NEW a \in (k + 1)..(k + m)  PROVE a \in given
      <4>1. a - k \in 1..m /\ a = k + (a - k)
        BY <1>2
      <4> QED
        BY <2>1, <4>1
    <3> QED
      BY <3>1, <3>2
  <2>3. k + m \in Anim \union {0}
    BY <1>1, <1>2, <1>4 DEF m
  <2>4. given \subseteq Anim
    <3> HIDE DEF given
    <3>1. CASE k + m = 0
      BY <1>2, <2>2, <3>1
    <3>2. CASE k + m \in Anim
      BY <1>2, <2>2, <3>2, FrameConstants
    <3> QED
      BY <2>3, <3>1, <3>2
  <2>5. ids = <<>> <=> m = 0
    <3> HIDE DEF ids
    <3>1. ids \in Seq(Nat)
      BY <1>2, <2>1
    <3>2. ids = <<>> <=> Len(ids) = 0
      BY <3>1, EmptySeq
    <3> QED
      BY <2>1, <3>2
  <2> QED
    BY <2>1, <2>2, <2>4, <2>5
<1>7. \A i \in 1..m : ids[i] = k + i /\ ids[i] \in given
  <2>1. \A i \in 1..m : ids[i] = k + i
    BY <1>3
  <2>2. \A i \in 1..Len(ids) : ids[i] \in given
    OBVIOUS
  <2> QED
    BY <1>6, <2>1, <2>2
<1> HIDE DEF ids, m, there, left, given
<1>8. \A a \in given : a \in Anim /\ a \notin F!Started /\ a > k /\ a - k \in 1..m /\ ids[a - k] = a
  <2> SUFFICES ASSUME NEW a \in given
               PROVE  a \in Anim /\ a \notin F!Started /\ a > k /\ a - k \in 1..m /\ ids[a - k] = a
    OBVIOUS
  <2>1. a \in Anim /\ a \in (k + 1)..(k + m)
    BY <1>6
  <2>2. a \notin 1..k /\ a > k /\ a - k \in 1..m /\ k + (a - k) = a
    BY <1>2, <2>1
  <2>3. ids[a - k] = k + (a - k)
    BY <1>7, <2>2
  <2> QED
    BY <1>1, <2>1, <2>2, <2>3
<1>9. /\ el' \in [Anim -> Shape \union {None}] /\ \A a \in given : el'[a] \in Shape \ removed
      /\ \A a \in Anim : a \notin given => el'[a] = el[a]
  <2>1. \A a \in given : there[a - k] \in Shape \ removed
    BY <1>2, <1>8
  <2>2. \A a \in Anim : el[a] \in Shape \union {None}
    BY <1>5
  <2>3. \A a \in Anim : (IF a \in given THEN there[a - k] ELSE el[a]) \in Shape \union {None}
    BY <2>1, <2>2
  <2> QED
    BY <1>4, <1>8, <2>1, <2>3
<1>10. /\ fate' \in [Anim -> {"none", "runs", "ends", "stopped", "lost"}]
       /\ \A a \in given : fate'[a] = "runs" /\ \A b \in Anim : b \notin given => fate'[b] = fate[b]
       /\ \A b \in Anim : b \notin given => fate'[b] = fate[b]
  BY <1>4, <1>5, <1>8
<1>11. F!Started' = F!Started \union given
  BY <1>8, <1>9, FrameConstants DEF F!Started
<1>12. F!Started' = 1..(k + m) /\ k + m \in Nat
  BY <1>1, <1>2, <1>6, <1>11
<1>13. /\ entries' \in Seq(Anim) /\ Len(entries') = Len(entries) + m /\ Len(entries) \in Nat
       /\ \A j \in 1..Len(entries) : entries'[j] = entries[j]
       /\ \A i \in 1..m : entries'[Len(entries) + i] = ids[i]
  <2>1. ids \in Seq(Anim)
    <3>1. ids \in [1..m -> Anim]
      BY <1>6, <1>7
    <3> QED
      BY <1>2, <3>1
  <2>2. entries' \in Seq(Anim) /\ Len(entries') = Len(entries) + Len(ids)
    BY <1>4, <1>5, <2>1, ConcatProperties
  <2>3. Len(entries) \in Nat
    BY <1>5
  <2>4. \A j \in 1..(Len(entries) + Len(ids)) : entries'[j] = IF j <= Len(entries) THEN entries[j] ELSE ids[j - Len(entries)]
    BY <1>4, <1>5, <2>1, ConcatProperties
  <2>5. \A j \in 1..Len(entries) : entries'[j] = entries[j]
    BY <1>2, <1>6, <2>3, <2>4
  <2>6. ASSUME NEW i \in 1..m  PROVE entries'[Len(entries) + i] = ids[i]
    <3>1. Len(entries) + i \in 1..(Len(entries) + m) /\ ~(Len(entries) + i <= Len(entries)) /\ (Len(entries) + i) - Len(entries) = i
      BY <1>2, <2>3
    <3> QED
      BY <1>6, <2>4, <3>1
  <2> QED
    BY <1>6, <2>2, <2>3, <2>5, <2>6
<1>14. loops' \in Nat /\ (entries = <<>> /\ entries' # <<>> => loops' > 0) /\ loops' >= loops
  <2>1. entries = <<>> /\ ids = <<>> => entries' = <<>>
    BY <1>4
  <2> QED
    BY <1>4, <1>5, <2>1
<1>15. /\ ac' \in [Shape -> Anim \union {None}]
       /\ \A d \in Shape : mine(d) = {} => ac'[d] = ac[d]
       /\ \A d \in Shape : mine(d) # {} => ac'[d] \in mine(d) /\ \A b \in mine(d) : b <= ac'[d]
  <2>1. ASSUME NEW d \in Shape, mine(d) # {}  PROVE \E a \in mine(d) : \A b \in mine(d) : b <= a
    <3>1. mine(d) \subseteq 1..(k + m)
      BY <1>1, <1>2, <1>6
    <3> HIDE DEF mine
    <3> QED
      BY <1>12, <2>1, <3>1, HasLast
  <2> DEFINE last(d) == CHOOSE a \in given : el'[a] = d /\ \A b \in given : el'[b] = d => b <= a
  <2>2. ASSUME NEW d \in Shape, mine(d) # {}  PROVE last(d) \in mine(d) /\ \A b \in mine(d) : b <= last(d)
    <3>1. \E a \in given : el'[a] = d /\ \A b \in given : el'[b] = d => b <= a
      BY <2>1, <2>2
    <3>2. last(d) \in given /\ el'[last(d)] = d /\ \A b \in given : el'[b] = d => b <= last(d)
      BY <3>1
    <3> HIDE DEF last
    <3> QED
      BY <3>2
  <2>3. ac' = [d \in Shape |-> IF \E a \in given : el'[a] = d THEN last(d) ELSE ac[d]]
    BY <1>4
  <2> HIDE DEF last
  <2>4. \A d \in Shape : (\E a \in given : el'[a] = d) <=> mine(d) # {}
    OBVIOUS
  <2>5. \A d \in Shape : mine(d) # {} => last(d) \in Anim
    BY <1>8, <2>2
  <2> HIDE DEF mine
  <2>6. \A d \in Shape : ac'[d] = IF mine(d) # {} THEN last(d) ELSE ac[d]
    BY <2>3, <2>4
  <2>7. \A d \in Shape : (IF \E a \in given : el'[a] = d THEN last(d) ELSE ac[d]) \in Anim \union {None}
    BY <1>5, <2>4, <2>5
  <2>8. ac' \in [Shape -> Anim \union {None}]
    BY <2>3, <2>7
  <2> QED
    BY <2>2, <2>6, <2>8
<1>16. F!TypeOK'
  <2>1. timers' \subseteq F!Started' /\ called' \subseteq F!Started' /\ members' \subseteq F!Started' /\ over' \subseteq F!Started'
    BY <1>4, <1>5, <1>11, <1>5a
  <2>2. late' \subseteq over' /\ removed' \subseteq Shape /\ waiting' \in Nat \union {None} /\ heard' \in Nat
    BY <1>2, <1>4, <1>5, <1>5a
  <2>3. at' \in [l : Nat, anim : Anim \union {None}, doing : {"nothing", "next", "attr", "run"}]
        /\ thrown' \in BOOLEAN /\ meddled' \in BOOLEAN
    BY <1>4, <1>5
  <2> QED
    BY <1>9, <1>10, <1>13, <1>14, <1>15, <2>1, <2>2, <2>3 DEF F!TypeOK
<1>17. FrameTypes'
  <2>1. Begun'
    BY <1>12 DEF Begun
  <2> QED
    BY <1>4, <1>5, <1>16, <2>1 DEF FrameTypes, F!Idle
<1>18. F!LoopRuns'
  <2>1. entries = <<>> \/ (at = F!Idle /\ ~thrown => loops > 0)
    BY DEF FramesOK, F!LoopRuns
  <2> QED
    BY <1>4, <1>5, <1>14, <2>1 DEF F!LoopRuns, F!Idle
<1>19. Placed'
  <2> SUFFICES ASSUME ~meddled
               PROVE  /\ F!OwnEnd'
                      /\ \A b \in Anim : el'[b] = None => fate'[b] = "none"
                      /\ at.doing = "attr" => at.l \in 1..Len(entries') /\ entries'[at.l] = at.anim
    BY <1>4 DEF Placed
  <2>1. /\ \A b \in Anim : fate[b] = "runs" <=> \E j \in 1..Len(entries) : entries[j] = b
        /\ Distinct(entries) /\ \A b \in Anim : fate[b] # "lost"
        /\ \A b \in Anim : el[b] = None => fate[b] = "none"
        /\ at.doing = "attr" => at.l \in 1..Len(entries) /\ entries[at.l] = at.anim
    BY DEF FramesOK, Placed, F!OwnEnd, Distinct
  <2>2. \A a \in given : el[a] = None /\ fate[a] = "none"
    BY <1>8, <2>1 DEF F!Started
  <2>3. \A j \in 1..Len(entries) : entries[j] \in Anim /\ entries[j] \notin given
    BY <1>5, <2>1, <2>2
  <2>4. ASSUME NEW j \in 1..Len(entries')
        PROVE  \/ j \in 1..Len(entries) /\ entries'[j] = entries[j]
               \/ j - Len(entries) \in 1..m /\ entries'[j] = k + (j - Len(entries)) /\ entries'[j] \in given
    <3>1. CASE j <= Len(entries)
      BY <1>13, <3>1
    <3>2. CASE ~(j <= Len(entries))
      <4>1. j - Len(entries) \in 1..m /\ j = Len(entries) + (j - Len(entries))
        BY <1>2, <1>13, <3>2
      <4> QED
        BY <1>7, <1>13, <4>1
    <3> QED
      BY <3>1, <3>2
  <2>5. ASSUME NEW b \in Anim  PROVE fate'[b] = "runs" <=> \E j \in 1..Len(entries') : entries'[j] = b
    <3>1. CASE b \in given
      <4>1. b - k \in 1..m /\ ids[b - k] = b
        BY <1>8, <3>1
      <4>2. Len(entries) + (b - k) \in 1..Len(entries')
        BY <1>2, <1>13, <4>1
      <4> QED
        BY <1>10, <1>13, <3>1, <4>1, <4>2
    <3>2. CASE b \notin given
      <4>1. (\E j \in 1..Len(entries') : entries'[j] = b) => \E j \in 1..Len(entries) : entries[j] = b
        BY <2>4, <3>2
      <4>2. \A j \in 1..Len(entries) : j \in 1..Len(entries')
        BY <1>2, <1>13
      <4>3. (\E j \in 1..Len(entries) : entries[j] = b) => \E j \in 1..Len(entries') : entries'[j] = b
        BY <1>13, <4>2
      <4> QED
        BY <1>10, <2>1, <3>2, <4>1, <4>3
    <3> QED
      BY <3>1, <3>2
  <2>6. Distinct(entries')
    <3> SUFFICES ASSUME NEW i \in 1..Len(entries'), NEW j \in 1..Len(entries'), entries'[i] = entries'[j]  PROVE i = j
      BY DEF Distinct
    <3>1. CASE i \in 1..Len(entries) /\ entries'[i] = entries[i]
      <4>1. j \in 1..Len(entries) /\ entries'[j] = entries[j]
        BY <2>3, <2>4, <3>1
      <4>2. entries[i] = entries[j]
        BY <3>1, <4>1
      <4>3. \A x, y \in 1..Len(entries) : entries[x] = entries[y] => x = y
        BY <2>1 DEF Distinct
      <4> QED
        BY <3>1, <4>1, <4>2, <4>3
    <3>2. CASE i - Len(entries) \in 1..m /\ entries'[i] = k + (i - Len(entries)) /\ entries'[i] \in given
      <4>1. j - Len(entries) \in 1..m /\ entries'[j] = k + (j - Len(entries))
        BY <2>3, <2>4, <3>2
      <4>2. k + (i - Len(entries)) = k + (j - Len(entries))
        BY <3>2, <4>1
      <4>3. Len(entries) \in Nat /\ i \in Int /\ j \in Int
        BY <1>13
      <4> QED
        BY <1>1, <4>2, <4>3
    <3> QED
      BY <2>4, <3>1, <3>2
  <2>7. \A b \in Anim : fate'[b] # "lost"
    BY <1>10, <2>1
  <2>8. \A b \in Anim : el'[b] = None => fate'[b] = "none"
    <3>1. \A b \in given : el'[b] # None
      BY <1>9, FrameConstants
    <3> QED
      BY <1>9, <1>10, <2>1, <3>1
  <2>9. at.doing = "attr" => at.l \in 1..Len(entries') /\ entries'[at.l] = at.anim
    BY <1>2, <1>13, <2>1
  <2> QED
    BY <2>5, <2>6, <2>7, <2>8, <2>9 DEF F!OwnEnd, Distinct
<1>20. Timed'
  <2> SUFFICES ASSUME NEW b \in timers', el'[b] \notin removed, ~\E c \in F!Started' : c > b /\ el'[c] = el'[b]
               PROVE  ac'[el'[b]] = b /\ fate'[b] # "stopped"
    <3>1. removed' = removed
      BY <1>4
    <3> QED
      BY <3>1 DEF Timed
  <2>1. CASE b \in given
    <3> DEFINE d == el'[b]
    <3>1. d \in Shape /\ b \in mine(d)
      BY <1>9, <2>1
    <3> HIDE DEF d
    <3>2. ac'[d] \in mine(d) /\ b <= ac'[d]
      BY <1>15, <3>1
    <3>3. ac'[d] \in given /\ el'[ac'[d]] = d
      BY <3>2
    <3>4. ~(ac'[d] > b)
      BY <1>11, <3>3 DEF d
    <3>5. ac'[d] \in Nat /\ b \in Nat
      BY <1>2, <1>6, <2>1, <3>3
    <3>6. ac'[d] = b
      <4> HIDE DEF mine
      <4> QED
        BY <3>2, <3>4, <3>5
    <3> QED
      BY <1>10, <2>1, <3>6 DEF d
  <2>2. CASE b \notin given
    <3>1. b \in timers /\ b \in F!Started /\ b \in Anim /\ b \in 1..k
      BY <1>1, <1>4, <1>5, <2>2 DEF F!Started
    <3>2. el'[b] = el[b] /\ fate'[b] = fate[b] /\ el[b] \in Shape
      BY <1>5, <1>9, <1>10, <2>2, <3>1 DEF F!Started
    <3>3. \A c \in F!Started : el'[c] = el[c]
      BY <1>8, <1>9 DEF F!Started
    <3>4. ac[el[b]] = b /\ fate[b] # "stopped"
      BY <1>11, <3>1, <3>2, <3>3 DEF FramesOK, Timed
    <3>5. \A a \in given : a > b
      BY <1>1, <1>2, <1>6, <3>1
    <3>6. mine(el[b]) = {}
      BY <1>11, <3>2, <3>5
    <3> QED
      BY <1>15, <3>2, <3>4, <3>6
  <2> QED
    BY <2>1, <2>2
<1>21. Collecting'
  <2>1. timers' \cap called' = {}
    BY <1>4, <1>5, <1>8 DEF FramesOK, Collecting
  <2>2. waiting' \in Nat /\ waiting' # None /\ heard' = IF waiting' = 0 THEN 1 ELSE 0
    BY <1>2, <1>4, <1>5, FrameConstants
  <2>3. Cardinality(given) = m
    <3>1. Cardinality((k + 1)..(k + m)) = m
      BY <1>1, <1>2, FS_Interval
    <3> QED
      BY <1>6, <3>1
  <2>4. given \cap called = {}
    BY <1>5, <1>8
  <2>5. Cardinality(members') <= left /\ waiting' + Cardinality(members' \cap called') = left
    <3>1. members' = given /\ called' = called /\ waiting' = left
      BY <1>4
    <3>2. members' \cap called' = {}
      BY <2>4, <3>1
    <3>3. Cardinality(members' \cap called') = 0
      BY <3>2, FS_EmptySet
    <3> QED
      BY <1>2, <2>3, <3>1, <3>3
  <2> QED
    BY <1>2, <2>1, <2>2, <2>5 DEF Collecting
<1> QED
  BY <1>17, <1>18, <1>19, <1>20, <1>21 DEF FramesOK

LEMMA FramesStep ==
  ASSUME FramesOK, [F!Next]_(F!vars)  PROVE FramesOK'
<1>1. CASE UNCHANGED F!vars
  <2>1. /\ UNCHANGED <<el, entries, over, fate, removed, timers, ac, waiting, members, heard, called, thrown, meddled>>
        /\ UNCHANGED <<loops, late, at>>
    BY <1>1 DEF F!vars, F!array, F!calls
  <2>2. F!Started' = F!Started
    BY <2>1 DEF F!Started
  <2>3. F!TypeOK'
    BY <2>1, <2>2 DEF FramesOK, FrameTypes, F!TypeOK
  <2>4. FrameTypes'
    BY <2>1, <2>2, <2>3 DEF FramesOK, FrameTypes, Begun, F!Idle
  <2>5. F!LoopRuns' /\ Placed'
    BY <2>1 DEF FramesOK, F!LoopRuns, F!Idle, Placed, F!OwnEnd
  <2>6. Timed' /\ Collecting'
    BY <2>1, <2>2 DEF FramesOK, Timed, Collecting
  <2> QED
    BY <2>4, <2>5, <2>6 DEF FramesOK
<1>2. ASSUME NEW e \in Shape, NEW callback \in BOOLEAN, NEW atOnce \in BOOLEAN, F!Animate(e, callback, atOnce)  PROVE FramesOK'
  BY <1>2, AnimateSafe
<1>3. CASE \E atOnce \in BOOLEAN : F!AnimateSet(atOnce)
  BY <1>3, AnimateSetSafe
<1>4. ASSUME NEW e \in Shape, F!Stop(e) \/ F!Remove(e)  PROVE FramesOK'
  BY <1>4, StopSafe, RemoveSafe
<1>5. CASE F!PageThrows \/ F!AttrThrows
  BY <1>5, ThrowsSafe DEF F!PageThrows, F!AttrThrows
<1>6. CASE F!FrameBegins
  BY <1>6, FrameBeginsSafe
<1>7. CASE F!FrameGoesOn
  BY <1>7, FrameGoesOnSafe
<1>8. CASE F!AttrReturns
  BY <1>8, AttrReturnsSafe
<1>9. CASE F!RunReturns
  BY <1>9, RunReturnsSafe
<1>10. CASE F!FrameEnds
  BY <1>10, FrameEndsSafe
<1>11. ASSUME NEW a \in Anim, F!TimeIsUp(a) \/ F!CallBack(a)  PROVE FramesOK'
  BY <1>11, TimeIsUpSafe, CallBackSafe
<1> QED
  BY <1>1, <1>2, <1>3, <1>4, <1>5, <1>6, <1>7, <1>8, <1>9, <1>10, <1>11 DEF F!Next, F!Page, F!Engine

\* What the array and the timers say of each animation is what is promised of it.
LEMMA FramesTell == FramesOK => Animated
<1> SUFFICES ASSUME FramesOK  PROVE Animated
  OBVIOUS
<1>1. F!LoopRuns
  BY DEF FramesOK
<1>2. F!OwnEnd
  <2>1. ~meddled => F!OwnEnd
    BY DEF FramesOK, Placed
  <2> QED
    BY <2>1 DEF F!OwnEnd
<1>3. F!Silent
  BY DEF FramesOK, Timed, F!Silent
<1>4. F!Collected
  <2>1. CASE waiting = None
    BY <2>1 DEF FramesOK, Collecting, F!Collected
  <2>2. CASE waiting # None
    <3>1. heard <= 1
      BY <2>2 DEF FramesOK, Collecting
    <3>2. ASSUME heard = 1  PROVE members \subseteq called
      <4>1. waiting = 0
        BY <2>2, <3>2 DEF FramesOK, Collecting
      <4>2. PICK t \in Nat : Cardinality(members) <= t /\ 0 + Cardinality(members \cap called) = t
        BY <2>2, <4>1 DEF FramesOK, Collecting
      <4>3. IsFiniteSet(members)
        <5>1. members \subseteq Anim
          BY DEF FramesOK, FrameTypes, F!TypeOK, F!Started
        <5> QED
          BY <5>1, FrameConstants, FS_Subset
      <4>4. Cardinality(members) \in Nat /\ members \cap called \subseteq members
        BY <4>3, FS_CardinalityType
      <4>5. Cardinality(members \cap called) <= Cardinality(members) /\ IsFiniteSet(members \cap called)
        BY <4>3, <4>4, FS_Subset
      <4>6. Cardinality(members \cap called) = Cardinality(members)
        BY <4>2, <4>4, <4>5, FS_CardinalityType
      <4>7. members \cap called = members
        BY <4>3, <4>4, <4>6, FS_Subset
      <4> QED
        BY <4>7
    <3> QED
      BY <3>1, <3>2 DEF F!Collected
  <2> QED
    BY <2>1, <2>2
<1> QED
  BY <1>1, <1>2, <1>3, <1>4 DEF Animated

\* Of any number of animations, of any elements, with sets and removed elements among them:
\* frames come as long as there are entries; as long as no custom attribute stops one within a
\* frame, the array has exactly those that run, each once, and none is ended for another; a
\* stopped animation calls back only where a later one took its place; and the callback of a
\* set is called once, when all its items that were there have called back (12216-12321,
\* 12432-12595, 12657-12673).
THEOREM AnimationsAreKept == F!Spec => []Animated
<1>1. F!Init => FramesOK
  BY FramesStart
<1>2. FramesOK /\ [F!Next]_(F!vars) => FramesOK'
  BY FramesStep
<1>3. FramesOK => Animated
  BY FramesTell
<1> QED
  BY <1>1, <1>2, <1>3, PTL DEF F!Spec
=============================================================================
