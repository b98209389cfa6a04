---------------------------- MODULE RenameProofs ----------------------------
(***************************************************************************)
(* Proofs about RenameTree for every tree, rule table and number of runs.  *)
(*                                                                         *)
(* The safety properties follow from PathsResolve, which is inductive      *)
(* together with TypeOK and WalkInv: the loops hold names and paths that   *)
(* were read or put together before other renames happened, and            *)
(* PathsResolve says that they are still good.                             *)
(*                                                                         *)
(* Then: what a run has done to each node when it is through, that the     *)
(* walk refines RenamePromise, and how many files it can leave torn.  The  *)
(* promise of a completed run is not inductive: it must be known of each   *)
(* node, at every moment, whether the walk has still to come to it.        *)
(***************************************************************************)
EXTENDS RenameProperties, TLAPS, WellFoundedInduction, FiniteSetTheorems

(* Loops over the rules. Rewrite is a fold: what it computes is proved by  *)
(* induction over the rules, for which a set of numbers has a least one.   *)

\* A set of numbers that is not empty has a least one.
LEMMA LeastExists ==
  ASSUME NEW S \in SUBSET Nat, S # {}
  PROVE  \E m \in S : \A k \in S : m <= k
<1> DEFINE R == {p \in Nat \X Nat : p[1] < p[2]}
<1>1. IsWellFoundedOn(R, Nat)
  BY NatLessThanWellFounded, Zenon DEF OpToRel
<1>2. PICK m \in S : \A k \in S : <<k, m>> \notin R
  <2> HIDE DEF R
  <2> QED
    BY <1>1, WFMin
<1>3. ASSUME NEW k \in S PROVE m <= k
  <2>1. m \in Nat /\ k \in Nat
    OBVIOUS
  <2>2. k < m => <<k, m>> \in R
    BY <2>1
  <2> QED
    BY <1>2, <2>1, <2>2
<1> QED
  BY <1>3

\* Induction up to n: what holds of 0, and of k if of k - 1, holds of all.
LEMMA CountUp ==
  ASSUME NEW n \in Nat, NEW S, 0 \in S, \A k \in 1..n : k - 1 \in S => k \in S
  PROVE  \A k \in 0..n : k \in S
<1> DEFINE Bad == {k \in 0..n : k \notin S}
<1> SUFFICES ASSUME Bad # {} PROVE FALSE
  OBVIOUS
<1>1. PICK k \in Bad : \A j \in Bad : k <= j
  <2>1. Bad \in SUBSET Nat
    OBVIOUS
  <2> HIDE DEF Bad
  <2> QED
    BY <2>1, LeastExists
<1>2. k \in 1..n /\ k - 1 \in 0..n /\ ~(k <= k - 1)
  OBVIOUS
<1>3. k - 1 \in S
  BY <1>1, <1>2
<1> QED
  BY <1>2, <1>3

\* The greatest of some numbers up to n is n if n is one of them.
LEMMA MaxIs ==
  ASSUME NEW n \in Nat, NEW s \in SUBSET (1..n), n \in s
  PROVE  Max(s) = n
<1>1. n \in s /\ \A y \in s : n >= y
  OBVIOUS
<1>2. \A x \in s : (\A y \in s : x >= y) => x = n
  OBVIOUS
<1> QED
  BY <1>1, <1>2 DEF Max

\* The greatest of some numbers up to n is one of them.
LEMMA MaxAmong ==
  ASSUME NEW n \in Nat, NEW s \in SUBSET (1..n), s # {}
  PROVE  Max(s) \in s
<1> DEFINE U == {k \in Nat : \A y \in s : k >= y}
<1>1. PICK m \in U : \A k \in U : m <= k
  <2>1. n \in U
    OBVIOUS
  <2> QED
    BY <2>1, LeastExists
<1>2. m \in s
  <2> SUFFICES ASSUME m \notin s PROVE FALSE
    OBVIOUS
  <2>1. m \in Nat /\ \A y \in s : y \in 1..n /\ m >= y
    BY <1>1
  <2>2. m # 0
    <3> PICK y \in s : TRUE
      OBVIOUS
    <3> QED
      BY <2>1
  <2>3. ASSUME NEW y \in s PROVE m - 1 >= y
    <3>1. y \in Nat /\ y # m /\ m >= y
      BY <2>1
    <3> QED
      BY <2>1, <3>1
  <2>4. m <= m - 1
    BY <1>1, <2>1, <2>2, <2>3
  <2> QED
    BY <2>1, <2>4
<1> QED
  BY <1>1, <1>2 DEF Max

\* g is a fold over the numbers up to n that takes the greatest last.
Iterates(g, n, b, F) ==
  \A s \in SUBSET (1..n) : g[s] = IF s = {} THEN b ELSE F[<<g[s \ {Max(s)}], Max(s)>>]

\* Such a fold exists.
LEMMA IterExists ==
  ASSUME NEW N \in Nat, NEW C, NEW b \in C, NEW F \in [C \X (1..N) -> C]
  PROVE  \E g \in [SUBSET (1..N) -> C] : Iterates(g, N, b, F)
<1> DEFINE Good(n) == \E g \in [SUBSET (1..n) -> C] : Iterates(g, n, b, F)
           S == {n \in 0..N : Good(n)}
<1>1. 0 \in S
  <2> DEFINE g == [s \in SUBSET (1..0) |-> b]
  <2>1. g \in [SUBSET (1..0) -> C] /\ Iterates(g, 0, b, F)
    BY DEF Iterates
  <2>2. Good(0)
    <3> HIDE DEF g
    <3> QED
      BY <2>1
  <2> HIDE DEF Good
  <2> QED
    BY <2>2
<1>2. ASSUME NEW n \in 1..N, n - 1 \in S PROVE n \in S
  <2>1. PICK g \in [SUBSET (1..(n - 1)) -> C] : Iterates(g, n - 1, b, F)
    BY <1>2
  <2> DEFINE h == [s \in SUBSET (1..n) |-> IF n \in s THEN F[<<g[s \ {n}], n>>] ELSE g[s]]
  <2>2. \A s \in SUBSET (1..n) : s \ {n} \in SUBSET (1..(n - 1))
    OBVIOUS
  <2>3. h \in [SUBSET (1..n) -> C]
    BY <2>1, <2>2
  <2>4. ASSUME NEW s \in SUBSET (1..n), s # {} PROVE h[s] = F[<<h[s \ {Max(s)}], Max(s)>>]
    <3>1. CASE n \in s
      <4>1. Max(s) = n
        BY <3>1, MaxIs
      <4>2. h[s \ {n}] = g[s \ {n}]
        OBVIOUS
      <4> QED
        BY <4>1, <4>2, <3>1
    <3>2. CASE n \notin s
      <4>1. s \in SUBSET (1..(n - 1))
        BY <2>2, <3>2
      <4>2. h[s] = g[s] /\ h[s \ {Max(s)}] = g[s \ {Max(s)}]
        BY <3>2
      <4> QED
        BY <4>1, <4>2, <2>1, <2>4 DEF Iterates
    <3> QED
      BY <3>1, <3>2
  <2>5. h[{}] = b
    BY <2>1 DEF Iterates
  <2>6. Iterates(h, n, b, F)
    BY <2>4, <2>5 DEF Iterates
  <2> HIDE DEF h
  <2> QED
    BY <2>3, <2>6
<1>3. N \in S
  <2> HIDE DEF S
  <2> QED
    BY <1>1, <1>2, CountUp
<1> QED
  BY <1>3

\* What the loop of replaceContent has.
Pass == [txt : Text, change : BOOLEAN]

\* T is what it has after each rule, of the text t (130-138).
Passes(T, t) ==
  /\ T \in [0..Size -> Pass]
  /\ T[0] = [txt |-> t, change |-> FALSE]
  /\ \A k \in 1..Size : T[k] = IF Has[k][T[k - 1].txt]
                                THEN [txt |-> Sub[k][T[k - 1].txt], change |-> TRUE] ELSE T[k - 1]

\* The loop goes through the rules one by one.
LEMMA RewriteLoop ==
  ASSUME NEW t \in Text
  PROVE  \E T : Passes(T, t) /\ Rewrite(t) = T[Size]
<1> DEFINE b == [txt |-> t, change |-> FALSE]
           op(c, r) == IF Has[r][c.txt] THEN [txt |-> Sub[r][c.txt], change |-> TRUE] ELSE c
           F == [p \in Pass \X (1..Size) |-> op(p[1], p[2])]
           seq == [r \in Rules |-> r]
           Eq(g) == g = [s \in SUBSET (DOMAIN seq) |-> IF s = {} THEN b ELSE op(g[s \ {Max(s)}], seq[Max(s)])]
           it == CHOOSE g : Eq(g)
           T == [k \in 0..Size |-> it[1..k]]
<1>1. Size \in Nat /\ b \in Pass
  BY RuleAssumption DEF Pass
<1>2. F \in [Pass \X (1..Size) -> Pass]
  BY RuleAssumption DEF Pass, Rules
<1>3. \E g : Eq(g)
  <2> HIDE DEF b, op, F
  <2>1. PICK g \in [SUBSET (1..Size) -> Pass] : Iterates(g, Size, b, F)
    BY <1>1, <1>2, IterExists, Zenon
  <2>2. ASSUME NEW s \in SUBSET (1..Size), s # {}
        PROVE  F[<<g[s \ {Max(s)}], Max(s)>>] = op(g[s \ {Max(s)}], seq[Max(s)])
    <3>1. Max(s) \in 1..Size
      BY <1>1, <2>2, MaxAmong
    <3>2. g[s \ {Max(s)}] \in Pass
      OBVIOUS
    <3> QED
      BY <3>1, <3>2 DEF F, Rules
  <2>3. Eq(g)
    BY <2>1, <2>2 DEF Rules, Iterates
  <2> QED
    BY <2>3
<1>4. Eq(it)
  <2> HIDE DEF Eq
  <2> QED
    BY <1>3
<1>5. Rewrite(t) = it[DOMAIN seq]
  BY Zenon DEF Rewrite, FoldLeft, MapThenFoldSet, Rules
<1>6. DOMAIN seq = 1..Size /\ \A k \in 1..Size : seq[k] = k
  BY DEF Rules
<1>7. it[{}] = b /\ \A s \in SUBSET (1..Size) : s # {} => it[s] = op(it[s \ {Max(s)}], seq[Max(s)])
  <2> HIDE DEF it, op, b, seq
  <2> QED
    BY <1>4, <1>6
<1> HIDE DEF it, seq
<1>8. ASSUME NEW k \in 1..Size PROVE T[k] = op(T[k - 1], k)
  <2>1. 1..k \in SUBSET (1..Size) /\ 1..k # {} /\ k \in Nat /\ 1..k \in SUBSET (1..k) /\ k \in 1..k
    BY <1>1
  <2>2. Max(1..k) = k /\ (1..k) \ {k} = 1..(k - 1)
    BY <2>1, MaxIs
  <2>3. k \in 0..Size /\ k - 1 \in 0..Size
    BY <1>1
  <2> HIDE DEF op
  <2>4. it[1..k] = op(it[1..(k - 1)], k)
    BY <1>6, <1>7, <2>1, <2>2
  <2> QED
    BY <2>3, <2>4
<1>9. T[0] = b
  BY <1>1, <1>7, 1..0 = {}
<1> DEFINE S == {k \in 0..Size : T[k] \in Pass}
<1>10. \A k \in 0..Size : k \in S
  <2> HIDE DEF T
  <2>1. 0 \in S
    BY <1>1, <1>9
  <2>2. ASSUME NEW k \in 1..Size, k - 1 \in S PROVE k \in S
    <3>1. op(T[k - 1], k) \in Pass
      BY <2>2, RuleAssumption DEF Pass, Rules
    <3> QED
      BY <1>8, <3>1
  <2> HIDE DEF S
  <2> QED
    BY <1>1, <2>1, <2>2, CountUp
<1>11. T \in [0..Size -> Pass]
  <2> HIDE DEF Pass
  <2> QED
    BY <1>10
<1>12. Rewrite(t) = T[Size]
  BY <1>1, <1>5, <1>6
<1> HIDE DEF T
<1> QED
  BY <1>8, <1>9, <1>11, <1>12 DEF Passes

\* The parts of one round.
LEMMA OnePass ==
  ASSUME NEW T, NEW t, Passes(T, t), NEW k \in 1..Size
  PROVE  /\ k \in Rules /\ k \in 0..Size /\ k - 1 \in 0..Size /\ k \in Nat
         /\ T[k - 1] \in Pass /\ T[k - 1].txt \in Text /\ T[k - 1].change \in BOOLEAN
         /\ Has[k][T[k - 1].txt] => T[k].txt = Sub[k][T[k - 1].txt] /\ T[k].change = TRUE
         /\ ~Has[k][T[k - 1].txt] => T[k] = T[k - 1]
<1>1. Size \in Nat
  BY RuleAssumption
<1>2. k \in Rules /\ k \in 0..Size /\ k - 1 \in 0..Size /\ k \in Nat
  BY <1>1 DEF Rules
<1>3. T[k - 1] \in Pass
  BY <1>2 DEF Passes
<1>4. T[k - 1].txt \in Text /\ T[k - 1].change \in BOOLEAN
  BY <1>3 DEF Pass
<1>5. T[k] = IF Has[k][T[k - 1].txt]
             THEN [txt |-> Sub[k][T[k - 1].txt], change |-> TRUE] ELSE T[k - 1]
  BY DEF Passes
<1> QED
  BY <1>2, <1>3, <1>4, <1>5

\* The types of what the loop returns.
LEMMA RewriteTyped ==
  ASSUME NEW t \in Text
  PROVE  Rewrite(t) \in Pass /\ Content(t) \in Text /\ Rewrite(t).change \in BOOLEAN
<1>1. Rewrite(t) \in Pass
  <2> PICK T : Passes(T, t) /\ Rewrite(t) = T[Size]
    BY RewriteLoop
  <2> QED
    BY RuleAssumption DEF Passes
<1> QED
  BY <1>1 DEF Pass, Content

\* A text is as it was unless the loop says that it changed.
LEMMA RewriteUnchanged ==
  ASSUME NEW t \in Text, ~Rewrite(t).change
  PROVE  Content(t) = t
<1> PICK T : Passes(T, t) /\ Rewrite(t) = T[Size]
  BY RewriteLoop
<1>0. Size \in Nat /\ T[0] = [txt |-> t, change |-> FALSE]
  BY RuleAssumption DEF Passes
<1> DEFINE S == {k \in 0..Size : ~T[k].change => T[k].txt = t}
<1>1. 0 \in S
  BY <1>0
<1>2. ASSUME NEW k \in 1..Size, k - 1 \in S PROVE k \in S
  BY <1>2, OnePass
<1>3. Size \in S
  <2> HIDE DEF S
  <2> QED
    BY <1>0, <1>1, <1>2, CountUp
<1> QED
  BY <1>3 DEF Content

\* A text in which no rule occurs stays as it is.
LEMMA RewriteIdle ==
  ASSUME NEW t \in Text, ~Matches(t)
  PROVE  Rewrite(t) = [txt |-> t, change |-> FALSE]
<1> PICK T : Passes(T, t) /\ Rewrite(t) = T[Size]
  BY RewriteLoop
<1>0. Size \in Nat /\ T[0] = [txt |-> t, change |-> FALSE]
  BY RuleAssumption DEF Passes
<1> DEFINE S == {k \in 0..Size : T[k] = [txt |-> t, change |-> FALSE]}
<1>1. 0 \in S
  BY <1>0
<1>2. ASSUME NEW k \in 1..Size, k - 1 \in S PROVE k \in S
  <2>1. k \in Rules /\ k \in 0..Size /\ T[k - 1] = [txt |-> t, change |-> FALSE]
    BY <1>2, OnePass
  <2>2. ~Has[k][T[k - 1].txt]
    BY <2>1 DEF Matches
  <2> QED
    BY <2>1, <2>2, OnePass
<1>3. Size \in S
  <2> HIDE DEF S
  <2> QED
    BY <1>0, <1>1, <1>2, CountUp
<1> QED
  BY <1>3

\* Where one rule occurs, and none in what it makes, the loop replaces as the rename does.
LEMMA RewriteOnce ==
  ASSUME NEW t \in Text, NEW r \in Rules, Has[r][t], \A s \in Rules : Has[s][t] => s = r,
         ~Matches(Sub[r][t])
  PROVE  Content(t) = Sub[r][t]
<1> PICK T : Passes(T, t) /\ Rewrite(t) = T[Size]
  BY RewriteLoop
<1>0. Size \in Nat /\ T[0] = [txt |-> t, change |-> FALSE]
  BY RuleAssumption DEF Passes
<1> DEFINE S == {k \in 0..Size : T[k].txt = IF k < r THEN t ELSE Sub[r][t]}
<1>r. r \in 1..Size
  BY DEF Rules
<1>1. 0 \in S
  BY <1>0, <1>r
<1>2. ASSUME NEW k \in 1..Size, k - 1 \in S PROVE k \in S
  <2>1. k - 1 \in Int /\ k \in Int /\ r \in Int /\ k \in Rules /\ k \in 0..Size
    BY <1>0, <1>r DEF Rules
  <2>2. CASE k < r
    <3>1. T[k - 1].txt = t /\ k # r
      BY <1>2, <2>1, <2>2
    <3>2. ~Has[k][t]
      BY <2>1, <3>1
    <3> QED
      BY <2>1, <2>2, <3>1, <3>2, OnePass
  <2>3. CASE k = r
    <3>1. T[k - 1].txt = t
      BY <1>2, <2>1, <2>3
    <3>a. Has[k][T[k - 1].txt] => T[k].txt = Sub[k][T[k - 1].txt]
      BY OnePass
    <3>2. T[k].txt = Sub[k][t]
      BY <2>3, <3>1, <3>a
    <3> QED
      BY <2>1, <2>3, <3>2
  <2>4. CASE k > r
    <3>1. T[k - 1].txt = Sub[r][t]
      BY <1>2, <2>1, <2>4
    <3>2. ~Has[k][T[k - 1].txt]
      BY <2>1, <3>1 DEF Matches
    <3>3. T[k].txt = Sub[r][t]
      BY <3>1, <3>2, OnePass
    <3> QED
      BY <2>1, <2>4, <3>3
  <2> QED
    BY <2>1, <2>2, <2>3, <2>4
<1>3. Size \in S
  <2> HIDE DEF S
  <2> QED
    BY <1>0, <1>1, <1>2, CountUp
<1> QED
  BY <1>0, <1>r, <1>3 DEF Content

\* No rule makes a text empty if none makes its occurrences so.
LEMMA RewriteNotTorn ==
  ASSUME NEW t \in Text, t # Torn, \A r \in Rules, u \in Text : Has[r][u] => Sub[r][u] # Torn
  PROVE  Content(t) # Torn
<1> PICK T : Passes(T, t) /\ Rewrite(t) = T[Size]
  BY RewriteLoop
<1>0. Size \in Nat /\ T[0] = [txt |-> t, change |-> FALSE]
  BY RuleAssumption DEF Passes
<1> DEFINE S == {k \in 0..Size : T[k].txt # Torn}
<1>1. 0 \in S
  BY <1>0
<1>2. ASSUME NEW k \in 1..Size, k - 1 \in S PROVE k \in S
  <2>1. k \in Rules /\ k \in 0..Size /\ T[k - 1].txt \in Text /\ T[k - 1].txt # Torn
    BY <1>2, OnePass
  <2>2. ASSUME Has[k][T[k - 1].txt] PROVE T[k].txt # Torn
    <3>1. T[k].txt = Sub[k][T[k - 1].txt]
      BY <2>2, OnePass
    <3> QED
      BY <2>1, <2>2, <3>1
  <2>3. ~Has[k][T[k - 1].txt] => T[k].txt # Torn
    BY <2>1, OnePass
  <2> QED
    BY <2>1, <2>2, <2>3
<1>3. Size \in S
  <2> HIDE DEF S
  <2> QED
    BY <1>0, <1>1, <1>2, CountUp
<1> QED
  BY <1>3 DEF Content

\* The promise makes of a content what the loop does.
LEMMA NewTextIsContent ==
  ASSUME NEW t \in Text
  PROVE  Promise!NewText(t) = Content(t)
<1> PICK T : Passes(T, t) /\ Rewrite(t) = T[Size]
  BY RewriteLoop
<1>0. Size \in Nat /\ T[0] = [txt |-> t, change |-> FALSE]
  BY RuleAssumption DEF Passes
<1> DEFINE op(u, r) == IF Has[r][u] THEN Sub[r][u] ELSE u
           F == [p \in Text \X (1..Size) |-> op(p[1], p[2])]
           seq == [r \in 1..Size |-> r]
           Eq(g) == g = [s \in SUBSET (DOMAIN seq) |-> IF s = {} THEN t ELSE op(g[s \ {Max(s)}], seq[Max(s)])]
           it == CHOOSE g : Eq(g)
<1>1. Size \in Nat /\ F \in [Text \X (1..Size) -> Text]
  BY RuleAssumption DEF Rules
<1>2. \E g : Eq(g)
  <2> HIDE DEF op, F
  <2>1. PICK g \in [SUBSET (1..Size) -> Text] : Iterates(g, Size, t, F)
    BY <1>1, IterExists, Zenon
  <2>2. ASSUME NEW s \in SUBSET (1..Size), s # {}
        PROVE  F[<<g[s \ {Max(s)}], Max(s)>>] = op(g[s \ {Max(s)}], seq[Max(s)])
    <3>1. Max(s) \in 1..Size
      BY <1>1, <2>2, MaxAmong
    <3>2. g[s \ {Max(s)}] \in Text
      OBVIOUS
    <3> QED
      BY <3>1, <3>2 DEF F
  <2>3. Eq(g)
    BY <2>1, <2>2 DEF Iterates
  <2> QED
    BY <2>3
<1>3. Eq(it)
  <2> HIDE DEF Eq
  <2> QED
    BY <1>2
<1>4. Promise!NewText(t) = it[DOMAIN seq]
  BY Zenon DEF Promise!NewText, Promise!FoldLeft, Promise!MapThenFoldSet, Promise!Max, Max
<1>5. it[{}] = t /\ \A s \in SUBSET (1..Size) : s # {} => it[s] = op(it[s \ {Max(s)}], Max(s))
  <2>1. DOMAIN seq = 1..Size /\ \A s \in SUBSET (1..Size) : s # {} => seq[Max(s)] = Max(s)
    BY <1>1, MaxAmong
  <2> HIDE DEF it, op, seq
  <2> QED
    BY <1>3, <2>1
<1> HIDE DEF it
<1> DEFINE S == {k \in 0..Size : it[1..k] = T[k].txt}
<1>6. 0 \in S
  BY <1>0, <1>5, 1..0 = {}
<1>7. ASSUME NEW k \in 1..Size, k - 1 \in S PROVE k \in S
  <2>1. 1..k \in SUBSET (1..Size) /\ 1..k # {} /\ k \in Nat /\ 1..k \in SUBSET (1..k) /\ k \in 1..k
    BY <1>1
  <2>2. Max(1..k) = k /\ (1..k) \ {k} = 1..(k - 1)
    BY <2>1, MaxIs
  <2>3. it[1..k] = op(T[k - 1].txt, k)
    <3> HIDE DEF op
    <3> QED
      BY <1>5, <1>7, <2>1, <2>2
  <2>4. k \in 0..Size
    BY <1>1
  <2>5. T[k].txt = op(T[k - 1].txt, k)
    BY OnePass
  <2> HIDE DEF op
  <2> QED
    BY <2>3, <2>4, <2>5
<1>8. Size \in S
  <2> HIDE DEF S
  <2> QED
    BY <1>1, <1>6, <1>7, CountUp
<1>9. DOMAIN seq = 1..Size
  OBVIOUS
<1> QED
  BY <1>4, <1>8, <1>9 DEF Content

-----------------------------------------------------------------------------
\* The types hold for every tree, rule table and number of runs: what a loop of
\* main.go takes from a listing is always an entry.  Inductive as it is.
THEOREM TypeCorrect == Spec => []TypeOK
<1>1. Init => TypeOK
  BY RuleAssumption, TreeAssumption, TreesAssumption
  DEF Init, TypeOK, Active, Walking, Halted
<1>2. TypeOK /\ [Next]_vars => TypeOK'
  <2> SUFFICES ASSUME TypeOK, [Next]_vars PROVE TypeOK'
    OBVIOUS
  <2> USE TreeAssumption, RuleAssumption DEF TypeOK, Active, Walking, Halted, disk, tree0, walk
  <2>a. ASSUME NEW d \in Node, Enter(d) PROVE TypeOK'
    <3>1. Listing(d) \in SUBSET [name : Text, dir : BOOLEAN]
      BY DEF Listing, Kids
    <3> QED
      BY <2>a, <3>1 DEF Enter
  <2>b. ASSUME NEW x \in {"denied", "clash", "missing"}, Panic(x) PROVE TypeOK'
    BY <2>b DEF Panic
  <2>c. ASSUME NEW e \in todo[cur], NEW t \in Text, Proceed(e, t), name' \in [Node -> Text], live' \subseteq live
        PROVE TypeOK'
    BY <2>c DEF Proceed, Take
  <2>1. CASE ReadBase
    BY <2>1, <2>a DEF ReadBase
  <2>2. CASE OpenDir
    BY <2>2, <2>a DEF OpenDir, Lookup, Kids
  <2>3. CASE ReadFile
    <3>1. PICK f \in Node : buf' = Rewrite(text[f]).txt /\ pc' \in {"write", "loop"}
      BY <2>3 DEF ReadFile, Lookup, Kids
    <3>2. buf' \in Text
      BY <3>1, RewriteTyped DEF Content
    <3> QED
      BY <2>3, <3>1, <3>2 DEF ReadFile
  <2>4. CASE Truncate
    BY <2>4 DEF Truncate, Write, Lookup, Kids
  <2>5. CASE Flush
    BY <2>5 DEF Flush, Write, Lookup, Kids
  <2>6. CASE Return
    BY <2>6 DEF Return
  <2>7. ASSUME NEW e \in todo[cur], Skip(e) PROVE TypeOK'
    BY <2>7 DEF Skip, Take
  <2>8. ASSUME NEW e \in todo[cur], KeepName(e) PROVE TypeOK'
    BY <2>8, <2>c DEF KeepName
  <2>9. ASSUME NEW e \in todo[cur], Rename(e) PROVE TypeOK'
    <3> PICK r \in Rules, n \in Lookup(cur, e.name) :
          /\ name' = [name EXCEPT ![n] = Sub[r][e.name]]
          /\ live' = live \ (Lookup(cur, Sub[r][e.name]) \ {n})
          /\ Proceed(e, Sub[r][e.name])
      BY <2>9 DEF Rename
    <3>1. e.name \in Text /\ Sub[r][e.name] \in Text
      BY DEF Rules
    <3>2. name' \in [Node -> Text] /\ live' \subseteq live
      BY <3>1
    <3> QED
      BY <2>c, <3>1, <3>2
  <2>10. ASSUME NEW e \in todo[cur], RenameFails(e) PROVE TypeOK'
    BY <2>10, <2>b DEF RenameFails
  <2>11. CASE SystemError
    BY <2>11, <2>b DEF SystemError
  <2>12. CASE Kill
    BY <2>12 DEF Kill
  <2>13. CASE Rerun
    BY <2>13 DEF Rerun
  <2>14. CASE UNCHANGED vars
    BY <2>14 DEF vars
  <2> QED
    BY <2>1, <2>2, <2>3, <2>4, <2>5, <2>6, <2>7, <2>8, <2>9, <2>10, <2>11, <2>12, <2>13, <2>14
    DEF Next, Step
<1> QED
  BY <1>1, <1>2, PTL DEF Spec

-----------------------------------------------------------------------------
\* What makes PathsResolve inductive.
WalkInv ==
  /\ PathsResolve
  /\ Root \in live
  /\ pc = "base" => open = {}

\* What is above a node is a directory.
LEMMA AboveIsDir ==
  ASSUME NEW a \in Node, NEW n \in Node, <<a, n>> \in Above
  PROVE  IsDir[a]
<1>1. PICK k \in Node \ {Root} : Parent[k] = a
  BY TreeAssumption
<1> QED
  BY <1>1, TreeAssumption

\* The directory of an entry is above it.
LEMMA ParentAbove ==
  ASSUME NEW n \in Node \ {Root}
  PROVE  Parent[n] \in Node /\ <<Parent[n], n>> \in Above
<1>1. Parent[n] \in Node
  BY TreeAssumption
<1>2. \A m \in Node \ {Root}, a \in Node : a = Parent[m] => <<a, m>> \in Above
  BY TreeAssumption
<1> QED
  BY <1>1, <1>2

\* What is above a node above another is above that one.
LEMMA AboveTrans ==
  ASSUME NEW a \in Node, NEW b \in Node, NEW c \in Node, <<a, b>> \in Above, <<b, c>> \in Above
  PROVE  <<a, c>> \in Above
BY TreeAssumption

\* An open directory is not an entry of the current one.
LEMMA OpenIsNoKid ==
  ASSUME TypeOK, WalkInv, pc \in Walking, NEW d \in open
  PROVE  d \notin Kids(cur)
<1> SUFFICES ASSUME d \in Kids(cur) PROVE FALSE
  OBVIOUS
<1>1. d \in Node \ {Root} /\ Parent[d] = cur
  BY DEF Kids, TypeOK
<1>2. d = cur \/ <<d, cur>> \in Above
  BY DEF WalkInv, PathsResolve
<1>3. cur \in Node /\ <<cur, d>> \in Above
  BY <1>1, ParentAbove
<1>4. <<d, d>> \in Above
  BY <1>1, <1>2, <1>3, AboveTrans
<1> QED
  BY <1>1, <1>4, TreeAssumption

\* A directory whose ancestors are open can be entered.
LEMMA EnterResolves ==
  ASSUME TypeOK, WalkInv, NEW d \in live, Enter(d),
         open = {a \in Node : <<a, d>> \in Above},
         \A x \in open : \A e \in todo[x] : \E n \in Lookup(x, e.name) : IsDir[n] = e.dir
  PROVE  WalkInv'
<1> USE DEF Enter, disk, tree0
<1>1. d \in Node /\ d \notin open
  BY TreeAssumption DEF TypeOK
<1>2. \A x, t : Lookup(x, t)' = Lookup(x, t)
  BY DEF Lookup, Kids
<1>3. \A e \in Listing(d) : \E n \in Lookup(d, e.name) : IsDir[n] = e.dir
  BY DEF Listing, Lookup
<1>4. \A x \in open' : \A e \in todo'[x] : \E n \in Lookup(x, e.name)' : IsDir[n] = e.dir
  <2> SUFFICES ASSUME NEW x \in open', NEW e \in todo'[x]
               PROVE  \E n \in Lookup(x, e.name) : IsDir[n] = e.dir
    BY <1>2
  <2>1. CASE x = d
    BY <2>1, <1>1, <1>3 DEF TypeOK
  <2>2. CASE x # d
    BY <2>2, <1>1 DEF TypeOK
  <2> QED
    BY <2>1, <2>2
<1> QED
  BY <1>1, <1>4 DEF WalkInv, PathsResolve, Walking, Siblings

\* The entry e has been handled up to its name, which is now t: every other
\* entry still to be taken must name what it did.
LEMMA ProceedResolves ==
  ASSUME TypeOK, WalkInv, pc = "loop", NEW e \in todo[cur], NEW t, Proceed(e, t),
         live' \subseteq live, Root \in live', open \subseteq live',
         \A m, n \in live' : Siblings(m, n) => name'[m] # name'[n],
         \A x \in open \ {cur} : \A u : Lookup(x, u) \subseteq Lookup(x, u)',
         \A f \in todo[cur] \ {e} : \E n \in Lookup(cur, f.name)' : IsDir[n] = f.dir,
         \E n \in Lookup(cur, t)' : IsDir[n] = e.dir
  PROVE  WalkInv'
<1> USE DEF Proceed, Take, tree0
<1>1. cur \in open /\ cur \in Node /\ e.dir \in BOOLEAN
  <2>1. cur \in open
    BY DEF WalkInv, PathsResolve, Walking
  <2>2. e \in [name : Text, dir : BOOLEAN]
    BY DEF TypeOK
  <2> QED
    BY <2>1, <2>2 DEF TypeOK
<1>2. open' = {cur'} \union {a \in Node : <<a, cur'>> \in Above}
  BY DEF WalkInv, PathsResolve, Walking
<1>3. ASSUME NEW x \in open', NEW f \in todo'[x]
      PROVE  \E n \in Lookup(x, f.name)' : IsDir[n] = f.dir
  <2>1. CASE x = cur
    BY <1>1, <1>3, <2>1 DEF TypeOK
  <2>2. CASE x # cur
    <3>1. x \in open \ {cur} /\ f \in todo[x]
      BY <1>1, <1>3, <2>2 DEF TypeOK
    <3>2. \E n \in Lookup(x, f.name) : IsDir[n] = f.dir
      BY <3>1 DEF WalkInv, PathsResolve, Walking
    <3> QED
      BY <3>1, <3>2
  <2> QED
    BY <2>1, <2>2
<1>4. \E n \in Lookup(cur, at)' : IsDir[n] = (pc' = "open")
  <2>1. Lookup(cur, at)' = Lookup(cur, t)'
    BY DEF Lookup, Kids
  <2> QED
    BY <1>1, <2>1
<1>5. open \subseteq live /\ pc' # "base" /\ open' = open
  BY DEF WalkInv, PathsResolve
<1> QED
  BY <1>2, <1>3, <1>4, <1>5 DEF WalkInv, PathsResolve, Siblings

\* In a step that changes neither the tree nor the loops.
LEMMA SteadyResolves ==
  ASSUME WalkInv, UNCHANGED <<name, live, walk>>, pc' # "base",
         pc' \in Walking => /\ pc \in Walking
                            /\ pc' # "loop" => /\ pc # "loop" /\ UNCHANGED at
                                               /\ (pc = "open") = (pc' = "open")
  PROVE  WalkInv'
<1> USE DEF walk
<1>1. \A x, t : Lookup(x, t)' = Lookup(x, t)
  BY DEF Lookup, Kids
<1>2. pc' \in Walking /\ pc' # "loop" => Lookup(cur, at)' = Lookup(cur, at)
  BY <1>1 DEF Lookup, Kids
<1> QED
  BY <1>1, <1>2 DEF WalkInv, PathsResolve, Siblings

\* A rename: the entry n of cur has the new name t, and replaces the files
\* that had it.
LEMMA RenameResolves ==
  ASSUME TypeOK, WalkInv, pc = "loop", NEW e \in todo[cur], NEW t \in Text,
         NEW n \in Lookup(cur, e.name), ~Refused(n, t),
         name' = [name EXCEPT ![n] = t],
         live' = live \ (Lookup(cur, t) \ {n}),
         Proceed(e, t)
  PROVE  WalkInv'
<1> DEFINE Gone == Lookup(cur, t) \ {n}
<1> USE DEF Lookup, Kids
<1>1. /\ n \in live \ {Root} /\ n \in Node /\ Parent[n] = cur /\ name[n] = e.name
      /\ name'[n] = t /\ \A m \in Node \ {n} : name'[m] = name[m]
  BY DEF TypeOK
<1>2. cur \in open /\ cur \in Node /\ open \subseteq live
  BY DEF WalkInv, PathsResolve, Walking, TypeOK
<1>3. \A m, k \in live : Siblings(m, k) => name[m] # name[k]
  BY DEF WalkInv, PathsResolve
<1>4. \A f \in todo[cur] : f \in [name : Text, dir : BOOLEAN]
  BY <1>2 DEF TypeOK
<1>5. \A f \in todo[cur] : \E m \in Lookup(cur, f.name) : IsDir[m] = f.dir
  BY <1>2 DEF WalkInv, PathsResolve, Walking
<1>6. IsDir[n] = e.dir
  BY <1>1, <1>3, <1>5 DEF Siblings, TypeOK
<1>7. \A m \in Gone : ~IsDir[m] /\ ~IsDir[n]
  BY DEF Refused
<1>8. live' \subseteq live /\ Root \in live' /\ n \in live'
  BY <1>1 DEF WalkInv
<1>9. open \subseteq live'
  <2>1. \A d \in open : d \notin Kids(cur)
    BY OpenIsNoKid DEF Walking
  <2> QED
    BY <2>1, <1>2
<1>10. \A m, k \in live' : Siblings(m, k) => name'[m] # name'[k]
  <2> SUFFICES ASSUME NEW m \in live', NEW k \in live', Siblings(m, k), name'[m] = name'[k]
               PROVE  FALSE
    OBVIOUS
  <2>1. m # n /\ k # n => FALSE
    BY <1>1, <1>3, <1>8 DEF Siblings
  <2>2. m = n => k \in Gone
    BY <1>1, <1>8 DEF Siblings
  <2>3. k = n => m \in Gone
    BY <1>1, <1>8 DEF Siblings
  <2> QED
    BY <2>1, <2>2, <2>3
<1>11. \A x \in open \ {cur} : \A u : Lookup(x, u) \subseteq Lookup(x, u)'
  BY <1>1 DEF TypeOK
<1>12. ASSUME NEW f \in todo[cur] \ {e}
       PROVE  \E m \in Lookup(cur, f.name)' : IsDir[m] = f.dir
  <2>1. PICK m \in Lookup(cur, f.name) : IsDir[m] = f.dir
    BY <1>5
  <2>2. m # n
    <3> SUFFICES ASSUME m = n PROVE f = e
      OBVIOUS
    <3>1. f.name = e.name /\ f.dir = e.dir
      BY <2>1, <1>1, <1>6
    <3> QED
      BY <3>1, <1>4
  <2>3. m \in Node /\ name'[m] = f.name /\ cur' = cur
    BY <1>1, <2>1, <2>2 DEF TypeOK, Proceed
  <2>4. CASE m \in Gone
    <3>1. f.name = t
      BY <2>1, <2>4
    <3>2. IsDir[m] \in BOOLEAN /\ IsDir[n] \in BOOLEAN
      BY <1>1, <2>3, TreeAssumption
    <3>3. IsDir[n] = f.dir
      BY <2>1, <2>4, <1>7, <3>2
    <3>4. n \in Lookup(cur, f.name)'
      BY <3>1, <1>1, <1>8, <2>3
    <3> QED
      BY <3>3, <3>4
  <2>5. CASE m \notin Gone
    <3>1. m \in Lookup(cur, f.name)'
      BY <2>1, <2>3, <2>5
    <3> QED
      BY <2>1, <3>1
  <2> QED
    BY <2>4, <2>5
<1>13. \E m \in Lookup(cur, t)' : IsDir[m] = e.dir
  <2>1. n \in Lookup(cur, t)'
    BY <1>1, <1>8 DEF Proceed
  <2> QED
    BY <2>1, <1>6
<1> QED
  <2> HIDE DEF Lookup, Kids
  <2> QED
    BY <1>8, <1>9, <1>10, <1>11, <1>12, <1>13, ProceedResolves

\* Paths and pending entries stay good, whatever is renamed and however often
\* the tool is killed and run again.
THEOREM WalkSound == Spec => []WalkInv
<1>1. Init => WalkInv
  <2> SUFFICES ASSUME Init PROVE WalkInv
    OBVIOUS
  <2>1. PICK t \in Trees : name = t.name
    BY DEF Init
  <2>2. \A m, n \in Node : Siblings(m, n) => name[m] # name[n]
    BY <2>1, TreesAssumption DEF Siblings
  <2> QED
    BY <2>2, TreeAssumption DEF Init, WalkInv, PathsResolve, Walking
<1>2. TypeOK /\ WalkInv /\ [Next]_vars => WalkInv'
  <2> SUFFICES ASSUME TypeOK, WalkInv, [Next]_vars PROVE WalkInv'
    OBVIOUS
  <2>a. ASSUME NEW x, Panic(x) PROVE WalkInv'
    BY <2>a, SteadyResolves DEF Panic, Walking, disk, walk
  <2>1. CASE ReadBase
    <3>1. Root \in live /\ open = {} /\ open = {a \in Node : <<a, Root>> \in Above}
      BY <2>1, TreeAssumption DEF ReadBase, WalkInv
    <3> QED
      BY <2>1, <3>1, EnterResolves DEF ReadBase
  <2>2. CASE OpenDir
    <3> PICK d \in Lookup(cur, at) : Enter(d)
      BY <2>2 DEF OpenDir
    <3>1. d \in live \ {Root} /\ d \in Node /\ Parent[d] = cur
      BY DEF Lookup, Kids, TypeOK
    <3>2. pc = "open" /\ pc \in Walking
      BY <2>2 DEF OpenDir, Walking
    <3>3. open = {a \in Node : <<a, d>> \in Above}
      BY <3>1, <3>2, TreeAssumption DEF WalkInv, PathsResolve, TypeOK
    <3>4. \A x \in open : \A e \in todo[x] : \E n \in Lookup(x, e.name) : IsDir[n] = e.dir
      BY <3>2 DEF WalkInv, PathsResolve
    <3> QED
      BY <3>1, <3>3, <3>4, EnterResolves
  <2>3. CASE ReadFile
    BY <2>3, SteadyResolves DEF ReadFile, Walking, disk, walk
  <2>4. CASE Truncate
    BY <2>4, SteadyResolves DEF Truncate, Write, Walking, walk
  <2>5. CASE Flush
    BY <2>5, SteadyResolves DEF Flush, Write, Walking, walk
  <2>6. CASE Return
    <3>1. pc = "loop" /\ pc \in Walking /\ UNCHANGED <<name, live, todo, at>>
      BY <2>6 DEF Return, Walking, disk
    <3>2. \A x, t : Lookup(x, t)' = Lookup(x, t)
      BY <3>1 DEF Lookup, Kids
    <3>3. CASE cur = Root
      BY <2>6, <3>1, <3>3 DEF Return, WalkInv, PathsResolve, Walking, Siblings
    <3>4. CASE cur # Root
      <4>1. cur' = Parent[cur] /\ open' = open \ {cur} /\ pc' = pc
        BY <2>6, <3>4 DEF Return
      <4>2. open' = {cur'} \union {a \in Node : <<a, cur'>> \in Above}
        <5>1. open = {cur} \union {a \in Node : <<a, cur>> \in Above}
          BY <3>1 DEF WalkInv, PathsResolve
        <5>2. cur \in Node \ {Root} /\ Parent[cur] \in Node
          BY <3>4, TreeAssumption DEF TypeOK
        <5>3. \A a \in Node : <<a, cur>> \in Above <=> a = Parent[cur] \/ <<a, Parent[cur]>> \in Above
          BY <5>2, TreeAssumption
        <5>4. <<cur, cur>> \notin Above
          BY <5>2, TreeAssumption
        <5> QED
          BY <4>1, <5>1, <5>2, <5>3, <5>4
      <4>3. \A x \in open' : \A e \in todo'[x] : \E n \in Lookup(x, e.name)' : IsDir[n] = e.dir
        BY <3>1, <3>2, <4>1 DEF WalkInv, PathsResolve
      <4> QED
        BY <3>1, <4>1, <4>2, <4>3 DEF WalkInv, PathsResolve, Siblings
    <3> QED
      BY <3>3, <3>4
  <2>7. ASSUME NEW e \in todo[cur], Skip(e) PROVE WalkInv'
    <3>1. pc = "loop" /\ pc \in Walking /\ UNCHANGED <<name, live, cur, open, pc>>
      BY <2>7 DEF Skip, NextEntry, Walking, disk
    <3>2. \A x, t : Lookup(x, t)' = Lookup(x, t)
      BY <3>1 DEF Lookup, Kids
    <3>3. \A x \in open : todo'[x] \subseteq todo[x]
      BY <2>7 DEF Skip, Take, TypeOK
    <3> QED
      BY <3>1, <3>2, <3>3 DEF WalkInv, PathsResolve, Siblings
  <2>8. ASSUME NEW e \in todo[cur], KeepName(e) PROVE WalkInv'
    <3>1. pc = "loop" /\ pc \in Walking /\ Proceed(e, e.name) /\ UNCHANGED <<name, live, cur>>
      BY <2>8 DEF KeepName, NextEntry, Proceed, Walking
    <3>2. \A x, t : Lookup(x, t)' = Lookup(x, t)
      BY <3>1 DEF Lookup, Kids
    <3>3. \A f \in todo[cur] : \E n \in Lookup(cur, f.name)' : IsDir[n] = f.dir
      BY <3>1, <3>2 DEF WalkInv, PathsResolve
    <3>4. \A m, n \in live' : Siblings(m, n) => name'[m] # name'[n]
      BY <3>1 DEF WalkInv, PathsResolve
    <3>5. live' \subseteq live /\ Root \in live' /\ open \subseteq live'
      BY <3>1 DEF WalkInv, PathsResolve
    <3> QED
      BY <3>1, <3>2, <3>3, <3>4, <3>5, ProceedResolves
  <2>9. ASSUME NEW e \in todo[cur], Rename(e) PROVE WalkInv'
    <3> PICK r \in Rules, n \in Lookup(cur, e.name) :
          /\ ~Refused(n, Sub[r][e.name])
          /\ name' = [name EXCEPT ![n] = Sub[r][e.name]]
          /\ live' = live \ (Lookup(cur, Sub[r][e.name]) \ {n})
          /\ Proceed(e, Sub[r][e.name])
      BY <2>9 DEF Rename
    <3>1. Sub[r][e.name] \in Text
      BY RuleAssumption DEF Rules, TypeOK
    <3>2. pc = "loop"
      BY <2>9 DEF Rename, NextEntry
    <3> QED
      BY <3>1, <3>2, RenameResolves
  <2>10. ASSUME NEW e \in todo[cur], RenameFails(e) PROVE WalkInv'
    BY <2>10, <2>a DEF RenameFails
  <2>11. CASE SystemError
    BY <2>11, <2>a DEF SystemError
  <2>12. CASE Kill
    BY <2>12, SteadyResolves DEF Kill, Walking, disk, walk
  <2>13. CASE Rerun
    BY <2>13 DEF Rerun, WalkInv, PathsResolve, Walking, Siblings, disk
  <2>14. CASE UNCHANGED vars
    BY <2>14 DEF vars, disk, walk, WalkInv, PathsResolve, Siblings, Lookup, Kids
  <2> QED
    BY <2>1, <2>2, <2>3, <2>4, <2>5, <2>6, <2>7, <2>8, <2>9, <2>10, <2>11, <2>12, <2>13, <2>14
    DEF Next, Step
<1> QED
  BY <1>1, <1>2, TypeCorrect, PTL DEF Spec

\* Every name that the loops hold names what it named when it was read.
THEOREM PathsResolved == Spec => []PathsResolve
<1>1. WalkInv => PathsResolve
  BY DEF WalkInv
<1> QED
  BY <1>1, WalkSound, PTL

\* No panic of the walk is a "no such file".
THEOREM NoPathStale == Spec => []NoStalePath
<1>1. Init => NoStalePath
  BY DEF Init, NoStalePath
<1>2. TypeOK /\ WalkInv /\ NoStalePath /\ [Next]_vars => NoStalePath'
  <2> SUFFICES ASSUME TypeOK, WalkInv, NoStalePath, [Next]_vars PROVE NoStalePath'
    OBVIOUS
  <2> USE DEF NoStalePath
  <2>1. CASE UNCHANGED err
    BY <2>1
  <2>2. ASSUME NEW e \in todo[cur], RenameFails(e) PROVE NoStalePath'
    <3>1. pc = "loop" /\ pc \in Walking /\ cur \in open
      BY <2>2 DEF RenameFails, NextEntry, Walking, WalkInv, PathsResolve
    <3>2. Lookup(cur, e.name) # {}
      BY <3>1 DEF WalkInv, PathsResolve
    <3> QED
      BY <2>2, <3>2 DEF RenameFails, Panic
  <2>3. CASE SystemError
    <3>1. pc \in {"open", "read"} => \E n \in Lookup(cur, at) : IsDir[n] = (pc = "open")
      BY DEF WalkInv, PathsResolve, Walking
    <3>2. \A n \in Lookup(cur, at) : IsDir[n] \in BOOLEAN
      BY TreeAssumption DEF Lookup, Kids, TypeOK
    <3>3. pc = "open" => \E d \in Lookup(cur, at) : IsDir[d]
      BY <3>1, <3>2
    <3>4. pc = "read" => \E f \in Lookup(cur, at) : ~IsDir[f]
      BY <3>1, <3>2
    <3> QED
      BY <2>3, <3>3, <3>4 DEF SystemError, Panic
  <2>4. CASE Rerun
    BY <2>4 DEF Rerun
  <2>5. CASE ReadBase \/ OpenDir
    BY <2>5 DEF ReadBase, OpenDir, Enter
  <2>6. CASE ReadFile \/ Truncate \/ Flush \/ Return \/ Kill \/ UNCHANGED vars
    BY <2>6, <2>1 DEF ReadFile, Truncate, Flush, Write, Return, Kill, vars
  <2>7. ASSUME NEW e \in todo[cur], Skip(e) \/ KeepName(e) \/ Rename(e) PROVE NoStalePath'
    BY <2>7, <2>1 DEF Skip, KeepName, Rename, Proceed
  <2> QED
    BY <2>2, <2>3, <2>4, <2>5, <2>6, <2>7 DEF Next, Step
<1> QED
  BY <1>1, <1>2, TypeCorrect, WalkSound, PTL DEF Spec

-----------------------------------------------------------------------------
\* What a step can change: the names and the existence of entries of the
\* current directory while its loop runs, and the content of the file at hand.
LEMMA StepChanges ==
  ASSUME TypeOK, [Next]_vars
  PROVE  /\ UNCHANGED tree0
         /\ UNCHANGED <<name, live>> \/ \E e \in todo[cur] : Rename(e)
         /\ UNCHANGED text \/ Truncate \/ Flush
<1>1. CASE ReadBase \/ OpenDir
  BY <1>1 DEF ReadBase, OpenDir, Enter, disk
<1>2. CASE ReadFile \/ Truncate \/ Flush \/ Return \/ Kill \/ Rerun \/ UNCHANGED vars
  BY <1>2 DEF ReadFile, Truncate, Flush, Write, Return, Kill, Rerun, vars, disk
<1>3. ASSUME NEW e \in todo[cur], Skip(e) \/ KeepName(e) \/ Rename(e)
      PROVE  /\ UNCHANGED tree0
             /\ UNCHANGED <<name, live>> \/ Rename(e)
             /\ UNCHANGED text
  BY <1>3 DEF Skip, KeepName, Rename, Proceed, disk
<1>4. ASSUME NEW e \in todo[cur], RenameFails(e)
      PROVE  UNCHANGED <<tree0, name, live, text>>
  BY <1>4 DEF RenameFails, Panic, disk
<1>5. CASE SystemError
  BY <1>5 DEF SystemError, Panic, disk
<1> QED
  BY <1>1, <1>2, <1>3, <1>4, <1>5 DEF Next, Step

\* An open directory keeps its name, and is not replaced.
THEOREM OpenStaysStable == Spec => OpenStable
<1>1. TypeOK /\ WalkInv /\ [Next]_vars => [\A d \in open : d \in live' /\ name'[d] = name[d]]_vars
  <2> SUFFICES ASSUME TypeOK, WalkInv, [Next]_vars, NEW d \in open
               PROVE  d \in live' /\ name'[d] = name[d]
    OBVIOUS
  <2>1. d \in live
    BY DEF WalkInv, PathsResolve
  <2>2. CASE UNCHANGED <<name, live>>
    BY <2>1, <2>2
  <2>3. ASSUME NEW e \in todo[cur], Rename(e) PROVE d \in live' /\ name'[d] = name[d]
    <3>1. d \notin Kids(cur)
      BY <2>3, OpenIsNoKid DEF Rename, NextEntry, Walking
    <3>2. PICK r \in Rules, n \in Lookup(cur, e.name) :
            /\ name' = [name EXCEPT ![n] = Sub[r][e.name]]
            /\ live' = live \ (Lookup(cur, Sub[r][e.name]) \ {n})
      BY <2>3 DEF Rename
    <3> QED
      BY <2>1, <3>1, <3>2 DEF Lookup, TypeOK
  <2> QED
    BY <2>2, <2>3, StepChanges
<1> QED
  BY <1>1, TypeCorrect, WalkSound, PTL DEF Spec, OpenStable

-----------------------------------------------------------------------------
\* Names stay in their orbits, and what is lost, is lost in a clash.
OrbitInv ==
  /\ \A n \in Node : name[n] \in Orbit[name0[n]]
  /\ LostOnlyInClash

\* Two siblings of which one has, and the other can get, a name clash.
LEMMA ClashByName ==
  ASSUME TypeOK, OrbitInv, NEW n \in Kids(cur), NEW t, NEW m \in Lookup(cur, t) \ {n},
         NEW r \in Rules, FirstRule(r, name[n]), t = Sub[r][name[n]]
  PROVE  Clash(m, n) /\ t \in Orbit[name0[n]]
<1>1. m \in Node \ {Root} /\ n \in Node \ {Root} /\ name[m] = t /\ m # n /\ Parent[m] = Parent[n]
  BY DEF Lookup, Kids, TypeOK
<1>2. name0[n] \in Text /\ name[n] \in Orbit[name0[n]]
  BY <1>1 DEF OrbitInv, TypeOK
<1>3. t \in Orbit[name0[n]]
  BY <1>2, OrbitAssumption
<1>4. t \in Orbit[name0[m]]
  BY <1>1 DEF OrbitInv
<1> QED
  BY <1>1, <1>3, <1>4 DEF Clash, Siblings

\* Names stay in their orbits, and only those that clash are lost.
THEOREM OrbitsKept == Spec => []OrbitInv
<1>1. Init => OrbitInv
  BY OrbitAssumption, TreesAssumption DEF Init, OrbitInv, LostOnlyInClash
<1>2. TypeOK /\ WalkInv /\ NoStalePath /\ OrbitInv /\ [Next]_vars => OrbitInv'
  <2> SUFFICES ASSUME TypeOK, WalkInv, NoStalePath, OrbitInv, [Next]_vars PROVE OrbitInv'
    OBVIOUS
  <2>1. \A m, n : Clash(m, n)' = Clash(m, n)
    BY StepChanges DEF Clash, Siblings, tree0
  <2>2. UNCHANGED name0
    BY StepChanges DEF tree0
  <2>3. /\ \A n \in Node : name'[n] \in Orbit[name0[n]]
        /\ \A n \in Node \ live' : \E m \in Node : Clash(m, n)
    <3>1. CASE UNCHANGED <<name, live>>
      BY <3>1 DEF OrbitInv, LostOnlyInClash
    <3>2. ASSUME NEW e \in todo[cur], Rename(e)
          PROVE  /\ \A n \in Node : name'[n] \in Orbit[name0[n]]
                 /\ \A n \in Node \ live' : \E m \in Node : Clash(m, n)
      <4> PICK r \in Rules, n \in Lookup(cur, e.name) :
            /\ FirstRule(r, e.name)
            /\ name' = [name EXCEPT ![n] = Sub[r][e.name]]
            /\ live' = live \ (Lookup(cur, Sub[r][e.name]) \ {n})
        BY <3>2 DEF Rename
      <4>1. n \in Kids(cur) /\ n \in Node /\ name[n] = e.name
        BY DEF Lookup, Kids, TypeOK
      <4>2. Sub[r][e.name] \in Orbit[name0[n]]
        BY <4>1, OrbitAssumption DEF OrbitInv, TypeOK
      <4>3. \A m \in Lookup(cur, Sub[r][e.name]) \ {n} : Clash(m, n)
        BY <4>1, ClashByName
      <4>4. \A m \in Lookup(cur, Sub[r][e.name]) \ {n} : \E k \in Node : Clash(k, m)
        BY <4>1, <4>3 DEF Clash, Siblings
      <4>5. \A m \in Node : name'[m] \in Orbit[name0[m]]
        BY <4>1, <4>2 DEF OrbitInv, TypeOK
      <4> QED
        BY <4>4, <4>5 DEF OrbitInv, LostOnlyInClash
    <3> QED
      BY <3>1, <3>2, StepChanges
  <2>4. err' = "clash" => err = "clash" \/ \E m, n \in Node : Clash(m, n)
    <3> SUFFICES ASSUME err' = "clash", err # "clash" PROVE \E m, n \in Node : Clash(m, n)
      OBVIOUS
    <3>1. \E e \in todo[cur] : RenameFails(e)
      BY DEF Next, Step, ReadBase, OpenDir, Enter, ReadFile, Truncate, Flush, Write, Return, Skip,
             KeepName, Rename, Proceed, SystemError, Panic, Kill, Rerun, vars
    <3>2. PICK e \in todo[cur], r \in Rules :
            /\ FirstRule(r, e.name)
            /\ \A n \in Lookup(cur, e.name) : Refused(n, Sub[r][e.name])
            /\ Lookup(cur, e.name) # {}
      BY <3>1 DEF RenameFails, Panic
    <3>3. PICK n \in Kids(cur) : name[n] = e.name /\ Refused(n, Sub[r][e.name])
      BY <3>2 DEF Lookup
    <3>4. PICK m \in Lookup(cur, Sub[r][e.name]) \ {n} : TRUE
      BY <3>3 DEF Refused
    <3>5. Clash(m, n)
      BY <3>2, <3>3, <3>4, ClashByName
    <3> QED
      BY <3>5 DEF Clash, Siblings
  <2> QED
    BY <2>1, <2>2, <2>3, <2>4 DEF OrbitInv, LostOnlyInClash
<1> QED
  BY <1>1, <1>2, TypeCorrect, WalkSound, NoPathStale, PTL DEF Spec

\* A file is lost, and a rename refused, only where names can clash.
THEOREM LostExplained == Spec => []LostOnlyInClash
<1>1. OrbitInv => LostOnlyInClash
  BY DEF OrbitInv
<1> QED
  BY <1>1, OrbitsKept, PTL

-----------------------------------------------------------------------------
\* The walk is never in a skipped directory, nor about to enter one.
ShieldInv ==
  /\ SkippedUntouched
  /\ \A d \in open : ~Shielded(d)
  /\ pc \in Walking \ {"loop"} /\ cur = Root => at \notin Skipped

\* Of the entries of a directory that is not shielded, those are shielded that
\* the loop of doReplace skips.
LEMMA KidShielded ==
  ASSUME TypeOK, SkippedUntouched, ~Shielded(cur), NEW n \in Kids(cur), Shielded(n)
  PROVE  cur = Root /\ name[n] \in Skipped
<1>1. n \in Node \ {Root} /\ Parent[n] = cur
  BY DEF Kids, TypeOK
<1>2. PICK t \in Node \ {Root} :
        Parent[t] = Root /\ name0[t] \in Skipped /\ (t = n \/ <<t, n>> \in Above)
  BY DEF Shielded
<1>3. CASE t = n
  BY <1>1, <1>2, <1>3 DEF SkippedUntouched
<1>4. CASE <<t, n>> \in Above
  <2>1. t = cur \/ <<t, cur>> \in Above
    BY <1>1, <1>2, <1>4, TreeAssumption
  <2> QED
    BY <1>2, <2>1 DEF Shielded
<1> QED
  BY <1>2, <1>3, <1>4

\* Skipped directories are left alone, with all that is below them.
THEOREM SkippedStayUntouched == Spec => []SkippedUntouched
<1>1. Init => ShieldInv
  BY DEF Init, ShieldInv, SkippedUntouched, Walking
<1>2. TypeOK /\ WalkInv /\ ShieldInv /\ [Next]_vars => ShieldInv'
  <2> SUFFICES ASSUME TypeOK, WalkInv, ShieldInv, [Next]_vars PROVE ShieldInv'
    OBVIOUS
  <2>1. UNCHANGED tree0 /\ \A n : Shielded(n)' = Shielded(n)
    BY StepChanges DEF Shielded, tree0
  <2>2. SkippedUntouched /\ (pc \in Walking => ~Shielded(cur))
    BY DEF ShieldInv, WalkInv, PathsResolve
  <2>3. SkippedUntouched'
    <3>1. ASSUME NEW e \in todo[cur], Rename(e), NEW n \in Node, Shielded(n)
          PROVE  n \in live' /\ name'[n] = name0[n]
      <4> PICK r \in Rules, k \in Lookup(cur, e.name) :
            /\ FirstRule(r, e.name)
            /\ name' = [name EXCEPT ![k] = Sub[r][e.name]]
            /\ live' = live \ (Lookup(cur, Sub[r][e.name]) \ {k})
        BY <3>1 DEF Rename
      <4>1. pc = "loop" /\ ~Skips(e) /\ ~Shielded(cur) /\ cur \in Node
        BY <2>2, <3>1 DEF Rename, NextEntry, Walking, TypeOK
      <4>2. e.name \in Text /\ Sub[r][e.name] \notin Skipped
        BY <4>1, RuleAssumption DEF TypeOK, FirstRule, Rules
      <4>3. n # k
        BY <2>2, <3>1, <4>1, KidShielded DEF Lookup, Skips
      <4>4. n \notin Lookup(cur, Sub[r][e.name])
        BY <2>2, <3>1, <4>1, <4>2, KidShielded DEF Lookup
      <4> QED
        BY <2>2, <3>1, <4>3, <4>4 DEF SkippedUntouched, TypeOK
    <3>2. ASSUME Truncate \/ Flush, NEW n \in Node, Shielded(n)
          PROVE  text'[n] = text[n]
      <4>1. pc \in Walking \ {"loop"}
        BY <3>2 DEF Truncate, Flush, Write, Walking
      <4>2. PICK f \in Lookup(cur, at), t \in {Torn, buf} : text' = [text EXCEPT ![f] = t]
        BY <3>2 DEF Truncate, Flush, Write
      <4>3. f # n
        BY <2>2, <3>2, <4>1, KidShielded DEF Lookup, ShieldInv
      <4> QED
        BY <3>2, <4>2, <4>3 DEF TypeOK
    <3>3. \A n \in Node : Shielded(n) => n \in live' /\ name'[n] = name0[n]
      BY <2>2, <3>1, StepChanges DEF SkippedUntouched
    <3>4. \A n \in Node : Shielded(n) => text'[n] = text0[n]
      BY <2>2, <3>2, StepChanges DEF SkippedUntouched
    <3> QED
      BY <2>1, <3>3, <3>4 DEF SkippedUntouched, tree0
  <2>4. ASSUME NEW d \in open' PROVE ~Shielded(d)
    <3>1. CASE ReadBase
      <4>1. d = Root \/ d \in open
        BY <3>1, <2>4 DEF ReadBase, Enter
      <4>2. ~Shielded(Root)
        BY TreeAssumption DEF Shielded
      <4> QED
        BY <4>1, <4>2 DEF ShieldInv
    <3>2. CASE OpenDir
      <4>1. PICK k \in Lookup(cur, at) : open' = open \union {k}
        BY <3>2 DEF OpenDir, Enter
      <4>2. pc \in Walking \ {"loop"}
        BY <3>2 DEF OpenDir, Walking
      <4>3. ~Shielded(k)
        BY <2>2, <4>2, KidShielded DEF Lookup, ShieldInv
      <4> QED
        BY <2>4, <4>1, <4>3 DEF ShieldInv
    <3>3. open' \subseteq open \/ ReadBase \/ OpenDir
      BY DEF Next, Step, ReadFile, Truncate, Flush, Write, Return, Skip, KeepName, Rename, RenameFails,
             Proceed, SystemError, Panic, Kill, Rerun, vars, walk
    <3> QED
      BY <2>4, <3>1, <3>2, <3>3 DEF ShieldInv
  <2>5. pc' \in Walking \ {"loop"} /\ cur' = Root => at' \notin Skipped
    <3> SUFFICES ASSUME pc' \in Walking \ {"loop"}, cur' = Root PROVE at' \notin Skipped
      OBVIOUS
    <3>1. ASSUME NEW e \in todo[cur], KeepName(e) PROVE at' \notin Skipped
      BY <3>1 DEF KeepName, Proceed, Skips
    <3>2. ASSUME NEW e \in todo[cur], Rename(e) PROVE at' \notin Skipped
      <4>1. PICK r \in Rules : FirstRule(r, e.name) /\ at' = Sub[r][e.name]
        BY <3>2 DEF Rename, Proceed
      <4>2. cur \in Node /\ e.name \in Text
        BY DEF TypeOK
      <4> QED
        BY <4>1, <4>2, RuleAssumption DEF FirstRule, Rules
    <3>3. ASSUME pc \in Walking \ {"loop"}, UNCHANGED <<cur, at>> PROVE at' \notin Skipped
      BY <3>3 DEF ShieldInv
    <3>4. CASE ReadFile \/ Truncate \/ Flush \/ UNCHANGED vars
      BY <3>3, <3>4 DEF ReadFile, Truncate, Flush, Write, Walking, vars, walk
    <3>5. CASE ReadBase \/ OpenDir \/ Return \/ SystemError \/ Kill \/ Rerun
      BY <3>5 DEF ReadBase, OpenDir, Enter, Return, SystemError, Panic, Kill, Rerun, Walking
    <3>6. ASSUME NEW e \in todo[cur], Skip(e) \/ RenameFails(e) PROVE at' \notin Skipped
      BY <3>6 DEF Skip, NextEntry, RenameFails, Panic, Walking
    <3> QED
      BY <3>1, <3>2, <3>4, <3>5, <3>6 DEF Next, Step
  <2> QED
    BY <2>1, <2>3, <2>4, <2>5 DEF ShieldInv
<1>3. ShieldInv => SkippedUntouched
  BY DEF ShieldInv
<1> QED
  BY <1>1, <1>2, <1>3, TypeCorrect, WalkSound, PTL DEF Spec
-----------------------------------------------------------------------------
(* A run from its beginning to its end.  A node is ahead of the walk if    *)
(* its entry, or that of a directory above it, is still to be taken or is  *)
(* a directory about to be entered.  AheadStep shows that a step takes     *)
(* nodes out of this set only by giving them their new name, one by one.   *)


Handling == Walking \ {"loop"}

\* The loop of n's directory has still to take it, or the walk is at its entry.
Pending(n) == n # Root /\ Parent[n] \in open /\ \E e \in todo[Parent[n]] : e.name = name[n]
AtHand(n) == pc \in Handling /\ n \in Lookup(cur, at)

\* k is n, or a directory above it.
Up(k, n) == k = n \/ <<k, n>> \in Above

\* The walk has still to come to n: to its entry, or to that of a directory above it, which it
\* may be about to enter.
Ahead(n) ==
  \/ pc = "base"
  \/ \E k \in Node : Up(k, n) /\ Pending(k)
  \/ \E k \in Node : <<k, n>> \in Above /\ AtHand(k)

\* Nodes of which the properties below do not speak.
Exempt(n) == Shielded(n) \/ \E m \in Node : Clash(m, n)

\* Entries are taken once, and directories never lost; skipped names are those that were found.
TakenInv ==
  /\ pc \in Walking => \A d \in open : ~Pending(d)
  /\ \A d \in Node : IsDir[d] => d \in live
  /\ \A n \in Node : AtHand(n) /\ (IsDir[n] \/ ~Exempt(n)) => ~Pending(n)
  /\ \A n \in Node : name[n] \in Skipped => name[n] = name0[n]
  /\ pc = "done" => open = {}

Going == Active \union {"done"}

NameKept(n) == runs = 1 \/ Renamed(Renamed(name0[n])) = Renamed(name0[n])

NameInv ==
  \A n \in Node \ {Root} : ~Exempt(n) =>
    /\ pc \in Going /\ runs = 1 /\ Ahead(n) => name[n] = name0[n]
    /\ NameKept(n) => name[n] \in {name0[n], Renamed(name0[n])}
    /\ NameKept(n) /\ pc \in Going /\ ~Ahead(n) => name[n] = Renamed(name0[n])

ContentKept(f) == runs = 1 \/ Content(Content(text0[f])) = Content(text0[f])

\* The content of f has still to be read or written in this run.
Unwritten(f) == Ahead(f) \/ (AtHand(f) /\ pc \in {"read", "write"})
Writing(f) == AtHand(f) /\ pc = "flush"

ContentInv ==
  \A f \in Node : ~Exempt(f) /\ ~IsDir[f] =>
    /\ pc \in Going /\ runs = 1 /\ Unwritten(f) => text[f] = text0[f]
    /\ ContentKept(f) =>
         /\ text[f] \in {text0[f], Content(text0[f]), Torn}
         /\ AtHand(f) /\ pc \in {"write", "flush"} => buf = Content(text0[f])
         /\ pc \in Going /\ ~Unwritten(f) /\ ~Writing(f) =>
              text[f] = Content(text0[f]) \/ (runs > 1 /\ text[f] = Torn)

\* What is about to be written, and what is there meanwhile.
WriteInv ==
  /\ pc = "write" => \A f \in Lookup(cur, at) : buf = Content(text[f]) /\ text[f] # Torn
  /\ pc = "flush" => \A f \in Lookup(cur, at) : text[f] = Torn

\* The entries of a directory differ in name.
LEMMA KidsDiffer ==
  ASSUME WalkInv, live \subseteq Node, NEW d, NEW t, NEW m \in Lookup(d, t), NEW n \in Lookup(d, t)
  PROVE  m = n
BY DEF WalkInv, PathsResolve, Lookup, Kids, Siblings

\* Nodes of which something is claimed are there.
LEMMA UnlessExempt ==
  ASSUME OrbitInv, NEW n \in Node, ~Exempt(n)
  PROVE  n \in live
BY DEF OrbitInv, LostOnlyInClash, Exempt, Clash, Siblings

\* The rule a name is replaced by is determined.
LEMMA RenamedBy ==
  ASSUME NEW r \in Rules, NEW t, FirstRule(r, t)
  PROVE  Renamed(t) = Sub[r][t]
<1> DEFINE c == CHOOSE s \in Rules : FirstRule(s, t)
<1>1. \A s \in Rules : FirstRule(s, t) => s = r
  BY RuleAssumption DEF FirstRule, Rules
<1>2. c = r
  BY <1>1
<1>3. Renamed(t) = Sub[c][t]
  BY Zenon DEF Renamed, Matches, FirstRule
<1> QED
  BY <1>2, <1>3

\* An entry of the current directory is taken, and what it names is at hand under its new name.
LEMMA HandleEffect ==
  ASSUME TypeOK, TypeOK', WalkInv, WalkInv', OrbitInv, NEW e \in todo[cur], KeepName(e) \/ Rename(e)
  PROVE  \E k \in Kids(cur) :
           /\ k \in Node \ {Root} /\ Parent[k] = cur /\ cur \in open /\ cur \in Node
           /\ pc = "loop" /\ UNCHANGED <<cur, open, runs, text, tree0, buf>>
           /\ ~Skips(e) /\ name[k] = e.name /\ IsDir[k] = e.dir
           /\ todo' = [todo EXCEPT ![cur] = @ \ {e}]
           /\ pc' = IF IsDir[k] THEN "open" ELSE "read"
           /\ at' = Renamed(name[k]) /\ name' = [name EXCEPT ![k] = at']
           /\ at' \in Skipped => at' = name[k]
           /\ live' \subseteq live /\ \A m \in live \ live' : ~IsDir[m]
           /\ k \in Lookup(cur, at)'
           /\ (\E f \in todo[cur] \ {e} : f.name = at') => ~IsDir[k] /\ Exempt(k)
<1>1. pc = "loop" /\ cur \in open /\ cur \in Node /\ e \in [name : Text, dir : BOOLEAN] /\ ~Skips(e)
  BY DEF KeepName, Rename, NextEntry, WalkInv, PathsResolve, Walking, TypeOK
<1>2. \A f \in todo[cur] : f \in [name : Text, dir : BOOLEAN] /\ \E m \in Lookup(cur, f.name) : IsDir[m] = f.dir
  BY <1>1 DEF WalkInv, PathsResolve, Walking, TypeOK
<1>3. PICK k \in Lookup(cur, e.name) : IsDir[k] = e.dir
  BY <1>2
<1>4. live \subseteq Node /\ live' \subseteq Node /\ name \in [Node -> Text]
  BY DEF TypeOK
<1>5. k \in Kids(cur) /\ k \in Node \ {Root} /\ Parent[k] = cur /\ name[k] = e.name /\ k \in live
  BY <1>4 DEF Lookup, Kids
<1>6. \A m \in Lookup(cur, e.name) : m = k
  BY <1>4, KidsDiffer
<1>7. UNCHANGED <<cur, open, runs, text, tree0, buf>> /\ todo' = [todo EXCEPT ![cur] = @ \ {e}]
      /\ pc' = IF IsDir[k] THEN "open" ELSE "read"
  BY <1>3 DEF KeepName, Rename, Proceed, Take
<1>8. CASE KeepName(e)
  <2>1. at' = e.name /\ UNCHANGED <<name, live>> /\ ~Matches(e.name)
    BY <1>8 DEF KeepName, Proceed
  <2>2. at' = Renamed(name[k]) /\ name' = [name EXCEPT ![k] = at']
    BY <1>4, <1>5, <2>1 DEF Renamed
  <2>3. k \in Lookup(cur, at)'
    BY <1>5, <1>7, <2>1 DEF Lookup, Kids
  <2>4. ~\E f \in todo[cur] \ {e} : f.name = at'
    <3> SUFFICES ASSUME NEW f \in todo[cur] \ {e}, f.name = e.name PROVE FALSE
      BY <2>1
    <3>1. f.dir = IsDir[k]
      BY <1>2, <1>6
    <3> QED
      BY <1>1, <1>2, <1>3, <3>1
  <2> QED
    BY <1>1, <1>3, <1>5, <1>7, <2>1, <2>2, <2>3, <2>4
<1>9. CASE Rename(e)
  <2>1. PICK r \in Rules :
          /\ FirstRule(r, e.name) /\ ~Refused(k, Sub[r][e.name])
          /\ name' = [name EXCEPT ![k] = Sub[r][e.name]]
          /\ live' = live \ (Lookup(cur, Sub[r][e.name]) \ {k})
          /\ at' = Sub[r][e.name]
    BY <1>6, <1>9 DEF Rename, Proceed
  <2>2. at' = Renamed(name[k])
    BY <1>5, <2>1, RenamedBy
  <2>3. at' \notin Skipped
    BY <1>1, <2>1, RuleAssumption DEF FirstRule
  <2>4. \A m \in Lookup(cur, at') \ {k} : ~IsDir[m] /\ ~IsDir[k]
    BY <2>1 DEF Refused
  <2>5. live' \subseteq live /\ \A m \in live \ live' : ~IsDir[m]
    BY <2>1, <2>4
  <2>6. k \in Lookup(cur, at)'
    BY <1>4, <1>5, <1>7, <2>1 DEF Lookup, Kids
  <2>7. ASSUME NEW f \in todo[cur] \ {e}, f.name = at' PROVE ~IsDir[k] /\ Exempt(k)
    <3>1. PICK m \in Lookup(cur, at') : IsDir[m] = f.dir
      BY <1>2, <2>7
    <3>2. m # k
      <4> SUFFICES ASSUME m = k PROVE f = e
        OBVIOUS
      <4>1. f.name = e.name /\ f.dir = e.dir
        BY <1>3, <1>5, <2>7, <3>1 DEF Lookup
      <4> QED
        BY <1>1, <1>2, <4>1
    <3>3. Clash(m, k)
      BY <1>5, <2>1, <3>1, <3>2, ClashByName
    <3>4. m \in Node
      BY <1>4, <3>1 DEF Lookup, Kids
    <3> QED
      BY <2>4, <3>1, <3>2, <3>3, <3>4 DEF Exempt
  <2> QED
    BY <1>1, <1>3, <1>5, <1>7, <2>1, <2>2, <2>3, <2>5, <2>6, <2>7
<1> QED
  BY <1>8, <1>9

\* Which nodes are exempt depends on the tree that the first run found.
LEMMA ExemptFixed ==
  ASSUME TypeOK, [Next]_vars
  PROVE  \A n : Exempt(n)' = Exempt(n) /\ Shielded(n)' = Shielded(n)
<1>1. UNCHANGED name0
  BY StepChanges DEF tree0
<1>2. \A n : Shielded(n)' = Shielded(n)
  BY <1>1 DEF Shielded
<1>3. \A m, n : Clash(m, n)' = Clash(m, n)
  BY <1>1 DEF Clash, Siblings
<1> QED
  BY <1>2, <1>3 DEF Exempt

\* Only a step of the loops' own, or one that ends the run, has no effect on them.
LEMMA SameEntries ==
  ASSUME UNCHANGED <<name, live, cur, open, todo, at>>
  PROVE  /\ \A n : Pending(n)' = Pending(n)
         /\ pc \in Handling /\ pc' \in Handling => \A n : AtHand(n)' = AtHand(n)
BY DEF Pending, AtHand, Lookup, Kids

\* TakenInv is inductive together with the types, the walk and the orbits.
LEMMA TakenStep ==
  ASSUME TypeOK, TypeOK', WalkInv, WalkInv', OrbitInv, TakenInv, [Next]_vars
  PROVE  TakenInv'
<1> USE DEF Handling, Walking
<1>0. \A n : Exempt(n)' = Exempt(n)
  BY ExemptFixed
<1>n. UNCHANGED name0
  BY StepChanges DEF tree0
<1>a. ASSUME UNCHANGED <<name, live, name0>>, pc' \notin Handling,
             pc' \in Walking => \A d \in open' : ~Pending(d)',
             pc' = "done" => open' = {}
      PROVE  TakenInv'
  BY <1>a DEF TakenInv, AtHand
<1>b. ASSUME UNCHANGED <<name, live, cur, open, todo, at>>, pc' # "done", pc' # "base",
             pc' \in Walking => pc \in Walking, pc' \in Handling => pc \in Handling
      PROVE  TakenInv'
  <2>1. \A n : AtHand(n)' => AtHand(n)
    BY <1>b, SameEntries DEF AtHand
  <2> QED
    BY <1>0, <1>n, <1>b, <2>1, SameEntries DEF TakenInv
<1>1. CASE ReadBase
  <2>1. open' = {Root} /\ pc' = "loop" /\ UNCHANGED <<name, live>>
    BY <1>1 DEF ReadBase, Enter, WalkInv, disk
  <2> QED
    BY <1>a, <1>n, <2>1 DEF Pending
<1>2. CASE OpenDir
  <2>1. PICK d \in Lookup(cur, at) : IsDir[d] /\ Enter(d)
    BY <1>2 DEF OpenDir
  <2>2. /\ d \in Node \ {Root} /\ Parent[d] = cur /\ cur \in open /\ cur \in Node /\ open \subseteq Node
        /\ open = {cur} \union {x \in Node : <<x, cur>> \in Above}
    BY <1>2, <2>1 DEF OpenDir, Lookup, Kids, TypeOK, WalkInv, PathsResolve
  <2>3. /\ open' = open \union {d} /\ pc' = "loop" /\ UNCHANGED <<name, live>>
        /\ \A x \in open : x # d => todo'[x] = todo[x]
    BY <2>1, <2>2 DEF Enter, disk, TypeOK
  <2>4. d \notin open
    BY <1>2, <2>1, OpenIsNoKid DEF OpenDir, Lookup
  <2>5. ASSUME NEW x \in open', Pending(x)' PROVE FALSE
    <3>1. x \in Node \ {Root} /\ Parent[x] \in open'
      BY <2>2, <2>3, <2>5 DEF Pending
    <3>2. Parent[x] # d
      <4> SUFFICES ASSUME Parent[x] = d PROVE FALSE
        OBVIOUS
      <4>1. <<d, x>> \in Above /\ <<cur, d>> \in Above
        BY <2>2, <3>1, ParentAbove
      <4>2. x = d \/ x = cur \/ <<x, cur>> \in Above
        BY <2>2, <2>3, <2>5
      <4>3. <<d, cur>> \in Above \/ x = d
        BY <2>2, <3>1, <4>1, <4>2, AboveTrans
      <4>4. <<d, d>> \in Above
        BY <2>2, <4>1, <4>3, AboveTrans
      <4> QED
        BY <2>2, <4>4, TreeAssumption
    <3>3. Pending(x)
      BY <2>3, <2>4, <2>5, <3>1, <3>2 DEF Pending
    <3>4. x # d
      <4>1. AtHand(d)
        BY <1>2, <2>1 DEF OpenDir, AtHand
      <4> QED
        BY <2>1, <2>2, <3>3, <4>1 DEF TakenInv
    <3> QED
      BY <1>2, <2>3, <2>5, <3>3, <3>4 DEF OpenDir, TakenInv
  <2> QED
    BY <1>a, <1>n, <2>3, <2>5
<1>3. CASE ReadFile \/ Truncate \/ Flush
  BY <1>3, <1>b DEF ReadFile, Truncate, Flush, Write, disk, walk
<1>4. CASE Return
  <2>1. pc = "loop" /\ UNCHANGED <<name, live, todo>> /\ open' = open \ {cur} /\ pc' \in {"loop", "done"}
    BY <1>4 DEF Return, disk
  <2>2. pc' = "done" => cur = Root
    BY <1>4, <2>1 DEF Return
  <2>3. open = {cur} \union {x \in Node : <<x, cur>> \in Above}
    BY <2>1 DEF WalkInv, PathsResolve
  <2>4. pc' = "done" => open' = {}
    BY <2>1, <2>2, <2>3, TreeAssumption
  <2>5. \A d \in open' : ~Pending(d)'
    BY <2>1 DEF TakenInv, Pending
  <2> QED
    BY <1>a, <1>n, <2>1, <2>4, <2>5
<1>5. ASSUME NEW e \in todo[cur], Skip(e) PROVE TakenInv'
  <2>1. pc = "loop" /\ UNCHANGED <<name, live, open, pc>> /\ todo' = [todo EXCEPT ![cur] = @ \ {e}]
    BY <1>5 DEF Skip, NextEntry, Take, disk
  <2>2. \A d \in open : todo'[d] \subseteq todo[d]
    BY <2>1 DEF TypeOK
  <2>3. \A d \in open' : ~Pending(d)'
    BY <2>1, <2>2 DEF TakenInv, Pending
  <2> QED
    BY <1>a, <1>n, <2>1, <2>3
<1>6. ASSUME NEW e \in todo[cur], KeepName(e) \/ Rename(e) PROVE TakenInv'
  <2>1. PICK k \in Kids(cur) :
           /\ k \in Node \ {Root} /\ Parent[k] = cur /\ cur \in open /\ cur \in Node
           /\ pc = "loop" /\ UNCHANGED <<cur, open>>
           /\ todo' = [todo EXCEPT ![cur] = @ \ {e}]
           /\ pc' = IF IsDir[k] THEN "open" ELSE "read"
           /\ name' = [name EXCEPT ![k] = at']
           /\ at' \in Skipped => at' = name[k]
           /\ live' \subseteq live /\ \A m \in live \ live' : ~IsDir[m]
           /\ k \in Lookup(cur, at)'
           /\ (\E f \in todo[cur] \ {e} : f.name = at') => ~IsDir[k] /\ Exempt(k)
    BY <1>6, HandleEffect
  <2>2. name'[k] = at' /\ \A m : m # k => name'[m] = name[m]
    BY <2>1 DEF TypeOK
  <2>3. \A d \in open : d # k /\ todo'[d] \subseteq todo[d]
    BY <2>1, OpenIsNoKid DEF TypeOK
  <2>4. \A d \in open' : ~Pending(d)'
    BY <2>1, <2>2, <2>3 DEF TakenInv, Pending
  <2>5. \A n \in Node : AtHand(n)' => n = k
    BY <2>1, KidsDiffer DEF AtHand, TypeOK, WalkInv, PathsResolve, Lookup, Kids, Siblings
  <2>6. IsDir[k] \/ ~Exempt(k) => ~Pending(k)'
    <3>1. todo'[cur] = todo[cur] \ {e}
      BY <2>1 DEF TypeOK
    <3> QED
      BY <2>1, <2>2, <3>1 DEF Pending
  <2>7. \A n \in Node : name'[n] \in Skipped => name'[n] = name0[n]
    BY <2>1, <2>2 DEF TakenInv
  <2> QED
    BY <1>0, <1>n, <2>1, <2>4, <2>5, <2>6, <2>7 DEF TakenInv
<1>7. ASSUME NEW e \in todo[cur], RenameFails(e) PROVE TakenInv'
  BY <1>7, <1>b DEF RenameFails, Panic, disk, walk
<1>8. CASE SystemError \/ Kill
  BY <1>8, <1>b DEF SystemError, Panic, Kill, disk, walk
<1>9. CASE Rerun
  BY <1>9, <1>a, <1>n DEF Rerun, disk
<1>10. CASE UNCHANGED vars
  <2>1. UNCHANGED <<name, live, name0, cur, open, todo, at, pc>>
    BY <1>10 DEF vars, disk, tree0, walk
  <2>2. \A n : AtHand(n)' = AtHand(n) /\ Pending(n)' = Pending(n)
    BY <2>1 DEF AtHand, Lookup, Kids, Pending
  <2> QED
    BY <1>0, <2>1, <2>2 DEF TakenInv
<1> QED
  BY <1>1, <1>2, <1>3, <1>4, <1>5, <1>6, <1>7, <1>8, <1>9, <1>10 DEF Next, Step

-----------------------------------------------------------------------------
\* Everything on the way to a node of which something is claimed is there.
LEMMA UpLive ==
  ASSUME OrbitInv, TakenInv, NEW n \in Node, ~Exempt(n), NEW k \in Node, Up(k, n)
  PROVE  k \in live
BY AboveIsDir, UnlessExempt DEF TakenInv, Up

\* What is above what is on the way, is on the way.
LEMMA UpTrans ==
  ASSUME NEW a \in Node, NEW b \in Node, NEW n \in Node, <<a, b>> \in Above, Up(b, n)
  PROVE  <<a, n>> \in Above /\ Up(a, n)
BY AboveTrans DEF Up

\* The path from d to n begins with an entry of d.
LEMMA FirstOnPath ==
  ASSUME NEW d \in Node, NEW n \in Node, <<d, n>> \in Above
  PROVE  \E k \in Node \ {Root} : Parent[k] = d /\ Up(k, n)
BY TreeAssumption DEF Up

\* A directory that has just been listed: the walk has come no nearer to n.
LEMMA ListedPending ==
  ASSUME TypeOK, OrbitInv, TakenInv, NEW n \in Node, ~Exempt(n), NEW d \in Node, <<d, n>> \in Above, Enter(d)
  PROVE  \E k \in Node : Up(k, n) /\ Pending(k)'
<1>1. PICK k \in Node \ {Root} : Parent[k] = d /\ Up(k, n)
  BY FirstOnPath
<1>2. k \in Kids(d)
  BY <1>1, UpLive DEF Kids
<1>3. [name |-> name[k], dir |-> IsDir[k]] \in Listing(d)
  BY <1>2 DEF Listing
<1>4. d \in open' /\ todo'[d] = Listing(d) /\ name' = name
  BY DEF Enter, disk, TypeOK
<1>5. Pending(k)'
  BY <1>1, <1>3, <1>4 DEF Pending
<1> QED
  BY <1>1, <1>5

\* What is at hand is not ahead.
LEMMA AtHandTaken ==
  ASSUME TypeOK, WalkInv, TakenInv, NEW n \in Node, ~Exempt(n), AtHand(n)
  PROVE  ~Ahead(n)
<1>1. pc \in Walking /\ pc # "base" /\ n \in Node \ {Root} /\ Parent[n] = cur /\ cur \in Node
      /\ n \in Lookup(cur, at)
  BY DEF AtHand, Handling, Walking, Lookup, Kids, TypeOK
<1>2. ASSUME NEW k \in Node, Up(k, n), Pending(k) PROVE FALSE
  <2>1. k # n
    BY <1>2 DEF TakenInv
  <2>2. k = cur \/ <<k, cur>> \in Above
    BY <1>1, <1>2, <2>1, TreeAssumption DEF Up
  <2>3. k \in open
    BY <1>1, <2>2 DEF WalkInv, PathsResolve
  <2> QED
    BY <1>1, <1>2, <2>3 DEF TakenInv
<1>3. ASSUME NEW k \in Node, <<k, n>> \in Above, AtHand(k) PROVE FALSE
  <2>1. k = n
    BY <1>1, <1>3, KidsDiffer DEF AtHand, TypeOK
  <2> QED
    BY <1>3, <2>1, TreeAssumption
<1> QED
  BY <1>1, <1>2, <1>3 DEF Ahead

\* A step of a run either leaves a node as it is, ahead or not, or takes its entry; then the
\* node has its new name and is at hand.
AheadKept(n) == name'[n] = name[n] /\ Ahead(n)' = Ahead(n)
Taken(n) ==
  /\ Ahead(n) /\ ~Ahead(n)' /\ AtHand(n)' /\ pc = "loop"
  /\ name'[n] = Renamed(name[n])
  /\ pc' = IF IsDir[n] THEN "open" ELSE "read"

\* Nothing is at hand in a loop, nor is anything above n while a file is at hand.
LEMMA NoneAbove ==
  ASSUME WalkInv, live \subseteq Node, pc # "open", NEW n \in Node, NEW k \in Node, <<k, n>> \in Above
  PROVE  ~AtHand(k)
<1> SUFFICES ASSUME AtHand(k) PROVE FALSE
  OBVIOUS
<1>1. PICK m \in Lookup(cur, at) : IsDir[m] = (pc = "open")
  BY DEF AtHand, Handling, WalkInv, PathsResolve
<1>2. m = k
  BY KidsDiffer DEF AtHand
<1> QED
  BY <1>1, <1>2, AboveIsDir, TreeAssumption

\* OpenDir: instead of the directory, its entries are pending.
LEMMA OpenAhead ==
  ASSUME TypeOK, TypeOK', WalkInv, OrbitInv, TakenInv, NEW n \in Node \ {Root}, ~Exempt(n), OpenDir
  PROVE  AheadKept(n)
<1>1. PICK d \in Lookup(cur, at) : IsDir[d] /\ Enter(d)
  BY DEF OpenDir
<1>2. d \in Node \ {Root} /\ pc = "open" /\ AtHand(d) /\ d \notin open
  BY <1>1, OpenIsNoKid DEF OpenDir, AtHand, Handling, Walking, Lookup, Kids, TypeOK
<1>3. /\ open' = open \union {d} /\ pc' = "loop" /\ UNCHANGED name
      /\ \A x \in open : todo'[x] = todo[x]
  BY <1>1, <1>2 DEF Enter, disk, TypeOK
<1>4. ASSUME Ahead(n) PROVE Ahead(n)'
  <2>1. ASSUME NEW k \in Node, Up(k, n), Pending(k) PROVE Pending(k)'
    BY <1>3, <2>1 DEF Pending
  <2>2. ASSUME NEW k \in Node, <<k, n>> \in Above, AtHand(k) PROVE <<d, n>> \in Above
    <3>1. k = d
      BY <1>1, <2>2, KidsDiffer DEF AtHand, TypeOK
    <3> QED
      BY <2>2, <3>1
  <2>3. <<d, n>> \in Above => \E k \in Node : Up(k, n) /\ Pending(k)'
    BY <1>1, <1>2, ListedPending
  <2>4. \E k \in Node : Up(k, n) /\ Pending(k)'
    BY <1>2, <1>4, <2>1, <2>2, <2>3 DEF Ahead
  <2> QED
    BY <2>4 DEF Ahead, Up
<1>5. ASSUME Ahead(n)' PROVE Ahead(n)
  <2>1. PICK k \in Node : Up(k, n) /\ Pending(k)'
    BY <1>3, <1>5 DEF Ahead, AtHand, Handling, Up
  <2>2. k \in Node \ {Root} /\ Parent[k] \in open'
    BY <2>1 DEF Pending
  <2>3. CASE Parent[k] = d
    <3>1. <<d, n>> \in Above
      BY <1>2, <2>1, <2>2, <2>3, ParentAbove, UpTrans
    <3> QED
      BY <1>2, <3>1 DEF Ahead
  <2>4. CASE Parent[k] # d
    <3>1. Pending(k)
      BY <1>3, <2>1, <2>2, <2>4 DEF Pending
    <3> QED
      BY <2>1, <3>1 DEF Ahead
  <2> QED
    BY <2>3, <2>4
<1> QED
  BY <1>3, <1>4, <1>5 DEF AheadKept, Ahead

\* KeepName and Rename: what they handle is taken, whatever is below it is still ahead.
LEMMA HandleAhead ==
  ASSUME TypeOK, TypeOK', WalkInv, WalkInv', OrbitInv, TakenInv, TakenInv', NEW n \in Node \ {Root},
         ~Exempt(n), ~Exempt(n)', NEW e \in todo[cur], KeepName(e) \/ Rename(e)
  PROVE  AheadKept(n) \/ Taken(n)
<1>1. PICK h \in Kids(cur) :
         /\ h \in Node \ {Root} /\ Parent[h] = cur /\ cur \in open /\ cur \in Node
         /\ pc = "loop" /\ UNCHANGED <<cur, open>>
         /\ name[h] = e.name
         /\ todo' = [todo EXCEPT ![cur] = @ \ {e}]
         /\ pc' = IF IsDir[h] THEN "open" ELSE "read"
         /\ at' = Renamed(name[h]) /\ name' = [name EXCEPT ![h] = at']
         /\ h \in Lookup(cur, at)'
         /\ (\E f \in todo[cur] \ {e} : f.name = at') => ~IsDir[h] /\ Exempt(h)
  BY HandleEffect
<1>2. name'[h] = at' /\ \A m : m # h => name'[m] = name[m]
  BY <1>1 DEF TypeOK
<1>3. todo'[cur] = todo[cur] \ {e} /\ \A x : x # cur => todo'[x] = todo[x]
  BY <1>1 DEF TypeOK
<1>4. pc' \in Handling /\ AtHand(h)' /\ Pending(h)
  BY <1>1 DEF AtHand, Handling, Walking, Pending
<1>5. \A k : AtHand(k)' => k = h
  BY <1>1, KidsDiffer DEF AtHand, TypeOK, WalkInv, PathsResolve, Lookup, Kids, Siblings
<1>6. CASE n = h
  <2>1. ~Ahead(n)'
    <3>1. ASSUME NEW k \in Node, Up(k, h), Pending(k)' PROVE FALSE
      <4>1. k # h
        BY <1>4, <1>6, <3>1 DEF TakenInv
      <4>2. k = cur \/ <<k, cur>> \in Above
        BY <1>1, <3>1, <4>1, TreeAssumption DEF Up
      <4>3. k \in open'
        BY <1>1, <4>2 DEF WalkInv, PathsResolve, Walking
      <4> QED
        BY <1>4, <3>1, <4>3 DEF TakenInv, Handling
    <3>2. \A k \in Node : <<k, h>> \in Above => ~AtHand(k)'
      BY <1>5, TreeAssumption
    <3>3. pc' # "base"
      BY <1>1
    <3> QED
      BY <1>6, <3>1, <3>2, <3>3 DEF Ahead
  <2>2. Ahead(n)
    BY <1>4, <1>6 DEF Ahead, Up
  <2> QED
    BY <1>1, <1>2, <1>4, <1>6, <2>1, <2>2 DEF Taken
<1>7. CASE n # h
  <2>1. ASSUME Ahead(n) PROVE Ahead(n)'
    <3>1. PICK k \in Node : Up(k, n) /\ Pending(k)
      BY <1>1, <2>1 DEF Ahead, AtHand, Handling
    <3>2. CASE k = h
      BY <1>4, <1>7, <3>1, <3>2 DEF Ahead, Up
    <3>3. CASE k # h
      <4>1. k \in live /\ Parent[k] \in open /\ k # Root
        BY <3>1, UpLive DEF Pending
      <4>2. PICK f \in todo[Parent[k]] : f.name = name[k]
        BY <3>1 DEF Pending
      <4>3. Parent[k] = cur => f # e
        <5> SUFFICES ASSUME Parent[k] = cur, f = e PROVE FALSE
          OBVIOUS
        <5>1. k \in Lookup(cur, e.name) /\ h \in Lookup(cur, e.name)
          BY <1>1, <4>1, <4>2 DEF Lookup, Kids
        <5> QED
          BY <3>3, <5>1, KidsDiffer DEF TypeOK
      <4>4. f \in todo'[Parent[k]]
        BY <1>3, <4>2, <4>3
      <4>5. Pending(k)'
        BY <1>1, <1>2, <3>3, <4>1, <4>2, <4>4 DEF Pending
      <4> QED
        BY <3>1, <4>5 DEF Ahead, Up
    <3> QED
      BY <3>2, <3>3
  <2>2. ASSUME Ahead(n)' PROVE Ahead(n)
    <3>1. CASE <<h, n>> \in Above
      BY <1>1, <1>4, <3>1 DEF Ahead, Up
    <3>2. CASE <<h, n>> \notin Above
      <4>1. PICK k \in Node : Up(k, n) /\ Pending(k)'
        BY <1>4, <1>5, <2>2, <3>2 DEF Ahead, Handling, Walking, Up
      <4>2. k # h
        BY <1>7, <3>2, <4>1 DEF Up
      <4>3. Pending(k)
        BY <1>1, <1>2, <1>3, <4>1, <4>2 DEF Pending
      <4> QED
        BY <4>1, <4>3 DEF Ahead
    <3> QED
      BY <3>1, <3>2
  <2>3. name'[n] = name[n]
    BY <1>2, <1>7
  <2> QED
    BY <2>1, <2>2, <2>3 DEF AheadKept, Ahead
<1> QED
  BY <1>6, <1>7

\* The node at hand lies still while the loops do.
LEMMA SteadyAhead ==
  ASSUME UNCHANGED <<name, live, cur, open, todo, at>>, NEW n \in Node, pc # "base", pc' # "base",
         \A k \in Node : <<k, n>> \in Above => ~AtHand(k) /\ ~AtHand(k)'
  PROVE  AheadKept(n)
BY SameEntries DEF AheadKept, Ahead

\* The only steps that bring the walk nearer to a node are those that take its entry.
LEMMA AheadStep ==
  ASSUME TypeOK, TypeOK', WalkInv, WalkInv', OrbitInv, TakenInv, TakenInv', [Next]_vars,
         pc \in Active, pc' \in Going, NEW n \in Node \ {Root}, ~Exempt(n)
  PROVE  AheadKept(n) \/ Taken(n)
<1> USE DEF Handling, Walking
<1>0. ~Exempt(n)' /\ live \subseteq Node
  BY ExemptFixed DEF TypeOK
<1>1. CASE ReadBase
  <2>1. Enter(Root) /\ <<Root, n>> \in Above /\ pc = "base" /\ UNCHANGED name
    BY <1>1, TreeAssumption DEF ReadBase, Enter, disk
  <2>2. \E k \in Node : Up(k, n) /\ Pending(k)'
    BY <2>1, ListedPending, TreeAssumption
  <2> QED
    BY <2>1, <2>2 DEF AheadKept, Ahead, Up
<1>2. CASE OpenDir
  BY <1>2, OpenAhead
<1>3. CASE ReadFile \/ Truncate \/ Flush
  <2>1. pc \in {"read", "write", "flush"} /\ UNCHANGED <<name, live, cur, open, todo, at>>
        /\ pc' \in {"write", "flush", "loop"}
    BY <1>3 DEF ReadFile, Truncate, Flush, Write, disk, walk
  <2>2. \A k \in Node : AtHand(k)' => AtHand(k)
    BY <2>1, SameEntries DEF AtHand
  <2> QED
    BY <1>0, <2>1, <2>2, NoneAbove, SteadyAhead
<1>4. CASE Return
  <2>1. pc = "loop" /\ UNCHANGED <<name, live, todo>> /\ open' = open \ {cur} /\ pc' \in {"loop", "done"}
        /\ todo[cur] = {}
    BY <1>4 DEF Return, disk
  <2>2. \A k : Pending(k)' = Pending(k)
    BY <2>1 DEF Pending
  <2> QED
    BY <2>1, <2>2 DEF AheadKept, Ahead, AtHand
<1>5. ASSUME NEW e \in todo[cur], Skip(e) PROVE AheadKept(n)
  <2>1. pc = "loop" /\ UNCHANGED <<name, live, open, pc>> /\ cur = Root /\ e.name \in Skipped
        /\ todo'[cur] = todo[cur] \ {e} /\ \A x : x # cur => todo'[x] = todo[x]
    BY <1>5 DEF Skip, NextEntry, Skips, Take, disk, TypeOK
  <2>2. ASSUME NEW k \in Node, Up(k, n), Pending(k) PROVE Pending(k)'
    <3>1. PICK f \in todo[Parent[k]] : f.name = name[k]
      BY <2>2 DEF Pending
    <3>2. ASSUME Parent[k] = cur, f = e PROVE FALSE
      <4>1. name0[k] \in Skipped /\ k \in Node \ {Root}
        BY <2>1, <2>2, <3>1, <3>2 DEF TakenInv, Pending
      <4>2. Shielded(n)
        BY <2>1, <2>2, <3>2, <4>1 DEF Shielded, Up
      <4> QED
        BY <4>2 DEF Exempt
    <3> QED
      BY <2>1, <2>2, <3>1, <3>2 DEF Pending
  <2>3. \A k : Pending(k)' => Pending(k)
    BY <2>1 DEF Pending
  <2> QED
    BY <2>1, <2>2, <2>3 DEF AheadKept, Ahead, AtHand
<1>6. ASSUME NEW e \in todo[cur], KeepName(e) \/ Rename(e) PROVE AheadKept(n) \/ Taken(n)
  BY <1>0, <1>6, HandleAhead
<1>7. ASSUME NEW e \in todo[cur], RenameFails(e) PROVE FALSE
  BY <1>7 DEF RenameFails, Panic, Going, Active
<1>8. CASE SystemError \/ Kill
  BY <1>8 DEF SystemError, Panic, Kill, Going, Active
<1>9. CASE Rerun
  BY <1>9 DEF Rerun, Halted, Active
<1>10. CASE UNCHANGED vars
  <2>1. UNCHANGED <<name, live, cur, open, todo, at, pc>>
    BY <1>10 DEF vars, disk, walk
  <2>2. \A k : AtHand(k)' = AtHand(k) /\ Pending(k)' = Pending(k)
    BY <2>1 DEF AtHand, Lookup, Kids, Pending
  <2> QED
    BY <2>1, <2>2 DEF AheadKept, Ahead
<1> QED
  BY <1>1, <1>2, <1>3, <1>4, <1>5, <1>6, <1>7, <1>8, <1>9, <1>10 DEF Next, Step

\* The other steps, of runs that end, do not change the names.
LEMMA EndStep ==
  ASSUME TypeOK, [Next]_vars, pc \notin Active \/ pc' \notin Going
  PROVE  /\ UNCHANGED <<name, live, text>>
         /\ \/ UNCHANGED vars
            \/ pc' = "base" /\ runs' = runs + 1
            \/ pc' \in {"panic", "killed"} /\ runs' = runs
<1> USE DEF Active, Walking, Going
<1>1. CASE ReadBase \/ OpenDir
  BY <1>1 DEF ReadBase, OpenDir, Enter
<1>2. CASE ReadFile \/ Truncate \/ Flush \/ Return
  BY <1>2 DEF ReadFile, Truncate, Flush, Write, Return
<1>3. ASSUME NEW e \in todo[cur], Skip(e) \/ KeepName(e) \/ Rename(e) PROVE FALSE
  <2>1. pc = "loop" /\ pc' \in {"loop", "open", "read"}
    BY <1>3 DEF Skip, KeepName, Rename, NextEntry, Proceed
  <2> QED
    BY <2>1
<1>4. ASSUME NEW e \in todo[cur], RenameFails(e)
      PROVE  UNCHANGED <<name, live, text>> /\ pc' = "panic" /\ runs' = runs
  BY <1>4 DEF RenameFails, Panic, disk
<1>5. CASE SystemError \/ Kill \/ Rerun \/ UNCHANGED vars
  BY <1>5 DEF SystemError, Panic, Kill, Rerun, vars, disk
<1> QED
  BY <1>1, <1>2, <1>3, <1>4, <1>5 DEF Next, Step

\* In a step of a run the number of runs stays what it is.
LEMMA RunStep ==
  ASSUME [Next]_vars, pc \in Active
  PROVE  runs' = runs
BY DEF Next, Step, ReadBase, OpenDir, Enter, ReadFile, Truncate, Flush, Write, Return, Skip, KeepName, Rename,
       RenameFails, Proceed, SystemError, Panic, Kill, Rerun, vars, Active, Walking, Halted

\* NameInv is inductive.
LEMMA NameStep ==
  ASSUME TypeOK, TypeOK', WalkInv, WalkInv', OrbitInv, TakenInv, TakenInv', NameInv, [Next]_vars
  PROVE  NameInv'
<1> SUFFICES ASSUME NEW n \in Node \ {Root}, ~Exempt(n)
             PROVE  /\ pc' \in Going /\ runs' = 1 /\ Ahead(n)' => name'[n] = name0[n]
                    /\ NameKept(n)' => name'[n] \in {name0[n], Renamed(name0[n])}
                    /\ NameKept(n)' /\ pc' \in Going /\ ~Ahead(n)' => name'[n] = Renamed(name0[n])
  <2>1. UNCHANGED name0 /\ \A n : Exempt(n)' = Exempt(n)
    BY StepChanges, ExemptFixed DEF tree0
  <2> QED
    BY <2>1 DEF NameInv
<1>0. runs \in Nat \ {0} /\ UNCHANGED name0
  BY RuleAssumption, StepChanges DEF TypeOK, tree0
<1>1. /\ pc \in Going /\ runs = 1 /\ Ahead(n) => name[n] = name0[n]
      /\ NameKept(n) => name[n] \in {name0[n], Renamed(name0[n])}
      /\ NameKept(n) /\ pc \in Going /\ ~Ahead(n) => name[n] = Renamed(name0[n])
  BY DEF NameInv
<1>2. CASE pc \in Active /\ pc' \in Going
  <2>1. runs' = runs /\ NameKept(n)' = NameKept(n) /\ pc \in Going
    BY <1>0, <1>2, RunStep DEF NameKept, Going
  <2>2. AheadKept(n) \/ Taken(n)
    BY <1>2, AheadStep
  <2>3. CASE AheadKept(n)
    BY <1>1, <2>1, <2>3 DEF AheadKept
  <2>4. CASE Taken(n)
    <3>1. NameKept(n) => name'[n] = Renamed(name0[n])
      BY <1>1, <2>1, <2>4 DEF Taken, NameKept
    <3> QED
      BY <2>1, <2>4, <3>1 DEF Taken
  <2> QED
    BY <2>2, <2>3, <2>4
<1>3. CASE pc \notin Active \/ pc' \notin Going
  <2>1. CASE UNCHANGED vars
    <3>1. UNCHANGED <<name, live, cur, open, todo, at, pc, runs>>
      BY <2>1 DEF vars, disk, walk
    <3>2. \A k : AtHand(k)' = AtHand(k) /\ Pending(k)' = Pending(k)
      BY <3>1 DEF AtHand, Lookup, Kids, Pending
    <3> QED
      BY <1>0, <1>1, <3>1, <3>2 DEF Ahead, NameKept
  <2>2. CASE pc' = "base" /\ runs' = runs + 1 /\ UNCHANGED name
    <3>1. runs' # 1 /\ Ahead(n)' /\ (NameKept(n)' => NameKept(n))
      BY <1>0, <2>2 DEF Ahead, NameKept
    <3> QED
      BY <1>1, <2>2, <3>1
  <2>3. CASE pc' \in {"panic", "killed"} /\ runs' = runs /\ UNCHANGED name
    <3>1. pc' \notin Going /\ NameKept(n)' = NameKept(n)
      BY <1>0, <2>3 DEF Going, Active, Walking, NameKept
    <3> QED
      BY <1>1, <2>3, <3>1
  <2> QED
    BY <1>3, <2>1, <2>2, <2>3, EndStep
<1> QED
  BY <1>2, <1>3

-----------------------------------------------------------------------------
\* A file with a last rewriting, or in its first run: what ContentInv says of the file at hand.
LEMMA ReadContent ==
  ASSUME TypeOK, WalkInv, ContentInv, NEW f \in Node, ~Exempt(f), ~IsDir[f], ContentKept(f),
         AtHand(f), pc = "read"
  PROVE  /\ Rewrite(text[f]).change => Rewrite(text[f]).txt = Content(text0[f])
         /\ ~Rewrite(text[f]).change =>
              text[f] = Content(text0[f]) \/ (runs > 1 /\ text[f] = Torn)
<1>1. text[f] \in Text /\ text0[f] \in Text /\ runs \in Nat \ {0} /\ Torn \in Text
  BY RuleAssumption DEF TypeOK
<1>2. /\ runs = 1 => text[f] = text0[f]
      /\ text[f] \in {text0[f], Content(text0[f]), Torn}
  BY DEF ContentInv, Unwritten, Going, Active, Walking
<1>3. text[f] = Torn => Rewrite(text[f]) = [txt |-> Torn, change |-> FALSE]
  BY <1>1, RewriteIdle, RuleAssumption
<1>4. Rewrite(text[f]).txt = Content(text[f])
  BY DEF Content
<1>5. runs > 1 => Content(Content(text0[f])) = Content(text0[f])
  BY DEF ContentKept
<1>6. CASE Rewrite(text[f]).change
  <2>1. text[f] # Torn
    BY <1>3, <1>6
  <2> QED
    BY <1>1, <1>2, <1>4, <1>5, <1>6, <2>1
<1>7. CASE ~Rewrite(text[f]).change
  <2>1. Content(text[f]) = text[f]
    BY <1>1, <1>7, RewriteUnchanged
  <2> QED
    BY <1>1, <1>2, <1>5, <1>7, <2>1
<1> QED
  BY <1>6, <1>7

\* ReadFile, Truncate and Flush: the file at hand gets what its first content becomes, the
\* others are left alone.
LEMMA WriteContent ==
  ASSUME TypeOK, TypeOK', WalkInv, OrbitInv, TakenInv, ContentInv, NEW f \in Node, ~Exempt(f), ~IsDir[f],
         Ahead(f)' = Ahead(f), UNCHANGED <<text0, runs>>, ReadFile \/ Truncate \/ Flush
  PROVE  /\ runs = 1 /\ Unwritten(f)' => text'[f] = text0[f]
         /\ ContentKept(f) =>
              /\ text'[f] \in {text0[f], Content(text0[f]), Torn}
              /\ AtHand(f)' /\ pc' \in {"write", "flush"} => buf' = Content(text0[f])
              /\ ~Unwritten(f)' /\ ~Writing(f)' =>
                   text'[f] = Content(text0[f]) \/ (runs > 1 /\ text'[f] = Torn)
<1>1. /\ UNCHANGED <<name, live, cur, open, todo, at>>
      /\ pc \in {"read", "write", "flush"} /\ pc' \in {"write", "flush", "loop"}
  BY DEF ReadFile, Truncate, Flush, Write, disk, walk
<1>2. /\ runs = 1 /\ Unwritten(f) => text[f] = text0[f]
      /\ ContentKept(f) =>
           /\ text[f] \in {text0[f], Content(text0[f]), Torn}
           /\ AtHand(f) /\ pc \in {"write", "flush"} => buf = Content(text0[f])
           /\ ~Unwritten(f) /\ ~Writing(f) => text[f] = Content(text0[f]) \/ (runs > 1 /\ text[f] = Torn)
  BY <1>1 DEF ContentInv, Going, Active, Walking
<1>3. (AtHand(f)' => AtHand(f)) /\ (AtHand(f) /\ pc' # "loop" => AtHand(f)')
  BY <1>1 DEF AtHand, Lookup, Kids, Handling, Walking
<1>4. CASE ~AtHand(f)
  <2>1. f \notin Lookup(cur, at)
    BY <1>1, <1>4 DEF AtHand, Handling, Walking
  <2>2. text'[f] = text[f]
    BY <2>1 DEF ReadFile, Truncate, Flush, Write, disk, TypeOK
  <2> QED
    BY <1>2, <1>3, <1>4, <2>2 DEF Unwritten, Writing
<1>5. CASE AtHand(f)
  <2>1. ~Ahead(f) /\ ~Ahead(f)' /\ f \in Lookup(cur, at) /\ \A g \in Lookup(cur, at) : g = f
    BY <1>5, AtHandTaken, KidsDiffer DEF AtHand, TypeOK
  <2>2. CASE ReadFile
    <3>1. /\ pc = "read" /\ text' = text /\ buf' = Rewrite(text[f]).txt
          /\ pc' = IF Rewrite(text[f]).change THEN "write" ELSE "loop"
      BY <2>1, <2>2 DEF ReadFile, disk
    <3>2. runs = 1 => text[f] = text0[f]
      BY <1>2, <1>5, <3>1 DEF Unwritten
    <3>3. CASE Rewrite(text[f]).change
      <4>1. Unwritten(f)'
        BY <1>3, <1>5, <3>1, <3>3 DEF Unwritten
      <4> QED
        BY <1>2, <1>5, <3>1, <3>2, <3>3, <4>1, ReadContent
    <3>4. CASE ~Rewrite(text[f]).change
      <4>1. ~Unwritten(f)' /\ ~AtHand(f)'
        BY <2>1, <3>1, <3>4 DEF Unwritten, AtHand, Handling
      <4> QED
        BY <1>2, <1>5, <3>1, <3>4, <4>1, ReadContent
    <3> QED
      BY <3>3, <3>4
  <2>3. CASE Truncate
    <3>1. pc = "write" /\ pc' = "flush" /\ buf' = buf /\ text'[f] = Torn
      BY <2>1, <2>3 DEF Truncate, Write, TypeOK
    <3>2. ~Unwritten(f)' /\ Writing(f)'
      BY <1>3, <1>5, <2>1, <3>1 DEF Unwritten, Writing
    <3> QED
      BY <1>2, <1>5, <3>1, <3>2
  <2>4. CASE Flush
    <3>1. pc = "flush" /\ pc' = "loop" /\ text'[f] = buf
      BY <2>1, <2>4 DEF Flush, Write, TypeOK
    <3>2. ~Unwritten(f)' /\ ~AtHand(f)'
      BY <2>1, <3>1 DEF Unwritten, AtHand, Handling
    <3> QED
      BY <1>2, <1>5, <3>1, <3>2
  <2> QED
    BY <2>2, <2>3, <2>4
<1> QED
  BY <1>4, <1>5

\* In the other steps of a run the contents stay, and so does what is still to be done to them.
LEMMA ContentSteady ==
  ASSUME TypeOK, TypeOK', WalkInv, WalkInv', OrbitInv, TakenInv, TakenInv', [Next]_vars,
         pc \in Active, pc' \in Going, NEW f \in Node, ~Exempt(f), ~IsDir[f], ~(ReadFile \/ Truncate \/ Flush)
  PROVE  \/ UNCHANGED vars
         \/ /\ UNCHANGED text
            /\ Unwritten(f)' = Unwritten(f) /\ ~Writing(f) /\ pc' \notin {"write", "flush"}
<1> USE DEF Handling, Walking
<1>0. f \in Node \ {Root} /\ live \subseteq Node
  BY TreeAssumption DEF TypeOK
<1>1. AheadKept(f) \/ Taken(f)
  BY <1>0, AheadStep
<1>2. CASE ReadBase \/ Return
  <2>1. UNCHANGED <<name, text>> /\ pc \notin Handling /\ pc' \notin Handling
    BY <1>2 DEF ReadBase, Enter, Return, disk
  <2> QED
    BY <1>1, <2>1 DEF AheadKept, Taken, Unwritten, Writing, AtHand
<1>3. CASE OpenDir
  <2>1. UNCHANGED text /\ pc = "open" /\ pc' = "loop"
    BY <1>3 DEF OpenDir, Enter, disk
  <2> QED
    BY <1>1, <2>1 DEF AheadKept, Taken, Unwritten, Writing, AtHand
<1>4. ASSUME NEW e \in todo[cur], Skip(e)
      PROVE  UNCHANGED text /\ Unwritten(f)' = Unwritten(f) /\ ~Writing(f) /\ pc' \notin {"write", "flush"}
  <2>1. UNCHANGED text /\ pc = "loop" /\ pc' = "loop"
    BY <1>4 DEF Skip, NextEntry, disk
  <2> QED
    BY <1>1, <2>1 DEF AheadKept, Taken, Unwritten, Writing, AtHand
<1>5. ASSUME NEW e \in todo[cur], KeepName(e) \/ Rename(e)
      PROVE  UNCHANGED text /\ Unwritten(f)' = Unwritten(f) /\ ~Writing(f) /\ pc' \notin {"write", "flush"}
  <2>1. PICK h \in Kids(cur) :
          /\ h \in Node \ {Root} /\ Parent[h] = cur /\ cur \in open
          /\ pc = "loop" /\ UNCHANGED <<cur, text>> /\ name[h] = e.name
          /\ pc' = IF IsDir[h] THEN "open" ELSE "read"
          /\ h \in Lookup(cur, at)'
    BY <1>5, HandleEffect
  <2>2. ~AtHand(f) /\ Pending(h) /\ AtHand(h)'
    BY <2>1 DEF AtHand, Pending
  <2>3. AtHand(f)' => f = h
    BY <2>1, KidsDiffer DEF AtHand, TypeOK, WalkInv, PathsResolve, Lookup, Kids, Siblings
  <2>4. AtHand(f)' => Ahead(f) /\ pc' = "read"
    BY <2>1, <2>2, <2>3 DEF Ahead, Up
  <2>5. CASE AheadKept(f)
    BY <2>1, <2>2, <2>4, <2>5 DEF AheadKept, Unwritten, Writing
  <2>6. CASE Taken(f)
    BY <2>1, <2>2, <2>6 DEF Taken, Unwritten, Writing
  <2> QED
    BY <1>1, <2>5, <2>6
<1>6. ASSUME NEW e \in todo[cur], RenameFails(e) PROVE FALSE
  BY <1>6 DEF RenameFails, Panic, Going, Active
<1>7. CASE SystemError \/ Kill
  BY <1>7 DEF SystemError, Panic, Kill, Going, Active
<1>8. CASE Rerun
  BY <1>8 DEF Rerun, Halted, Active
<1> QED
  BY <1>2, <1>3, <1>4, <1>5, <1>6, <1>7, <1>8 DEF Next, Step

\* ContentInv is inductive.
LEMMA ContentStep ==
  ASSUME TypeOK, TypeOK', WalkInv, WalkInv', OrbitInv, TakenInv, TakenInv', ContentInv, [Next]_vars
  PROVE  ContentInv'
<1> SUFFICES ASSUME NEW f \in Node, ~Exempt(f), ~IsDir[f]
             PROVE  /\ pc' \in Going /\ runs' = 1 /\ Unwritten(f)' => text'[f] = text0[f]
                    /\ ContentKept(f)' =>
                         /\ text'[f] \in {text0[f], Content(text0[f]), Torn}
                         /\ AtHand(f)' /\ pc' \in {"write", "flush"} => buf' = Content(text0[f])
                         /\ pc' \in Going /\ ~Unwritten(f)' /\ ~Writing(f)' =>
                              text'[f] = Content(text0[f]) \/ (runs' > 1 /\ text'[f] = Torn)
  <2>1. UNCHANGED text0 /\ \A n : Exempt(n)' = Exempt(n)
    BY StepChanges, ExemptFixed DEF tree0
  <2> QED
    BY <2>1 DEF ContentInv
<1>0. runs \in Nat \ {0} /\ UNCHANGED text0 /\ f \in Node \ {Root}
  BY RuleAssumption, TreeAssumption, StepChanges DEF TypeOK, tree0
<1>1. /\ pc \in Going /\ runs = 1 /\ Unwritten(f) => text[f] = text0[f]
      /\ ContentKept(f) =>
           /\ text[f] \in {text0[f], Content(text0[f]), Torn}
           /\ AtHand(f) /\ pc \in {"write", "flush"} => buf = Content(text0[f])
           /\ pc \in Going /\ ~Unwritten(f) /\ ~Writing(f) =>
                text[f] = Content(text0[f]) \/ (runs > 1 /\ text[f] = Torn)
  BY DEF ContentInv
<1>2. ASSUME UNCHANGED vars
      PROVE  UNCHANGED <<text, runs, pc, buf>> /\ Unwritten(f)' = Unwritten(f) /\ Writing(f)' = Writing(f)
             /\ AtHand(f)' = AtHand(f) /\ ContentKept(f)' = ContentKept(f)
  <2>1. UNCHANGED <<name, text, text0, live, cur, open, todo, at, pc, runs, buf>>
    BY <1>2 DEF vars, disk, tree0, walk
  <2>2. \A k : AtHand(k)' = AtHand(k) /\ Pending(k)' = Pending(k)
    BY <2>1 DEF AtHand, Lookup, Kids, Pending
  <2> QED
    BY <2>1, <2>2 DEF Unwritten, Writing, Ahead, ContentKept
<1>3. CASE pc \in Active /\ pc' \in Going
  <2>1. runs' = runs /\ ContentKept(f)' = ContentKept(f) /\ pc \in Going
    BY <1>0, <1>3, RunStep DEF ContentKept, Going
  <2>2. CASE ReadFile \/ Truncate \/ Flush
    <3>1. Ahead(f)' = Ahead(f)
      <4>1. pc # "loop"
        BY <2>2 DEF ReadFile, Truncate, Flush, Write
      <4> QED
        BY <1>0, <1>3, <4>1, AheadStep DEF AheadKept, Taken
    <3> QED
      BY <1>0, <2>1, <2>2, <3>1, WriteContent
  <2>3. CASE ~(ReadFile \/ Truncate \/ Flush)
    <3>1. \/ UNCHANGED vars
          \/ /\ UNCHANGED text
             /\ Unwritten(f)' = Unwritten(f) /\ ~Writing(f) /\ pc' \notin {"write", "flush"}
      BY <1>3, <2>3, ContentSteady
    <3> QED
      BY <1>1, <1>2, <2>1, <3>1
  <2> QED
    BY <2>2, <2>3
<1>4. CASE pc \notin Active \/ pc' \notin Going
  <2>1. CASE pc' = "base" /\ runs' = runs + 1 /\ UNCHANGED text
    <3>1. runs' # 1 /\ Unwritten(f)' /\ (ContentKept(f)' => ContentKept(f))
      BY <1>0, <2>1 DEF Unwritten, Ahead, ContentKept
    <3> QED
      BY <1>1, <2>1, <3>1
  <2>2. CASE pc' \in {"panic", "killed"} /\ runs' = runs /\ UNCHANGED text
    <3>1. pc' \notin Going /\ ContentKept(f)' = ContentKept(f)
      BY <1>0, <2>2 DEF Going, Active, Walking, ContentKept
    <3> QED
      BY <1>1, <2>2, <3>1
  <2> QED
    BY <1>1, <1>2, <1>4, <2>1, <2>2, EndStep
<1> QED
  BY <1>3, <1>4

\* WriteInv is inductive: between reading a file and writing it nothing else is read or written.
LEMMA WriteStep ==
  ASSUME TypeOK, WalkInv, WriteInv, [Next]_vars
  PROVE  WriteInv'
<1>0. live \subseteq Node /\ text \in [Node -> Text] /\ \A x, t : Lookup(x, t) \subseteq Node
  BY DEF TypeOK, Lookup, Kids
<1>1. CASE ReadFile
  <2>1. PICK g \in Lookup(cur, at) : buf' = Rewrite(text[g]).txt
                                  /\ pc' = IF Rewrite(text[g]).change THEN "write" ELSE "loop"
    BY <1>1 DEF ReadFile
  <2>2. \A f \in Lookup(cur, at) : f = g
    BY <1>0, <2>1, KidsDiffer
  <2>3. Lookup(cur, at)' = Lookup(cur, at) /\ text' = text
    BY <1>1 DEF ReadFile, Lookup, Kids, disk, walk
  <2>4. Rewrite(text[g]).change => text[g] # Torn
    BY <1>0, <2>1, RewriteIdle, RuleAssumption
  <2> QED
    BY <2>1, <2>2, <2>3, <2>4 DEF WriteInv, Content
<1>2. CASE Truncate
  <2>1. PICK g \in Lookup(cur, at) : text' = [text EXCEPT ![g] = Torn]
    BY <1>2 DEF Truncate, Write
  <2>2. \A f \in Lookup(cur, at) : f = g
    BY <1>0, <2>1, KidsDiffer
  <2>3. Lookup(cur, at)' = Lookup(cur, at) /\ pc' = "flush"
    BY <1>2 DEF Truncate, Write, Lookup, Kids, walk
  <2> QED
    BY <1>0, <2>1, <2>2, <2>3 DEF WriteInv
<1>3. CASE UNCHANGED vars
  BY <1>3 DEF vars, disk, walk, WriteInv, Lookup, Kids
<1>4. CASE ReadBase \/ OpenDir \/ Flush \/ Return \/ SystemError \/ Kill \/ Rerun
  BY <1>4 DEF ReadBase, OpenDir, Enter, Flush, Write, Return, SystemError, Panic, Kill, Rerun, WriteInv
<1>5. ASSUME NEW e \in todo[cur], Skip(e) \/ KeepName(e) \/ Rename(e) \/ RenameFails(e) PROVE WriteInv'
  <2>1. pc' \in {"loop", "open", "read", "panic"}
    BY <1>5 DEF Skip, KeepName, Rename, RenameFails, NextEntry, Proceed, Panic
  <2> QED
    BY <2>1 DEF WriteInv
<1> QED
  BY <1>1, <1>2, <1>3, <1>4, <1>5 DEF Next, Step

-----------------------------------------------------------------------------
\* Together these are inductive: what is ahead of the walk is as it was found, what it has passed
\* is as it should be.
RunInv == TakenInv /\ NameInv /\ ContentInv /\ WriteInv

\* At any point of any run it is known of every node whether the run has done it.
THEOREM RunSound == Spec => []RunInv
<1>1. Init => RunInv
  <2> SUFFICES ASSUME Init PROVE RunInv
    OBVIOUS
  <2> USE DEF Handling, Walking
  <2>1. pc = "base" /\ open = {} /\ live = Node /\ name0 = name /\ text0 = text
    BY DEF Init
  <2>2. TakenInv /\ WriteInv
    BY <2>1 DEF TakenInv, WriteInv, AtHand
  <2>3. \A n : Ahead(n) /\ Unwritten(n)
    BY <2>1 DEF Ahead, Unwritten
  <2>4. NameInv /\ ContentInv
    BY <2>1, <2>3 DEF NameInv, ContentInv, AtHand
  <2> QED
    BY <2>2, <2>4 DEF RunInv
<1>2. TypeOK /\ TypeOK' /\ WalkInv /\ WalkInv' /\ OrbitInv /\ RunInv /\ [Next]_vars => RunInv'
  BY TakenStep, NameStep, ContentStep, WriteStep DEF RunInv
<1> QED
  BY <1>1, <1>2, TypeCorrect, WalkSound, OrbitsKept, PTL DEF Spec

\* When a run is through, it has passed everything.
LEMMA NothingAhead ==
  ASSUME TakenInv, pc = "done"
  PROVE  \A n : ~Ahead(n) /\ ~Unwritten(n) /\ ~Writing(n)
BY DEF TakenInv, Ahead, Unwritten, Writing, AtHand, Pending, Handling, Walking

\* A completed run has replaced every name.
LEMMA NamesAreDone ==
  ASSUME TypeOK, RunInv
  PROVE  NamesDone
<1> SUFFICES ASSUME pc = "done", NEW n \in live \ {Root}, ~Exempt(n), NameKept(n)
             PROVE  name[n] = Renamed(name0[n])
  BY RuleAssumption DEF NamesDone, Exempt, NameKept, TypeOK
<1> QED
  BY NothingAhead DEF RunInv, NameInv, Going, TypeOK

\* A completed run has rewritten every file that no earlier run tore.
LEMMA ContentsAreDone ==
  ASSUME TypeOK, RunInv
  PROVE  ContentsDone
<1> SUFFICES ASSUME pc = "done", NEW f \in live, ~IsDir[f], ~Exempt(f), ContentKept(f)
             PROVE  text[f] = Content(text0[f]) \/ (runs > 1 /\ text[f] = Torn)
  BY RuleAssumption DEF ContentsDone, Exempt, ContentKept, TypeOK
<1> QED
  BY NothingAhead DEF RunInv, ContentInv, Going, TypeOK

\* At most one rule occurs: any two that do are the same.
LEMMA OneRule ==
  ASSUME NEW t \in Text, Cardinality({r \in Rules : Has[r][t]}) <= 1,
         NEW r \in Rules, Has[r][t], NEW s \in Rules, Has[s][t]
  PROVE  s = r
<1> DEFINE R == {q \in Rules : Has[q][t]}
<1>1. IsFiniteSet(R) /\ Cardinality(R) \in Nat
  <2>1. IsFiniteSet(Rules)
    BY FS_Interval, RuleAssumption DEF Rules
  <2>2. R \in SUBSET Rules
    OBVIOUS
  <2> HIDE DEF R
  <2> QED
    BY <2>1, <2>2, FS_Subset, FS_CardinalityType
<1>2. Cardinality(R) # 0
  <2>1. R # {}
    OBVIOUS
  <2> HIDE DEF R
  <2> QED
    BY <1>1, <2>1, FS_EmptySet
<1>3. \E x : R = {x}
  <2>1. Cardinality(R) <= 1
    OBVIOUS
  <2> HIDE DEF R
  <2>2. Cardinality(R) = 1
    BY <1>1, <1>2, <2>1
  <2> QED
    BY <1>1, <2>2, FS_Singleton
<1> QED
  BY <1>3

\* Names and contents agree: the two loops make the same of a text with one match.
LEMMA ReferencesAreFollowed ==
  ASSUME TypeOK, NamesDone, ContentsDone
  PROVE  ReferencesFollow
<1> SUFFICES ASSUME pc = "done", NEW f \in live \ {Root}, NEW m \in live \ {Root},
                    ~IsDir[f], text0[f] = name0[m], text[f] # Torn, ~Shielded(f), ~Shielded(m),
                    ~\E k \in Node : Clash(k, m) \/ Clash(k, f),
                    Cardinality({r \in Rules : Has[r][name0[m]]}) <= 1,
                    ~Matches(Renamed(name0[m]))
             PROVE  text[f] = name[m]
  BY DEF ReferencesFollow
<1> DEFINE t == name0[m]
<1>1. t \in Text
  BY DEF TypeOK
<1>2. /\ (runs > 1 /\ Renamed(Renamed(t)) # Renamed(t)) \/ name[m] = Renamed(t)
      /\ (runs > 1 /\ Content(Content(t)) # Content(t)) \/ text[f] = Content(t)
  BY DEF NamesDone, ContentsDone
<1>3. Renamed(Renamed(t)) = Renamed(t)
  BY DEF Renamed
<1>4. Content(t) = Renamed(t)
  <2>1. CASE ~Matches(t)
    BY <1>1, <2>1, RewriteIdle DEF Renamed, Content
  <2>2. CASE Matches(t)
    <3>1. PICK r \in Rules : Has[r][t]
      BY <2>2 DEF Matches
    <3>2. \A s \in Rules : Has[s][t] => s = r
      BY <1>1, <3>1, OneRule
    <3>3. FirstRule(r, t)
      BY <3>1, <3>2, RuleAssumption DEF FirstRule, Rules
    <3>4. Renamed(t) = Sub[r][t]
      BY <3>3, RenamedBy
    <3> QED
      BY <1>1, <3>1, <3>2, <3>4, RewriteOnce
  <2> QED
    BY <2>1, <2>2
<1>5. Content(Content(t)) = Content(t)
  <2>1. Content(t) \in Text
    BY <1>1, RewriteTyped
  <2> QED
    BY <1>4, <2>1, RewriteIdle DEF Content
<1> QED
  BY <1>2, <1>3, <1>4, <1>5

\* Every run that is not cut short replaces all it was given: names, contents, and the imports
\* that follow the names; also after runs that were cut short anywhere.
THEOREM AllReplacedHolds == Spec => []AllReplaced
<1>1. TypeOK /\ RunInv => AllReplaced
  BY NamesAreDone, ContentsAreDone, ReferencesAreFollowed DEF AllReplaced
<1> QED
  BY <1>1, TypeCorrect, RunSound, PTL

-----------------------------------------------------------------------------
\* What RenamePromise makes of a name is what the first rule makes of it.
LEMMA NewNameIs ==
  ASSUME NEW r \in Rules, NEW t, FirstRule(r, t)
  PROVE  Promise!Occurring(t) # {} /\ Promise!NewName(t) = Sub[r][t]
<1> DEFINE Occ == {q \in Rules : Has[q][t]}
<1>1. Promise!Occurring(t) = Occ /\ r \in Occ
  BY DEF Promise!Occurring, FirstRule, Rules
<1>2. \A q \in Occ : (\A s \in Occ : q <= s) <=> q = r
  BY RuleAssumption DEF FirstRule, Rules
<1>3. (CHOOSE q \in Occ : \A s \in Occ : q <= s) = r
  BY <1>1, <1>2
<1>4. Promise!NewName(t) = Sub[CHOOSE q \in Occ : \A s \in Occ : q <= s][t]
  BY <1>1, Zenon DEF Promise!NewName
<1> QED
  BY <1>1, <1>3, <1>4

\* SeenText is the content on the disk, but for a file that is being written.
LEMMA SeenIs ==
  ASSUME TypeOK
  PROVE  /\ pc # "flush" => SeenText = text
         /\ \A f \in Lookup(cur, at) : pc = "flush" /\ (\A g \in Lookup(cur, at) : g = f)
                                       => SeenText = [text EXCEPT ![f] = buf]
BY DEF SeenText, TypeOK, Lookup, Kids

\* Most steps do nothing that RenamePromise speaks of.
LEMMA PromiseStutter ==
  ASSUME TypeOK, TypeOK', UNCHANGED <<name, live, text>>, pc # "flush", pc' # "flush"
  PROVE  UNCHANGED <<name, SeenText, live>>
<1>1. SeenText = text
  BY SeenIs
<1>2. SeenText' = text'
  BY DEF SeenText, TypeOK
<1> QED
  BY <1>1, <1>2

\* A rename is the promise's RenameEntry.
LEMMA PromiseRename ==
  ASSUME TypeOK, TypeOK', WalkInv, NEW e \in todo[cur], Rename(e)
  PROVE  \E n \in live \ {Root} : Promise!RenameEntry(n)
<1>1. PICK r \in Rules, n \in Lookup(cur, e.name) :
        /\ FirstRule(r, e.name) /\ ~Refused(n, Sub[r][e.name])
        /\ name' = [name EXCEPT ![n] = Sub[r][e.name]]
        /\ live' = live \ (Lookup(cur, Sub[r][e.name]) \ {n})
        /\ Proceed(e, Sub[r][e.name])
  BY DEF Rename
<1> DEFINE t == Sub[r][e.name]
<1>2. n \in live \ {Root} /\ n \in Node /\ Parent[n] = cur /\ name[n] = e.name
  BY DEF Lookup, Kids, TypeOK
<1>3. Promise!Occurring(name[n]) # {} /\ Promise!NewName(name[n]) = t
  BY <1>1, <1>2, NewNameIs
<1>4. Promise!Rivals(n, t) = Lookup(cur, t) \ {n}
  BY <1>2 DEF Promise!Rivals, Lookup, Kids
<1>5. \A m \in Promise!Rivals(n, t) : ~IsDir[m] /\ ~IsDir[n]
  BY <1>1, <1>4 DEF Refused
<1>6. UNCHANGED SeenText
  <2>1. text' = text /\ pc = "loop" /\ pc' \in {"open", "read"}
    BY <1>1 DEF Rename, NextEntry, Proceed
  <2>2. SeenText = text
    BY <2>1, SeenIs
  <2>3. SeenText' = text'
    BY <2>1 DEF SeenText, TypeOK
  <2> QED
    BY <2>1, <2>2, <2>3
<1>7. Promise!RenameEntry(n)
  BY <1>1, <1>2, <1>3, <1>4, <1>5, <1>6 DEF Promise!RenameEntry
<1> QED
  BY <1>2, <1>7

\* Truncating a file is the promise's RewriteFile; the writing that completes it is not seen;
\* ending before it is TearFile.
LEMMA PromiseWrite ==
  ASSUME TypeOK, TypeOK', WalkInv, WriteInv, UNCHANGED <<name, live>>,
         \/ Truncate
         \/ Flush
         \/ pc = "flush" /\ pc' \in Halted /\ UNCHANGED text
  PROVE  Promise!Next \/ UNCHANGED <<name, SeenText, live>>
<1>1. PICK f \in Lookup(cur, at) : IsDir[f] = FALSE /\ \A g \in Lookup(cur, at) : g = f
  <2>1. pc \in {"write", "flush"} /\ live \subseteq Node
    BY DEF Truncate, Flush, Write, TypeOK
  <2>2. PICK f \in Lookup(cur, at) : IsDir[f] = (pc = "open")
    BY <2>1 DEF WalkInv, PathsResolve, Walking
  <2>3. \A g \in Lookup(cur, at) : g = f
    BY <2>1, <2>2, KidsDiffer
  <2> QED
    BY <2>1, <2>2, <2>3
<1>2. f \in live \ {Root} /\ f \in Node /\ text[f] \in Text /\ text \in [Node -> Text]
  BY DEF Lookup, Kids, TypeOK
<1>3. CASE Truncate
  <2>1. pc = "write" /\ pc' = "flush" /\ text' = [text EXCEPT ![f] = Torn] /\ UNCHANGED <<buf, cur, at>>
    BY <1>1, <1>3 DEF Truncate, Write, walk
  <2>2. buf = Content(text[f]) /\ SeenText = text
    BY <2>1, SeenIs DEF WriteInv
  <2>3. Lookup(cur, at)' = {f}
    BY <1>1, <2>1 DEF Lookup, Kids
  <2>4. SeenText' = [text EXCEPT ![f] = buf]
    BY <1>2, <2>1, <2>3 DEF SeenText
  <2>5. Promise!RewriteFile(f)
    BY <1>1, <1>2, <2>2, <2>4, NewTextIsContent DEF Promise!RewriteFile
  <2> QED
    BY <1>2, <2>5 DEF Promise!Next
<1>4. CASE Flush
  <2>1. pc = "flush" /\ pc' = "loop" /\ text' = [text EXCEPT ![f] = buf]
    BY <1>1, <1>4 DEF Flush, Write
  <2>2. SeenText = text'
    BY <1>1, <2>1, SeenIs
  <2>3. SeenText' = text'
    BY <2>1 DEF SeenText, TypeOK
  <2> QED
    BY <2>2, <2>3
<1>5. CASE pc = "flush" /\ pc' \in Halted /\ UNCHANGED text
  <2>1. SeenText = [text EXCEPT ![f] = buf] /\ text[f] = Torn
    BY <1>1, <1>5, SeenIs DEF WriteInv
  <2>2. SeenText' = text
    BY <1>5 DEF SeenText, TypeOK, Halted
  <2>3. text = [SeenText EXCEPT ![f] = Torn]
    BY <1>2, <2>1
  <2>4. Promise!TearFile(f)
    BY <1>1, <2>2, <2>3 DEF Promise!TearFile
  <2> QED
    BY <1>2, <2>4 DEF Promise!Next
<1> QED
  BY <1>3, <1>4, <1>5

\* The walk does to each node, one at a time, only what RenamePromise allows: the step-by-step
\* refinement, for every tree, rule table and number of runs.
THEOREM RefinesPromise == Spec => KeepsPromise
<1>1. Init => Promise!Init
  BY DEF Init, Promise!Init
<1>2. TypeOK /\ TypeOK' /\ WalkInv /\ WriteInv /\ [Next]_vars => [Promise!Next]_<<name, SeenText, live>>
  <2> SUFFICES ASSUME TypeOK, TypeOK', WalkInv, WriteInv, [Next]_vars
               PROVE  Promise!Next \/ UNCHANGED <<name, SeenText, live>>
    OBVIOUS
  <2>1. CASE ReadBase \/ OpenDir \/ ReadFile \/ Return
    <3>1. UNCHANGED <<name, live, text>> /\ pc # "flush" /\ pc' # "flush"
      BY <2>1 DEF ReadBase, OpenDir, Enter, ReadFile, Return, disk
    <3> QED
      BY <3>1, PromiseStutter
  <2>2. CASE Truncate \/ Flush
    <3>1. UNCHANGED <<name, live>>
      BY <2>2 DEF Truncate, Flush, Write
    <3> QED
      BY <2>2, <3>1, PromiseWrite
  <2>3. ASSUME NEW e \in todo[cur], Skip(e) \/ KeepName(e) \/ RenameFails(e)
        PROVE  UNCHANGED <<name, SeenText, live>>
    <3>1. UNCHANGED <<name, live, text>> /\ pc = "loop" /\ pc' # "flush"
      BY <2>3 DEF Skip, KeepName, RenameFails, NextEntry, Proceed, Panic, disk
    <3> QED
      BY <3>1, PromiseStutter
  <2>4. ASSUME NEW e \in todo[cur], Rename(e) PROVE Promise!Next
    BY <2>4, PromiseRename DEF Promise!Next
  <2>5. CASE SystemError \/ Kill \/ Rerun
    <3>1. UNCHANGED <<name, live, text>> /\ pc' # "flush" /\ (pc = "flush" => pc' \in Halted)
      BY <2>5 DEF SystemError, Panic, Kill, Rerun, Halted, disk
    <3> QED
      BY <2>5, <3>1, PromiseStutter, PromiseWrite
  <2>6. CASE UNCHANGED vars
    BY <2>6 DEF vars, disk, walk, SeenText, Lookup, Kids
  <2> QED
    BY <2>1, <2>2, <2>3, <2>4, <2>5, <2>6 DEF Next, Step
<1>3. RunInv => WriteInv
  BY DEF RunInv
<1> QED
  BY <1>1, <1>2, <1>3, TypeCorrect, WalkSound, RunSound, PTL DEF Spec, KeepsPromise, Promise!Spec

-----------------------------------------------------------------------------
\* TornBound is inductive if what is about to be written is not torn itself.
TornFiles == {n \in live : text[n] = Torn}

TornInv ==
  /\ IsFiniteSet(TornFiles) /\ TornBound
  /\ pc \in {"write", "flush"} => buf # Torn

\* The bound itself, in terms of a number that is known to be one.
LEMMA TornCount ==
  ASSUME TornInv, runs \in Nat \ {0}
  PROVE  /\ Cardinality(TornFiles) \in Nat
         /\ Cardinality(TornFiles) <= IF pc \in {"flush", "panic", "killed"} THEN runs ELSE runs - 1
BY FS_CardinalityType DEF TornInv, TornBound, TornFiles

\* No file becomes torn while the contents stay and nodes are only lost.
LEMMA TornKept ==
  ASSUME TornInv, TypeOK, UNCHANGED text, live' \subseteq live,
         \/ runs' = runs /\ pc' \in {"panic", "killed"}
         \/ runs' = runs /\ pc \notin {"flush", "panic", "killed"}
         \/ runs' = runs + 1 /\ pc' = "base",
         pc' \notin {"flush", "write"} \/ buf' # Torn
  PROVE  TornInv'
<1> DEFINE c == Cardinality(TornFiles)
           d == Cardinality(TornFiles')
<1>1. runs \in Nat \ {0}
  BY RuleAssumption DEF TypeOK
<1>2. c \in Nat /\ c <= IF pc \in {"flush", "panic", "killed"} THEN runs ELSE runs - 1
  BY <1>1, TornCount
<1>3. TornFiles' \in SUBSET TornFiles
  BY DEF TornFiles
<1>4. IsFiniteSet(TornFiles') /\ d <= c /\ d \in Nat
  <2>1. IsFiniteSet(TornFiles)
    BY DEF TornInv
  <2> QED
    BY <1>3, <2>1, FS_Subset, FS_CardinalityType
<1>5. d <= IF pc' \in {"flush", "panic", "killed"} THEN runs' ELSE runs' - 1
  <2> HIDE DEF c, d
  <2>1. CASE runs' = runs /\ pc' \in {"panic", "killed"}
    BY <1>1, <1>2, <1>4, <2>1
  <2>2. CASE runs' = runs /\ pc \notin {"flush", "panic", "killed"}
    BY <1>1, <1>2, <1>4, <2>2
  <2>3. CASE runs' = runs + 1 /\ pc' = "base"
    BY <1>1, <1>2, <1>4, <2>3
  <2> QED
    BY <2>1, <2>2, <2>3
<1> QED
  BY <1>4, <1>5 DEF TornInv, TornBound, TornFiles

\* Truncate tears the file at hand, Flush mends it.
LEMMA TornWrite ==
  ASSUME TornInv, TypeOK, TypeOK', WalkInv, WriteInv, Truncate \/ Flush
  PROVE  TornInv'
<1> DEFINE c == Cardinality(TornFiles)
           d == Cardinality(TornFiles')
<1>1. runs \in Nat \ {0} /\ pc \in {"write", "flush"} /\ live \subseteq Node /\ text \in [Node -> Text]
      /\ UNCHANGED <<runs, live, buf>> /\ buf # Torn
  BY RuleAssumption DEF TypeOK, Truncate, Flush, Write, TornInv
<1>2. IsFiniteSet(TornFiles) /\ c \in Nat /\ c <= IF pc = "flush" THEN runs ELSE runs - 1
  <2>1. c \in Nat /\ c <= IF pc \in {"flush", "panic", "killed"} THEN runs ELSE runs - 1
    BY <1>1, TornCount
  <2> HIDE DEF c
  <2> QED
    BY <1>1, <2>1 DEF TornInv
<1>3. CASE Truncate
  <2>1. PICK f \in Lookup(cur, at) : text' = [text EXCEPT ![f] = Torn]
    BY <1>3 DEF Truncate, Write
  <2>2. f \in live /\ f \in Node /\ pc = "write" /\ pc' = "flush"
    BY <1>1, <1>3, <2>1 DEF Truncate, Write, Lookup, Kids
  <2>3. TornFiles' = TornFiles \union {f}
    BY <1>1, <2>1, <2>2 DEF TornFiles
  <2>4. IsFiniteSet(TornFiles') /\ d <= c + 1
    <3>1. IsFiniteSet(TornFiles \union {f})
          /\ Cardinality(TornFiles \union {f}) = IF f \in TornFiles THEN c ELSE c + 1
      BY <1>2, FS_AddElement
    <3> QED
      BY <1>2, <2>3, <3>1
  <2>5. d \in Nat
    BY <2>4, FS_CardinalityType
  <2>6. d <= runs'
    <3> HIDE DEF c, d
    <3> QED
      BY <1>1, <1>2, <2>2, <2>4, <2>5
  <2> QED
    BY <1>1, <2>2, <2>4, <2>6 DEF TornInv, TornBound, TornFiles
<1>4. CASE Flush
  <2>1. PICK f \in Lookup(cur, at) : text' = [text EXCEPT ![f] = buf]
    BY <1>4 DEF Flush, Write
  <2>2. f \in live /\ f \in Node /\ pc = "flush" /\ pc' = "loop"
    BY <1>1, <1>4, <2>1 DEF Flush, Write, Lookup, Kids
  <2>3. text[f] = Torn
    BY <2>1, <2>2 DEF WriteInv
  <2>4. f \in TornFiles /\ TornFiles' = TornFiles \ {f}
    BY <1>1, <2>1, <2>2, <2>3 DEF TornFiles
  <2>5. IsFiniteSet(TornFiles') /\ d = c - 1
    <3>1. IsFiniteSet(TornFiles \ {f})
          /\ Cardinality(TornFiles \ {f}) = IF f \in TornFiles THEN c - 1 ELSE c
      BY <1>2, FS_RemoveElement
    <3> QED
      BY <2>4, <3>1
  <2>6. d <= runs' - 1
    <3> HIDE DEF c, d
    <3> QED
      BY <1>1, <1>2, <2>2, <2>5
  <2> QED
    BY <1>1, <2>2, <2>5, <2>6 DEF TornInv, TornBound, TornFiles
<1> QED
  BY <1>3, <1>4

\* A run leaves at most one file torn, and only if it ends between truncating and writing it.
THEOREM TornBounded == Spec => []TornBound
<1>1. Init => TornInv
  <2> SUFFICES ASSUME Init PROVE TornInv
    OBVIOUS
  <2>1. TornFiles = {} /\ pc = "base" /\ runs = 1
    BY TornAssumption DEF Init, TornFiles
  <2> QED
    BY <2>1, FS_EmptySet DEF TornInv, TornBound, TornFiles
<1>2. TypeOK /\ TypeOK' /\ WalkInv /\ WriteInv /\ TornInv /\ [Next]_vars => TornInv'
  <2> SUFFICES ASSUME TypeOK, TypeOK', WalkInv, WriteInv, TornInv, [Next]_vars PROVE TornInv'
    OBVIOUS
  <2>1. CASE ReadFile
    <3>1. PICK g \in Lookup(cur, at) : buf' = Rewrite(text[g]).txt
                                    /\ pc' = IF Rewrite(text[g]).change THEN "write" ELSE "loop"
      BY <2>1 DEF ReadFile
    <3>2. text[g] \in Text
      BY DEF TypeOK, Lookup, Kids
    <3>3. Rewrite(text[g]).change => text[g] # Torn
      <4>1. Rewrite(Torn) = [txt |-> Torn, change |-> FALSE]
        BY RewriteIdle, RuleAssumption
      <4> QED
        BY <4>1
    <3>4. pc' = "write" => buf' # Torn
      BY <3>1, <3>2, <3>3, RewriteNotTorn, TornAssumption DEF Content
    <3>5. pc = "read" /\ pc' \in {"write", "loop"} /\ UNCHANGED <<text, live, runs>>
      BY <2>1, <3>1 DEF ReadFile, disk
    <3> QED
      BY <3>4, <3>5, TornKept
  <2>2. CASE Truncate \/ Flush
    BY <2>2, TornWrite
  <2>3. CASE ReadBase \/ OpenDir \/ Return
    <3>1. pc \in {"base", "open", "loop"} /\ pc' \in {"loop", "done"} /\ UNCHANGED <<text, live, runs>>
      BY <2>3 DEF ReadBase, OpenDir, Enter, Return, disk
    <3> QED
      BY <3>1, TornKept
  <2>4. ASSUME NEW e \in todo[cur], Skip(e) \/ KeepName(e) \/ Rename(e) PROVE TornInv'
    <3>1. pc = "loop" /\ pc' \in {"loop", "open", "read"} /\ UNCHANGED <<text, runs>> /\ live' \subseteq live
      BY <2>4 DEF Skip, KeepName, Rename, NextEntry, Proceed, disk
    <3> QED
      BY <3>1, TornKept
  <2>5. ASSUME NEW e \in todo[cur], RenameFails(e) PROVE TornInv'
    BY <2>5, TornKept DEF RenameFails, Panic, disk
  <2>6. CASE SystemError \/ Kill \/ Rerun
    BY <2>6, TornKept DEF SystemError, Panic, Kill, Rerun, disk
  <2>7. CASE UNCHANGED vars
    BY <2>7 DEF vars, disk, TornInv, TornBound, TornFiles
  <2> QED
    BY <2>1, <2>2, <2>3, <2>4, <2>5, <2>6, <2>7 DEF Next, Step
<1>3. RunInv => WriteInv
  BY DEF RunInv
<1>4. TornInv => TornBound
  BY DEF TornInv
<1> QED
  BY <1>1, <1>2, <1>3, <1>4, TypeCorrect, WalkSound, RunSound, PTL DEF Spec
=============================================================================
