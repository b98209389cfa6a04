--------------------------- MODULE PromisesProofs ---------------------------
(*****************************************************************************)
(* Proofs about Promises, for every value of its constants.  First about     *)
(* Deferred, for every number of callbacks.                                  *)
(*                                                                           *)
(* The two lists are tied by nothing but the first callback of each, so      *)
(* the inductive invariant follows it: it is in its list until that list     *)
(* fires, it is called before any other callback, and once it was called     *)
(* the other list is empty and stays so.                                     *)
(*                                                                           *)
(* Then about what is built from deferreds, for every number of arguments    *)
(* and every length of a chain: WhenInv counts the arguments that when       *)
(* still waits for, ChainInv follows the one outcome down the chain.         *)
(*                                                                           *)
(* Then about an element that is shown and hidden by any calls: ShowInv      *)
(* says which displays it may have, who will take what waits from the        *)
(* queue, what animations keep of the styles they move, and to what the      *)
(* calls that wait will lead.  And about the data of nodes, by the theorems  *)
(* of NodeDataProofs.                                                        *)
(*****************************************************************************)
EXTENDS Promises, FiniteSetTheorems, SequenceTheorems, WellFoundedInduction, TLAPS

\* What is added behind a list that is not empty leaves its head alone.
LEMMA ConcatHeadTail ==
  ASSUME NEW S, NEW q \in Seq(S), NEW r \in Seq(S), q # <<>>
  PROVE  /\ q \o r \in Seq(S) /\ q \o r # <<>>
         /\ Head(q \o r) = Head(q)
         /\ Tail(q \o r) = Tail(q) \o r
<1>1. q \o r \in Seq(S) /\ Len(q) \in Nat \ {0} /\ Len(r) \in Nat /\ Len(q \o r) = Len(q) + Len(r)
  BY EmptySeq, LenProperties, ConcatProperties
<1>2. q \o r # <<>> /\ Head(q \o r) = Head(q)
  BY <1>1
<1>3. Tail(q) \in Seq(S) /\ Len(Tail(q)) = Len(q) - 1
  BY HeadTailProperties
<1>4. Tail(q) \o r \in Seq(S) /\ Tail(q \o r) \in Seq(S)
  BY <1>1, <1>2, <1>3, ConcatProperties, HeadTailProperties
<1>5. Len(Tail(q \o r)) = Len(Tail(q) \o r)
  BY <1>1, <1>2, <1>3, <1>4
<1>6. ASSUME NEW i \in 1..Len(Tail(q \o r)) PROVE Tail(q \o r)[i] = (Tail(q) \o r)[i]
  BY <1>1, <1>2, <1>3, <1>4
<1> QED
  BY <1>1, <1>2, <1>4, <1>5, <1>6, SeqEqual

\* Moving the head of a list to the end of another leaves their concatenation.
LEMMA MoveHead ==
  ASSUME NEW S, NEW c \in Seq(S), NEW q \in Seq(S), q # <<>>
  PROVE  Append(c, Head(q)) \o Tail(q) = c \o q
<1>1. /\ Len(q) \in Nat \ {0} /\ Len(c) \in Nat /\ Head(q) \in S /\ Tail(q) \in Seq(S)
      /\ Len(Tail(q)) = Len(q) - 1
  BY EmptySeq, LenProperties, HeadTailProperties
<1>2. Append(c, Head(q)) \in Seq(S) /\ c \o q \in Seq(S)
  BY <1>1, ConcatProperties
<1>3. Append(c, Head(q)) \o Tail(q) \in Seq(S)
  BY <1>1, <1>2, ConcatProperties
<1>4. Len(Append(c, Head(q)) \o Tail(q)) = Len(c \o q)
  BY <1>1, <1>2
<1>5. ASSUME NEW i \in 1..Len(c \o q) PROVE (Append(c, Head(q)) \o Tail(q))[i] = (c \o q)[i]
  BY <1>1, <1>2, <1>3
<1> QED
  BY <1>2, <1>3, <1>4, <1>5, SeqEqual

\* What is put behind a sequence leaves it a prefix.
LEMMA PrefixOfConcat ==
  ASSUME NEW S, NEW q \in Seq(S), NEW r \in Seq(S)
  PROVE  Abstract!IsPrefix(q, q \o r)
<1>1. Len(q) \in Nat /\ Len(r) \in Nat /\ Len(q \o r) = Len(q) + Len(r) /\ q \o r \in Seq(S)
  BY ConcatProperties, LenProperties
<1>2. SubSeq(q, 1, Len(q)) = q
  BY SubSeqFull
<1>3. SubSeq(q \o r, 1, Len(q)) = q
  <2>1. CASE Len(q) = 0
    BY <1>1, <2>1, SubSeqEmpty, EmptySeq
  <2>2. CASE Len(q) > 0
    BY <1>1, <1>2, <2>2, SubSeqOfConcat1
  <2> QED
    BY <1>1, <2>1, <2>2
<1> QED
  BY <1>1, <1>2, <1>3 DEF Abstract!IsPrefix

\* The callbacks of a list, when more are added behind them.
LEMMA UsersConcat ==
  ASSUME NEW q \in Seq(0..MaxAdded), NEW r \in Seq(1..MaxAdded), Users(q) \in Seq(1..MaxAdded)
  PROVE  /\ Users(q \o r) = Users(q) \o r /\ Users(q) \o r \in Seq(1..MaxAdded)
         /\ q \o r \in Seq(0..MaxAdded)
         /\ (q \o r # <<>> /\ Head(q \o r) = Cancel) <=> (q # <<>> /\ Head(q) = Cancel)
<1>1. r \in Seq(0..MaxAdded)
  <2>1. 1..MaxAdded \subseteq 0..MaxAdded
    BY BoundAssumption
  <2> QED
    BY <2>1, SeqMonotonic
<1>2. CASE q # <<>>
  <2>1. q \o r \in Seq(0..MaxAdded) /\ q \o r # <<>>
    BY <1>1, <1>2, ConcatProperties
  <2>2. Head(q \o r) = Head(q) /\ Tail(q \o r) = Tail(q) \o r
    BY <1>1, <1>2, ConcatHeadTail
  <2>3. Users(q \o r) = Users(q) \o r
    BY <1>2, <2>1, <2>2 DEF Users
  <2>4. Users(q) \o r \in Seq(1..MaxAdded)
    BY ConcatProperties
  <2> QED
    BY <1>2, <2>1, <2>2, <2>3, <2>4
<1>3. CASE q = <<>>
  <2>1. q \o r = r
    BY <1>1, <1>3, ConcatEmptySeq
  <2>2. CASE r = <<>>
    BY <1>1, <1>3, <2>1, <2>2 DEF Users
  <2>3. CASE r # <<>>
    <3>1. Head(r) \in 1..MaxAdded
      BY <2>3, HeadTailProperties
    <3>2. Head(r) # Cancel
      BY <3>1, BoundAssumption DEF Cancel
    <3> QED
      BY <1>1, <1>3, <2>1, <2>3, <3>2 DEF Users
  <2> QED
    BY <2>2, <2>3
<1> QED
  BY <1>2, <1>3

-----------------------------------------------------------------------------
\* The list still has cancel in front.
Pristine(l) == callbacks[l] # <<>> /\ Head(callbacks[l]) = Cancel

\* The stack holds the list that fires, if one does.
Stacked ==
  /\ stack = <<>> \/ \E l \in List : stack = <<l>>
  /\ \A l \in List : firing[l] <=> stack = <<l>>
  /\ control = "loop" => stack # <<>>

\* Where cancel is, and what it has done.
Tied(l) ==
  /\ Users(callbacks[l]) \in Seq(1..MaxAdded)
  /\ fired[l] => ~firing[l]
  /\ ~Settled(l) /\ ~cancelled[l] => Pristine(l)
  /\ Settled(l) /\ Pristine(l) => firing[l] /\ control = "loop"
  /\ cancelled[l] <=> (Settled(Other(l)) /\ ~Pristine(Other(l)))
  /\ cancelled[l] => callbacks[l] = <<>>
  /\ Settled(l) => ~Settled(Other(l))
  /\ called[l] # <<>> => Settled(l) /\ ~Pristine(l)

Inv == TypeOK /\ Stacked /\ \A l \in List : Tied(l)

LEMMA Lists == \A l \in List : Other(l) \in List /\ Other(l) # l /\ Other(Other(l)) = l /\ \A k \in List : k = l \/ k = Other(l)
BY DEF List, Other

LEMMA TopOfOne == \A l : stack = <<l>> => Top = l /\ Below = <<>> /\ Append(<<>>, l) = <<l>>
<1> SUFFICES ASSUME NEW l, stack = <<l>> PROVE Top = l /\ Below = <<>> /\ Append(<<>>, l) = <<l>>
  OBVIOUS
<1>1. Len(stack) = 1 /\ Top = l
  BY DEF Top
<1>2. Below = <<>>
  BY <1>1, SubSeqEmpty DEF Below
<1> QED
  BY <1>1, <1>2

\* A list of callbacks the users added does not hold cancel.
LEMMA NoCancel ==
  ASSUME NEW q \in Seq(1..MaxAdded)
  PROVE  Users(q) = q /\ ~(q # <<>> /\ Head(q) = Cancel)
<1>1. q # <<>> => Head(q) \in 1..MaxAdded
  BY HeadTailProperties
<1>2. q # <<>> => Head(q) # Cancel
  BY <1>1, BoundAssumption DEF Cancel
<1> QED
  BY <1>2 DEF Users

LEMMA InitInv == Init => Inv
<1> SUFFICES ASSUME Init PROVE Inv
  OBVIOUS
<1>1. <<Cancel>> \in Seq(0..MaxAdded) /\ <<Cancel>> # <<>> /\ Head(<<Cancel>>) = Cancel
  BY BoundAssumption DEF Cancel
<1>2. Tail(<<Cancel>>) = <<>>
  OBVIOUS
<1>3. \A l \in List : <<>> \in Seq(1..MaxAdded) /\ Users(<<Cancel>>) = <<>> /\ stack # <<l>>
  BY <1>1, <1>2 DEF Users, Init
<1>4. TypeOK
  BY <1>1, BoundAssumption DEF Init, TypeOK, List
<1>5. Stacked
  BY <1>3 DEF Init, Stacked
<1>6. ASSUME NEW l \in List PROVE Tied(l)
  BY <1>1, <1>3, Lists DEF Init, Tied, Pristine, Settled
<1> QED
  BY <1>4, <1>5, <1>6 DEF Inv

\* The sequence of new callbacks that Add puts on the lists.
LEMMA NewCallbacks ==
  ASSUME n \in Nat, NEW k \in Nat, n + k <= MaxAdded
  PROVE  [i \in 1..k |-> n + i] \in Seq(1..MaxAdded)
<1> DEFINE e(i) == n + i
<1>1. \A i \in 1..k : e(i) \in 1..MaxAdded
  BY BoundAssumption
<1> HIDE DEF e
<1>2. [i \in 1..k |-> e(i)] \in Seq(1..MaxAdded)
  BY <1>1, IsASeq
<1> QED
  BY <1>2 DEF e

LEMMA AddInv ==
  ASSUME Inv, NEW ls \in SUBSET List, NEW k \in 1..2, Add(ls, k)
  PROVE  Inv'
<1> DEFINE new == [i \in 1..k |-> n + i]
           grows(l) == l \in ls /\ ~cancelled[l]
<1> USE DEF Inv
<1>0. new \in Seq(1..MaxAdded)
  <2>1. n \in Nat /\ k \in Nat /\ n + k <= MaxAdded
    BY BoundAssumption DEF Add, TypeOK
  <2> QED
    BY <2>1, NewCallbacks
<1>1. \A l \in List : callbacks'[l] = IF grows(l) THEN callbacks[l] \o new ELSE callbacks[l]
  BY DEF Add
<1>2. \A l \in List : added'[l] = IF grows(l) THEN added[l] \o new ELSE added[l]
  BY DEF Add
<1> HIDE DEF new
<1>3. \A l \in List : grows(l) =>
        /\ Users(callbacks[l] \o new) = Users(callbacks[l]) \o new
        /\ Users(callbacks[l]) \o new \in Seq(1..MaxAdded)
        /\ callbacks[l] \o new \in Seq(0..MaxAdded)
        /\ (callbacks[l] \o new # <<>> /\ Head(callbacks[l] \o new) = Cancel) <=> Pristine(l)
  BY <1>0, UsersConcat DEF TypeOK, Tied, Pristine
<1>4. TypeOK'
  <2>1. callbacks' \in [List -> Seq(0..MaxAdded)]
    BY <1>1, <1>3 DEF Add, TypeOK
  <2>2. added' \in [List -> Seq(1..MaxAdded)]
    BY <1>0, <1>2, ConcatProperties DEF Add, TypeOK
  <2>3. stack' \in Seq(List)
    <3>1. \A l \in List : Append(stack, l) \in Seq(List)
      BY AppendProperties DEF TypeOK
    <3>2. stack' = stack \/ \E l \in List : stack' = Append(stack, l)
      BY DEF Add, Fire
    <3>3. stack \in Seq(List)
      BY DEF TypeOK
    <3> QED
      BY <3>1, <3>2, <3>3
  <2>4. n' \in 0..MaxAdded
    BY BoundAssumption DEF Add, TypeOK
  <2> QED
    BY <2>1, <2>2, <2>3, <2>4 DEF Add, Fire, TypeOK
<1>5. \A l \in List : Pristine(l)' = Pristine(l)
  BY <1>1, <1>3 DEF Pristine
<1>6. \A l \in List : Users(callbacks'[l]) \in Seq(1..MaxAdded)
  BY <1>1, <1>3 DEF Tied
<1>7. \A l \in List : Settled(l)' = Settled(l) /\ cancelled'[l] = cancelled[l] /\ called'[l] = called[l]
  BY DEF Settled, Add, Fire, TypeOK
<1>8. Stacked' /\ \A l \in List : (fired'[l] => ~firing'[l]) /\ (Settled(l) /\ Pristine(l) => firing'[l] /\ control' = "loop")
  <2>1. CASE UNCHANGED <<fired, firing, stack, control>>
    BY <2>1 DEF Stacked, Tied
  <2>2. ASSUME NEW l \in ls, fired[l], ~cancelled[l], fired' = [fired EXCEPT ![l] = FALSE], Fire(l)
        PROVE Stacked' /\ \A m \in List : (fired'[m] => ~firing'[m]) /\ (Settled(m) /\ Pristine(m) => firing'[m] /\ control' = "loop")
    <3>1. l \in List /\ Settled(l) /\ ~firing[l] /\ ~Settled(Other(l)) /\ control = "user"
      BY <2>2 DEF Settled, Tied, Add
    <3>2. stack = <<>>
      BY <3>1, Lists DEF Stacked, Settled
    <3>3. stack' = <<l>> /\ control' = "loop" /\ firing' = [firing EXCEPT ![l] = TRUE]
      BY <2>2, <3>2 DEF Fire
    <3>4. Stacked'
      BY <3>1, <3>2, <3>3 DEF Stacked, TypeOK
    <3> QED
      BY <2>2, <3>1, <3>3, <3>4, Lists DEF TypeOK, Tied, Settled
  <2> QED
    BY <2>1, <2>2 DEF Add
<1>9. ASSUME NEW l \in List PROVE Tied(l)'
  <2>1. cancelled[l] => callbacks'[l] = <<>>
    BY <1>1 DEF Tied
  <2> QED
    BY <1>5, <1>6, <1>7, <1>8, <2>1, Lists DEF Tied
<1> QED
  BY <1>4, <1>8, <1>9

LEMMA SettleInv ==
  ASSUME Inv, NEW l \in List, Settle(l)
  PROVE  Inv'
<1> USE DEF Inv
<1>1. ~Settled(l) /\ ~cancelled[l] /\ Pristine(l) /\ control = "user"
  BY DEF Settle, CanFire, Settled, Tied
<1>2. ~Settled(Other(l)) /\ ~firing[Other(l)]
  BY <1>1, Lists DEF Tied, Settled
<1>3. stack = <<>>
  BY <1>1, <1>2, Lists DEF Stacked, Settled
<1>4. stack' = <<l>> /\ control' = "loop" /\ firing' = [firing EXCEPT ![l] = TRUE]
  BY <1>3 DEF Settle, Fire
<1>5. TypeOK'
  BY <1>4 DEF Settle, TypeOK
<1>6. Stacked'
  BY <1>2, <1>3, <1>4, Lists DEF Stacked, TypeOK
<1>7. \A m \in List : Settled(m)' = (m = l \/ Settled(m)) /\ Pristine(m)' = Pristine(m)
  BY <1>4 DEF Settle, Settled, Pristine, TypeOK
<1>8. \A m \in List : Tied(m)'
  BY <1>1, <1>2, <1>4, <1>7, Lists DEF Settle, Tied, Settled, TypeOK
<1> QED
  BY <1>5, <1>6, <1>8

\* The list whose loop goes on, and the one it excludes.
LEMMA OnTop ==
  ASSUME Inv, stack # <<>>
  PROVE  Top \in List /\ firing[Top] /\ ~fired[Top] /\ Settled(Top) /\ stack = <<Top>> /\ Below = <<>>
         /\ ~Settled(Other(Top)) /\ ~firing[Other(Top)] /\ ~cancelled[Top]
<1>1. PICK l \in List : stack = <<l>>
  BY DEF Inv, Stacked
<1>2. Top = l /\ Below = <<>>
  BY <1>1, TopOfOne
<1>3. firing[l] /\ Settled(l) /\ ~Settled(Other(l))
  BY <1>1, Lists DEF Inv, Stacked, Tied, Settled
<1> QED
  BY <1>1, <1>2, <1>3, Lists DEF Inv, Tied, Settled

LEMMA CancelOtherInv ==
  ASSUME Inv, CancelOther
  PROVE  Inv'
<1>a. PICK t \in List : t = Top
  BY OnTop DEF CancelOther, Inv, Stacked
<1>b. PICK u \in List : u = Other(t) /\ t = Other(u) /\ t # u /\ List = {t, u}
  BY Lists
<1>0. firing[t] /\ ~fired[t] /\ Settled(t) /\ ~Settled(u) /\ ~cancelled[t] /\ Pristine(t)
  BY <1>a, <1>b, OnTop DEF CancelOther, Pristine, Inv, Stacked
<1> USE DEF Inv
<1>1. Tail(callbacks[t]) \in Seq(0..MaxAdded) /\ Tail(callbacks[t]) = Users(callbacks[t])
  BY <1>0, HeadTailProperties DEF Users, Pristine, TypeOK
<1>2. /\ callbacks'[t] = Users(callbacks[t]) /\ callbacks'[u] = <<>>
      /\ cancelled'[t] = cancelled[t] /\ cancelled'[u] = TRUE
      /\ UNCHANGED <<fired, firing, stack, control, n, added, called, thrown>>
  BY <1>0, <1>1, <1>a, <1>b DEF CancelOther, TypeOK
<1>3. TypeOK'
  <2>1. <<>> \in Seq(0..MaxAdded)
    OBVIOUS
  <2>2. callbacks' \in [List -> Seq(0..MaxAdded)]
    BY <1>a, <1>b, <1>0, <1>1, <2>1 DEF CancelOther, TypeOK
  <2> QED
    BY <1>a, <1>b, <1>2, <2>2 DEF TypeOK, CancelOther
<1>4. Stacked'
  BY <1>2 DEF Stacked
<1>5. \A q \in Seq(1..MaxAdded) : Users(q) = q /\ ~(q # <<>> /\ Head(q) = Cancel)
  BY NoCancel
<1>6. /\ ~Pristine(t)' /\ ~Pristine(u)'
      /\ Users(callbacks'[t]) \in Seq(1..MaxAdded) /\ Users(callbacks'[u]) \in Seq(1..MaxAdded)
  <2>1. Users(callbacks[t]) \in Seq(1..MaxAdded) /\ <<>> \in Seq(1..MaxAdded)
    BY <1>0, <1>b DEF Tied
  <2> QED
    BY <1>2, <1>5, <2>1 DEF Pristine
<1>7. Settled(t)' /\ ~Settled(u)' /\ ~fired'[t] /\ called'[u] = <<>>
  BY <1>0, <1>2, <1>b DEF Settled, Tied
<1>8. Tied(t)' /\ Tied(u)'
  BY <1>0, <1>2, <1>6, <1>7, <1>b DEF Tied, Settled
<1> QED
  BY <1>0, <1>3, <1>4, <1>8, <1>b

LEMMA CallNextInv ==
  ASSUME Inv, CallNext
  PROVE  Inv'
<1>a. PICK t \in List : t = Top
  BY OnTop DEF CallNext, Inv, Stacked
<1>b. PICK u \in List : u = Other(t) /\ t = Other(u) /\ t # u /\ List = {t, u}
  BY Lists
<1>0. /\ firing[t] /\ ~fired[t] /\ Settled(t) /\ ~Settled(u) /\ ~cancelled[t] /\ ~Pristine(t)
      /\ callbacks[t] # <<>> /\ Head(callbacks[t]) # Cancel
  BY <1>a, <1>b, OnTop DEF CallNext, Pristine, Inv, Stacked
<1> USE DEF Inv
<1>1. /\ callbacks[t] \in Seq(1..MaxAdded) /\ Users(callbacks[t]) = callbacks[t]
      /\ Tail(callbacks[t]) \in Seq(1..MaxAdded) /\ Head(callbacks[t]) \in 1..MaxAdded
      /\ Tail(callbacks[t]) \in Seq(0..MaxAdded)
  <2>1. callbacks[t] \in Seq(1..MaxAdded) /\ Users(callbacks[t]) = callbacks[t]
    BY <1>0 DEF Users, Tied
  <2> QED
    BY <1>0, <2>1, HeadTailProperties DEF TypeOK
<1>2. /\ callbacks'[t] = Tail(callbacks[t]) /\ callbacks'[u] = callbacks[u]
      /\ called'[t] = Append(called[t], Head(callbacks[t])) /\ called'[u] = called[u]
      /\ control' = "user" /\ UNCHANGED <<fired, firing, cancelled, stack, n, added, thrown>>
  BY <1>a, <1>b DEF CallNext, TypeOK
<1>3. TypeOK'
  <2>1. callbacks' \in [List -> Seq(0..MaxAdded)]
    BY <1>a, <1>1 DEF CallNext, TypeOK
  <2>2. called' \in [List -> Seq(1..MaxAdded)]
    BY <1>a, <1>1, AppendProperties DEF CallNext, TypeOK
  <2> QED
    BY <1>2, <2>1, <2>2 DEF TypeOK
<1>4. Stacked'
  BY <1>2 DEF Stacked
<1>5. /\ ~Pristine(t)' /\ Pristine(u)' = Pristine(u)
      /\ Users(callbacks'[t]) \in Seq(1..MaxAdded) /\ Users(callbacks'[u]) \in Seq(1..MaxAdded)
  BY <1>1, <1>2, NoCancel DEF Pristine, Tied
<1>6. Settled(t)' /\ ~Settled(u)' /\ called'[u] = <<>>
  BY <1>0, <1>2, <1>b DEF Settled, Tied
<1>7. Tied(t)' /\ Tied(u)'
  BY <1>0, <1>2, <1>5, <1>6, <1>b DEF Tied, Settled
<1> QED
  BY <1>3, <1>4, <1>7, <1>b

LEMMA ReturnInv ==
  ASSUME Inv, Return
  PROVE  Inv'
<1>1. TypeOK' /\ Stacked' /\ \A l \in List : Pristine(l)' = Pristine(l) /\ Settled(l)' = Settled(l)
  BY DEF Inv, Return, TypeOK, Stacked, Pristine, Settled, lists
<1>2. control = "user" /\ UNCHANGED <<callbacks, fired, firing, cancelled, called>>
  BY DEF Return, lists
<1> QED
  BY <1>1, <1>2, Lists DEF Inv, Tied

LEMMA LeaveInv ==
  ASSUME Inv, NEW b \in BOOLEAN, Leave(b), stack # <<>>, ~Pristine(Top)
  PROVE  Inv'
<1>a. PICK t \in List : t = Top
  BY OnTop
<1>b. PICK u \in List : u = Other(t) /\ t = Other(u) /\ t # u /\ List = {t, u}
  BY Lists
<1>0. firing[t] /\ ~fired[t] /\ Settled(t) /\ ~Settled(u) /\ ~firing[u] /\ stack' = <<>> /\ ~Pristine(t)
  BY <1>a, <1>b, OnTop DEF Leave
<1> USE DEF Inv
<1>1. /\ fired'[t] /\ ~firing'[t] /\ fired'[u] = fired[u] /\ firing'[u] = firing[u]
      /\ control' = "user" /\ UNCHANGED <<callbacks, cancelled, n, added, called>>
  BY <1>a, <1>b DEF Leave, TypeOK
<1>2. TypeOK'
  BY <1>a, <1>0 DEF Leave, TypeOK
<1>3. Stacked'
  BY <1>0, <1>1, <1>b DEF Stacked
<1>4. /\ Settled(t)' /\ ~Settled(u)' /\ Pristine(t)' = Pristine(t) /\ Pristine(u)' = Pristine(u)
  BY <1>0, <1>1 DEF Settled, Pristine
<1>5. Tied(t)' /\ Tied(u)'
  BY <1>0, <1>1, <1>4, <1>b DEF Tied, Settled
<1> QED
  BY <1>2, <1>3, <1>5, <1>b

LEMMA Finish ==
  ASSUME Inv, Throw \/ EndLoop
  PROVE  /\ Inv' /\ stack # <<>> /\ ~Pristine(Top)
         /\ \E b \in BOOLEAN : Leave(b) /\ (~b => callbacks[Top] = <<>>)
<1>1. CASE Throw
  <2>1. stack # <<>> /\ ~Pristine(Top)
    BY <1>1, OnTop DEF Throw, Inv, Tied
  <2> QED
    BY <1>1, <2>1, LeaveInv DEF Throw
<1>2. CASE EndLoop
  <2>1. stack # <<>> /\ ~Pristine(Top)
    BY <1>2 DEF EndLoop, Inv, Stacked, Pristine
  <2> QED
    BY <1>2, <2>1, LeaveInv DEF EndLoop
<1> QED
  BY <1>1, <1>2

LEMMA NextInv == Inv /\ [Next]_vars => Inv'
<1> SUFFICES ASSUME Inv, [Next]_vars PROVE Inv'
  OBVIOUS
<1>1. CASE User
  BY <1>1, AddInv, SettleInv DEF User
<1>2. CASE Engine
  BY <1>2, CancelOtherInv, CallNextInv, ReturnInv, Finish DEF Engine
<1>3. CASE UNCHANGED vars
  BY <1>3 DEF Inv, TypeOK, Stacked, Tied, Pristine, Settled, vars, lists
<1> QED
  BY <1>1, <1>2, <1>3 DEF Next

LEMMA Inductive == Spec => []Inv
BY InitInv, NextInv, PTL DEF Spec

-----------------------------------------------------------------------------
\* The types hold for every number of callbacks.
THEOREM TypeCorrect == Spec => []TypeOK
BY Inductive, PTL DEF Inv

\* A deferred is resolved or rejected, never both, and the callbacks of one list
\* only are called (the tie of the two lists, 1087).
THEOREM ExclusiveHolds == Spec => []Exclusive
<1>1. Inv => Exclusive
  BY Lists DEF Inv, Exclusive, Tied, List
<1> QED
  BY <1>1, Inductive, PTL

\* A list never fires inside itself or inside the other (resolveWith, 989).
THEOREM NeverNestedHolds == Spec => []NeverNested
<1>1. Inv => NeverNested
  BY DEF Inv, Stacked, NeverNested
<1> QED
  BY <1>1, Inductive, PTL

\* What isResolved and isRejected said once they say for ever (done, 967-970).
THEOREM SettledForEver == Spec => StaysSettled
<1>1. Inv /\ [Next]_vars => \A l \in List : Settled(l) => Settled(l)'
  <2> SUFFICES ASSUME Inv, [Next]_vars, NEW l \in List, Settled(l) PROVE Settled(l)'
    OBVIOUS
  <2>1. ASSUME NEW ls \in SUBSET List, NEW k \in 1..2, Add(ls, k) PROVE Settled(l)'
    BY <2>1 DEF Add, Fire, Settled, Inv, TypeOK
  <2>2. ASSUME NEW m \in List, Settle(m) PROVE Settled(l)'
    BY <2>2 DEF Settle, Fire, Settled, Inv, TypeOK
  <2>3. CASE CancelOther \/ CallNext \/ Return \/ UNCHANGED vars
    BY <2>3 DEF CancelOther, CallNext, Return, vars, lists, Settled
  <2>4. CASE Throw \/ EndLoop
    <3> PICK b \in BOOLEAN : Leave(b) /\ stack # <<>>
      BY <2>4, Finish
    <3> QED
      BY OnTop DEF Leave, Settled, Inv, TypeOK
  <2> QED
    BY <2>1, <2>2, <2>3, <2>4 DEF Next, User, Engine
<1> QED
  BY <1>1, Inductive, PTL DEF Spec, StaysSettled

-----------------------------------------------------------------------------
LEMMA NothingLostInit == Init => NothingLost
<1> SUFFICES ASSUME Init PROVE NothingLost
  OBVIOUS
<1>1. Users(<<Cancel>>) = <<>> /\ <<>> \o <<>> = <<>>
  BY DEF Users
<1> QED
  BY <1>1 DEF Init, NothingLost

LEMMA NothingLostStep == Inv /\ NothingLost /\ [Next]_vars => NothingLost'
<1> SUFFICES ASSUME Inv, NothingLost, [Next]_vars, NEW l \in List, ~cancelled'[l]
             PROVE  called'[l] \o Users(callbacks'[l]) = added'[l]
  BY DEF NothingLost
<1> USE DEF Inv
<1>1. ASSUME NEW ls \in SUBSET List, NEW k \in 1..2, Add(ls, k)
      PROVE  called'[l] \o Users(callbacks'[l]) = added'[l]
  <2> DEFINE new == [i \in 1..k |-> n + i]
  <2>1. ~cancelled[l] /\ called'[l] = called[l]
    BY <1>1 DEF Add
  <2>2. CASE l \in ls
    <3>1. callbacks'[l] = callbacks[l] \o new /\ added'[l] = added[l] \o new
      BY <1>1, <2>1, <2>2 DEF Add
    <3>2. n \in Nat /\ k \in Nat /\ n + k <= MaxAdded
      BY <1>1, BoundAssumption DEF Add, TypeOK
    <3>3. new \in Seq(1..MaxAdded)
      BY <3>2, NewCallbacks
    <3> HIDE DEF new
    <3>4. /\ callbacks[l] \in Seq(0..MaxAdded) /\ Users(callbacks[l]) \in Seq(1..MaxAdded)
          /\ called[l] \in Seq(1..MaxAdded)
      BY DEF TypeOK, Tied
    <3>5. Users(callbacks[l] \o new) = Users(callbacks[l]) \o new
      BY <3>3, <3>4, UsersConcat
    <3>6. (called[l] \o Users(callbacks[l])) \o new = called[l] \o (Users(callbacks[l]) \o new)
      <4>1. \A a, b, c \in Seq(1..MaxAdded) : (a \o b) \o c = a \o (b \o c)
        BY ConcatAssociative
      <4> QED
        BY <3>3, <3>4, <4>1
    <3> QED
      BY <2>1, <3>1, <3>5, <3>6 DEF NothingLost
  <2>3. CASE l \notin ls
    BY <1>1, <2>1, <2>3 DEF Add, NothingLost
  <2> QED
    BY <2>2, <2>3
<1>2. ASSUME NEW m \in List, Settle(m) PROVE called'[l] \o Users(callbacks'[l]) = added'[l]
  BY <1>2 DEF Settle, NothingLost
<1>3. CASE CancelOther
  <2>1. PICK t \in List : t = Top /\ t # Other(t) /\ (l = t \/ l = Other(t))
    BY <1>3, OnTop, Lists DEF CancelOther, Stacked
  <2>2. l = t
    BY <1>3, <2>1, Lists DEF CancelOther, TypeOK
  <2>3. Users(callbacks[t]) = Tail(callbacks[t]) /\ Tail(callbacks[t]) \in Seq(1..MaxAdded)
    BY <1>3, <2>1 DEF CancelOther, Users, Tied
  <2>4. callbacks'[t] = Tail(callbacks[t]) /\ ~cancelled[t] /\ called' = called /\ added' = added
    BY <1>3, <2>1, <2>2 DEF CancelOther, TypeOK
  <2> QED
    BY <2>2, <2>3, <2>4, NoCancel DEF NothingLost
<1>4. CASE CallNext
  <2>1. PICK t \in List : t = Top
    BY <1>4, OnTop DEF CallNext, Stacked
  <2>2. CASE l = t
    <3>1. /\ callbacks[l] # <<>> /\ Users(callbacks[l]) = callbacks[l] /\ callbacks[l] \in Seq(1..MaxAdded)
          /\ ~cancelled[l] /\ called[l] \in Seq(1..MaxAdded)
      BY <1>4, <2>1, <2>2 DEF CallNext, Users, Tied, TypeOK
    <3>2. /\ callbacks'[l] = Tail(callbacks[l]) /\ called'[l] = Append(called[l], Head(callbacks[l]))
          /\ added' = added
      BY <1>4, <2>1, <2>2 DEF CallNext, TypeOK
    <3>3. Users(Tail(callbacks[l])) = Tail(callbacks[l])
      BY <3>1, HeadTailProperties, NoCancel
    <3>4. Append(called[l], Head(callbacks[l])) \o Tail(callbacks[l]) = called[l] \o callbacks[l]
      BY <3>1, MoveHead, Zenon
    <3> QED
      BY <3>1, <3>2, <3>3, <3>4 DEF NothingLost
  <2>3. CASE l # t
    BY <1>4, <2>1, <2>3 DEF CallNext, TypeOK, NothingLost
  <2> QED
    BY <2>2, <2>3
<1>5. CASE Throw \/ EndLoop
  BY <1>5 DEF Throw, EndLoop, Leave, NothingLost
<1>6. CASE Return \/ UNCHANGED vars
  BY <1>6 DEF Return, vars, lists, NothingLost
<1> QED
  BY <1>1, <1>2, <1>3, <1>4, <1>5, <1>6 DEF Next, User, Engine

\* Every callback that a list accepted was called, once and in order, or is still
\* in it, also when callbacks add others while it fires, or throw (988-1004).
THEOREM NothingLostHolds == Spec => []NothingLost
BY Inductive, NothingLostInit, NothingLostStep, PTL DEF Spec

LEMMA DeliveredStep == Inv /\ NothingLost /\ Delivered /\ [Next]_vars => Delivered'
<1> SUFFICES ASSUME Inv, NothingLost, Delivered, [Next]_vars,
                    NEW l \in List, fired'[l], ~cancelled'[l], ~thrown'[l]
             PROVE  called'[l] = added'[l]
  BY DEF Delivered
<1> USE DEF Inv
<1>1. ASSUME NEW ls \in SUBSET List, NEW k \in 1..2, Add(ls, k) PROVE called'[l] = added'[l]
  <2>1. ~cancelled[l] /\ ~thrown[l] /\ fired[l] /\ called' = called
    BY <1>1 DEF Add, Fire, TypeOK
  <2>2. l \notin ls
    <3> SUFFICES ASSUME l \in ls PROVE FALSE
      OBVIOUS
    <3> PICK m \in ls : fired[m] /\ ~cancelled[m] /\ fired' = [fired EXCEPT ![m] = FALSE]
      BY <1>1, <2>1 DEF Add
    <3> QED
      BY <2>1, Lists DEF TypeOK, Tied, Settled
  <2> QED
    BY <1>1, <2>1, <2>2 DEF Add, TypeOK, Delivered
<1>2. ASSUME NEW m \in List, Settle(m) PROVE called'[l] = added'[l]
  BY <1>2 DEF Settle, Delivered
<1>3. CASE CancelOther
  <2>1. ~cancelled[l]
    BY <1>3, OnTop, Lists DEF CancelOther, TypeOK, Stacked
  <2> QED
    BY <1>3, <2>1 DEF CancelOther, Delivered
<1>4. CASE CallNext
  <2>1. l # Top
    BY <1>4, OnTop DEF CallNext, Stacked
  <2> QED
    BY <1>4, <2>1 DEF CallNext, TypeOK, Delivered
<1>5. CASE Throw \/ EndLoop
  <2>1. PICK b \in BOOLEAN : Leave(b) /\ (~b => callbacks[Top] = <<>>) /\ stack # <<>>
    BY <1>5, Finish
  <2>2. CASE l = Top
    <3>1. ~b /\ callbacks[l] = <<>> /\ called' = called /\ added' = added /\ ~cancelled[l]
      BY <2>1, <2>2 DEF Leave, TypeOK
    <3>2. called[l] \o <<>> = added[l]
      BY <3>1 DEF NothingLost, Users
    <3> QED
      BY <3>1, <3>2, ConcatEmptySeq DEF TypeOK
  <2>3. CASE l # Top
    BY <2>1, <2>3, OnTop DEF Leave, TypeOK, Delivered
  <2> QED
    BY <2>2, <2>3
<1>6. CASE Return \/ UNCHANGED vars
  BY <1>6 DEF Return, vars, lists, Delivered
<1> QED
  BY <1>1, <1>2, <1>3, <1>4, <1>5, <1>6 DEF Next, User, Engine

\* What is left in a list that has fired was left by a callback that threw.
THEOREM DeliveredHolds == Spec => []Delivered
<1>1. Init => Delivered
  BY DEF Init, Delivered
<1> QED
  BY <1>1, DeliveredStep, NothingLostHolds, Inductive, PTL DEF Spec

-----------------------------------------------------------------------------
\* No other list than the one that fires or has fired is settled.
LEMMA OutcomeOf ==
  ASSUME Inv
  PROVE  /\ \A l \in List : Settled(l) => Outcome = l
         /\ (\A l \in List : ~Settled(l)) => Outcome = "pending"
         /\ Outcome \in {"pending", "done", "fail"}
<1>1. ~(Settled("done") /\ Settled("fail"))
  BY DEF Inv, Tied, List, Other
<1> QED
  BY <1>1 DEF Outcome, List

LEMMA OutcomeNext ==
  ASSUME Inv'
  PROVE  \A l \in List : Settled(l)' => Outcome' = l
BY DEF Inv, Tied, List, Other, Outcome

LEMMA AbstractInit == Init => Abstract!Init
<1> SUFFICES ASSUME Init PROVE Abstract!Init
  OBVIOUS
<1>1. \A l \in List : ~Settled(l)
  BY DEF Init, Settled
<1>2. Outcome = "pending"
  BY <1>1 DEF Outcome, List
<1>3. Users(<<Cancel>>) = <<>>
  BY DEF Users
<1> QED
  BY <1>2, <1>3 DEF Init, Abstract!Init, Waiting, List

LEMMA AbstractStep ==
  Inv /\ Inv' /\ [Next]_vars => [Abstract!Next]_<<Outcome, Waiting, called>>
<1> SUFFICES ASSUME Inv, Inv', [Next]_vars
             PROVE  Abstract!Next \/ UNCHANGED <<Outcome, Waiting, called>>
  OBVIOUS
<1>1. ASSUME NEW ls \in SUBSET List, NEW k \in 1..2, Add(ls, k) PROVE Abstract!Add
  <2> DEFINE new == [i \in 1..k |-> n + i]
  <2>1. n \in Nat /\ k \in Nat /\ n + k <= MaxAdded /\ control = "user"
    BY <1>1, BoundAssumption DEF Add, Inv, TypeOK
  <2>2. new \in Seq(1..MaxAdded)
    BY <2>1, NewCallbacks
  <2>3. \A l \in List : callbacks'[l] = IF l \in ls /\ ~cancelled[l] THEN callbacks[l] \o new ELSE callbacks[l]
    BY <1>1 DEF Add
  <2> HIDE DEF new
  <2>4. \A l \in List : Users(callbacks'[l]) = IF l \in ls /\ ~cancelled[l] THEN Users(callbacks[l]) \o new ELSE Users(callbacks[l])
    <3>1. \A l \in List : callbacks[l] \in Seq(0..MaxAdded) /\ Users(callbacks[l]) \in Seq(1..MaxAdded)
      BY DEF Inv, TypeOK, Tied
    <3>2. \A l \in List : Users(callbacks[l] \o new) = Users(callbacks[l]) \o new
      BY <2>2, <3>1, UsersConcat
    <3> QED
      BY <2>3, <3>2
  <2>5. \A l \in List : Settled(l)' = Settled(l)
    BY <1>1 DEF Settled, Add, Fire, Inv, TypeOK
  <2>6. UNCHANGED <<Outcome, called>>
    BY <1>1, <2>5 DEF Outcome, List, Add
  <2>7. \A l \in List : Abstract!IsPrefix(Users(callbacks[l]), Users(callbacks'[l]))
    <3> SUFFICES ASSUME NEW l \in List PROVE Abstract!IsPrefix(Users(callbacks[l]), Users(callbacks'[l]))
      OBVIOUS
    <3> DEFINE q == Users(callbacks[l])
    <3>1. q \in Seq(1..MaxAdded)
      BY DEF Inv, Tied
    <3> HIDE DEF q
    <3>2. Abstract!IsPrefix(q, q)
      BY <3>1, LenProperties DEF Abstract!IsPrefix
    <3>3. Abstract!IsPrefix(q, q \o new)
      BY <2>2, <3>1, PrefixOfConcat
    <3> QED
      BY <2>4, <3>2, <3>3 DEF q
  <2> QED
    BY <2>6, <2>7 DEF Abstract!Add, Abstract!Open, Waiting, List
<1>2. ASSUME NEW l \in List, Settle(l) PROVE Abstract!Settle(l)
  <2>1. PICK u \in List : u = Other(l) /\ l # u /\ List = {l, u}
    BY Lists
  <2>2. ~Settled(l) /\ ~Settled(u) /\ Settled(l)' /\ callbacks' = callbacks /\ called' = called
    BY <1>2, <2>1, Lists DEF Settle, CanFire, Fire, Settled, Inv, Tied, TypeOK
  <2>3. Outcome = "pending" /\ Outcome' = l
    BY <2>1, <2>2, OutcomeOf, OutcomeNext
  <2>4. l # "pending" /\ \A k \in List : k = l \/ (k # l /\ k # "pending")
    BY DEF List
  <2> QED
    BY <2>2, <2>3, <2>4 DEF Abstract!Settle, Waiting, List
<1>3. CASE CancelOther
  <2>1. PICK t \in List, u \in List : t = Top /\ u = Other(t) /\ t # u /\ List = {t, u}
    BY <1>3, OnTop, Lists DEF CancelOther, Inv, Stacked
  <2>2. Settled(t) /\ Settled(t)' /\ called' = called
    BY <1>3, <2>1, OnTop DEF CancelOther, Settled, Inv, Stacked
  <2>3. Outcome = t /\ Outcome' = t /\ u # "pending" /\ t # "pending"
    BY <2>1, <2>2, OutcomeOf, OutcomeNext DEF List
  <2>4. Users(callbacks'[t]) = Users(callbacks[t])
    <3>1. Users(callbacks[t]) = Tail(callbacks[t]) /\ callbacks'[t] = Tail(callbacks[t])
      BY <1>3, <2>1 DEF CancelOther, Users, Inv, TypeOK
    <3>2. Tail(callbacks[t]) \in Seq(1..MaxAdded)
      BY <3>1 DEF Inv, Tied
    <3> QED
      BY <3>1, <3>2, NoCancel
  <2>5. Waiting' = Waiting
    BY <2>1, <2>3, <2>4 DEF Waiting
  <2> QED
    BY <2>2, <2>3, <2>5
<1>4. CASE CallNext
  <2>1. PICK t \in List, u \in List : t = Top /\ u = Other(t) /\ t # u /\ List = {t, u}
    BY <1>4, OnTop, Lists DEF CallNext, Inv, Stacked
  <2>2. Settled(t) /\ Settled(t)'
    BY <1>4, <2>1, OnTop DEF CallNext, Settled, Inv, Stacked
  <2>3. Outcome = t /\ Outcome' = t /\ u # "pending" /\ t # "pending"
    BY <2>1, <2>2, OutcomeOf, OutcomeNext DEF List
  <2>4. callbacks[t] # <<>> /\ Users(callbacks[t]) = callbacks[t] /\ callbacks[t] \in Seq(1..MaxAdded)
    BY <1>4, <2>1 DEF CallNext, Users, Inv, Tied
  <2>5. /\ callbacks'[t] = Tail(callbacks[t]) /\ Users(Tail(callbacks[t])) = Tail(callbacks[t])
        /\ called' = [called EXCEPT ![t] = Append(@, Head(callbacks[t]))]
    BY <1>4, <2>1, <2>4, HeadTailProperties, NoCancel DEF CallNext, Inv, TypeOK
  <2>6. Waiting[t] = callbacks[t] /\ Waiting' = [Waiting EXCEPT ![t] = Tail(@)]
    BY <2>1, <2>3, <2>4, <2>5 DEF Waiting
  <2>7. Abstract!Deliver(t)
    BY <2>3, <2>4, <2>5, <2>6 DEF Abstract!Deliver
  <2> QED
    BY <2>7 DEF Abstract!Next, List
<1>5. CASE Return \/ Throw \/ EndLoop \/ UNCHANGED vars
  <2>1. UNCHANGED <<callbacks, called>> /\ \A l \in List : Settled(l)' = Settled(l)
    <3>1. CASE Return \/ UNCHANGED vars
      BY <3>1 DEF Return, vars, lists, Settled
    <3>2. CASE Throw \/ EndLoop
      <4> PICK b \in BOOLEAN : Leave(b) /\ stack # <<>>
        BY <3>2, Finish
      <4> QED
        BY OnTop DEF Leave, Settled, Inv, TypeOK
    <3> QED
      BY <1>5, <3>1, <3>2
  <2>2. Outcome' = Outcome
    BY <2>1 DEF Outcome, List
  <2> QED
    BY <2>1, <2>2 DEF Waiting
<1> QED
  BY <1>1, <1>2, <1>3, <1>4, <1>5 DEF Next, User, Engine, Abstract!Next, List

\* A deferred is a promise: it is settled at most once, and calls the callbacks
\* for that outcome and no others, once each and in order, whatever they do.
THEOREM DeferredIsPromise == Spec => IsPromise
<1>1. Init => Abstract!Init
  BY AbstractInit
<1>2. Inv /\ Inv' /\ [Next]_vars => [Abstract!Next]_<<Outcome, Waiting, called>>
  BY AbstractStep
<1> QED
  BY <1>1, <1>2, Inductive, PTL DEF Spec, IsPromise, Abstract!Spec

-----------------------------------------------------------------------------
\* jQuery.when.  The arguments whose values when waits for: promises of which it has not heard
\* that they are resolved.  Their number is what when counts.
Open(heard, st) == W!Asked \ {i \in heard : st[i] = "done"}

\* What when has counted and kept, once it was called.
Counts ==
  IF wanted THEN count = Cardinality(Open(told, state)) /\ \A i \in W!Arg \ Open(told, state) : args[i] = value[i]
  ELSE outcome = "pending"

WhenInv ==
  /\ W!TypeOK /\ (\A i \in Plain : state[i] = "done") /\ (\A i \in told : state[i] # "pending")
  /\ Counts /\ W!AllThere /\ W!OneFailed

\* Sets have as many elements for When as they have here.
LEMMA SameCardinality == \A S : W!Cardinality(S) = Cardinality(S)
BY Zenon DEF W!Cardinality, Cardinality

\* The numbers of arguments.
LEMMA OpenIs ==
  ASSUME NEW h \in SUBSET W!Asked, NEW st \in [W!Arg -> {"pending", "done", "fail"}]
  PROVE  /\ IsFiniteSet(Open(h, st)) /\ Cardinality(Open(h, st)) \in 0..Arguments
         /\ Cardinality(Open(h, st)) = Arguments - Cardinality(Plain) - Cardinality({i \in h : st[i] = "done"})
         /\ Cardinality(Open(h, st)) = 0 <=> Open(h, st) = {}
<1> DEFINE D == {i \in h : st[i] = "done"}
<1>1. Arguments \in Nat /\ Plain \subseteq 1..Arguments /\ W!Arg = 1..Arguments /\ W!Asked = (1..Arguments) \ Plain
  BY ArgumentAssumption DEF W!WhenAssumption, W!Arg, W!Asked
<1>2. IsFiniteSet(1..Arguments) /\ Cardinality(1..Arguments) = Arguments
  BY <1>1, FS_Interval
<1>3. Plain \in SUBSET (1..Arguments) /\ D \in SUBSET ((1..Arguments) \ Plain)
  BY <1>1
<1> HIDE DEF D
<1>4. IsFiniteSet((1..Arguments) \ Plain) /\ IsFiniteSet(Plain)
      /\ Cardinality((1..Arguments) \ Plain) = Arguments - Cardinality(Plain)
  <2>1. IsFiniteSet(Plain)
    BY <1>2, <1>3, FS_Subset
  <2>2. IsFiniteSet((1..Arguments) \ Plain)
        /\ Cardinality((1..Arguments) \ Plain) = Cardinality(1..Arguments) - Cardinality((1..Arguments) \cap Plain)
    BY <1>2, FS_Difference
  <2>3. (1..Arguments) \cap Plain = Plain
    BY <1>3
  <2> QED
    BY <1>2, <2>1, <2>2, <2>3
<1>5. IsFiniteSet(((1..Arguments) \ Plain) \ D)
      /\ Cardinality(((1..Arguments) \ Plain) \ D) = Cardinality((1..Arguments) \ Plain) - Cardinality(D)
  <2>1. IsFiniteSet(((1..Arguments) \ Plain) \ D)
        /\ Cardinality(((1..Arguments) \ Plain) \ D)
             = Cardinality((1..Arguments) \ Plain) - Cardinality(((1..Arguments) \ Plain) \cap D)
    BY <1>4, FS_Difference
  <2>2. ((1..Arguments) \ Plain) \cap D = D
    BY <1>3
  <2> QED
    BY <2>1, <2>2
<1>6. Open(h, st) = ((1..Arguments) \ Plain) \ D
  BY <1>1 DEF Open, D
<1>7. Open(h, st) \in SUBSET (1..Arguments)
  BY <1>6
<1> DEFINE O == Open(h, st)
<1> HIDE DEF O
<1>8. IsFiniteSet(O) /\ O \in SUBSET (1..Arguments)
  BY <1>5, <1>6, <1>7 DEF O
<1>9. Cardinality(O) <= Cardinality(1..Arguments) /\ Cardinality(O) \in Nat
  BY <1>2, <1>8, FS_Subset, FS_CardinalityType
<1>10. Cardinality(O) = 0 <=> O = {}
  BY <1>8, FS_EmptySet
<1>11. Cardinality(O) \in 0..Arguments
  BY <1>1, <1>2, <1>9
<1>12. Cardinality(O) = Arguments - Cardinality(Plain) - Cardinality(D)
  BY <1>4, <1>5, <1>6 DEF O
<1> QED
  BY <1>8, <1>10, <1>11, <1>12 DEF O, D

\* Each that is told and resolved counts by one.
LEMMA OpenLess ==
  ASSUME NEW h \in SUBSET W!Asked, NEW st \in [W!Arg -> {"pending", "done", "fail"}],
         NEW i \in W!Asked, i \notin h
  PROVE  IF st[i] = "done"
         THEN /\ Open(h \union {i}, st) = Open(h, st) \ {i}
              /\ Cardinality(Open(h \union {i}, st)) = Cardinality(Open(h, st)) - 1
         ELSE Open(h \union {i}, st) = Open(h, st)
<1>1. IsFiniteSet(Open(h, st)) /\ Cardinality(Open(h, st)) \in Nat
  <2>1. IsFiniteSet(Open(h, st))
    BY OpenIs
  <2> QED
    BY <2>1, FS_CardinalityType
<1>2. i \in Open(h, st)
  BY DEF Open
<1>3. CASE st[i] = "done"
  <2>1. Open(h \union {i}, st) = Open(h, st) \ {i}
    BY <1>3 DEF Open
  <2> DEFINE O == Open(h, st)
  <2> HIDE DEF O
  <2>2. Cardinality(O \ {i}) = Cardinality(O) - 1
    BY <1>1, <1>2, FS_RemoveElement DEF O
  <2> QED
    BY <1>3, <2>1, <2>2 DEF O
<1>4. CASE st[i] # "done"
  <2>1. Open(h \union {i}, st) = Open(h, st)
    BY <1>4 DEF Open
  <2> QED
    BY <1>4, <2>1
<1> QED
  BY <1>3, <1>4

\* What is settled stays as it is, and so does what when has of it.
LEMMA SettleKeeps ==
  ASSUME WhenInv, NEW i \in W!Arg, NEW s \in {"done", "fail"}, NEW v \in Value, W!Settle(i, s, v)
  PROVE  WhenInv'
<1>1. /\ state[i] = "pending" /\ state' = [state EXCEPT ![i] = s]
      /\ value' = [value EXCEPT ![i] = IF s = "done" THEN v ELSE "none"]
      /\ UNCHANGED <<wanted, told, args, count, outcome, result>>
  BY DEF W!Settle, W!None
<1>2. i \notin told /\ i \notin Plain
  BY <1>1 DEF WhenInv
<1>3. \A j \in W!Arg : j # i => state'[j] = state[j] /\ value'[j] = value[j]
  BY <1>1 DEF WhenInv, W!TypeOK
<1>4. state'[i] = s
  BY <1>1 DEF WhenInv, W!TypeOK
<1>5. W!TypeOK'
  <2>1. state' \in [W!Arg -> {"pending", "done", "fail"}] /\ value' \in [W!Arg -> Value \union {"none"}]
    BY <1>1 DEF WhenInv, W!TypeOK, W!None
  <2> QED
    BY <1>1, <2>1 DEF WhenInv, W!TypeOK, W!None
<1>6. told \subseteq W!Asked /\ W!Asked \subseteq W!Arg /\ Plain \subseteq W!Arg
  BY ArgumentAssumption DEF WhenInv, W!TypeOK, W!WhenAssumption, W!Asked, W!Arg
<1>7. (\A j \in Plain : state'[j] = "done") /\ (\A j \in told' : state'[j] # "pending")
  BY <1>1, <1>2, <1>3, <1>6 DEF WhenInv
<1>8. Counts'
  <2>1. Open(told, state') = Open(told, state)
    BY <1>2, <1>3, <1>6 DEF Open
  <2>2. i \in Open(told, state)
    BY <1>2 DEF Open, W!Asked
  <2>3. \A j \in W!Arg \ Open(told, state) : value'[j] = value[j]
    BY <1>3, <2>2
  <2> QED
    BY <1>1, <2>1, <2>3 DEF WhenInv, Counts
<1>9. W!AllThere'
  BY <1>1 DEF WhenInv, W!AllThere
<1>10. W!OneFailed'
  <2> SUFFICES ASSUME outcome = "fail"  PROVE \E j \in W!Arg : state'[j] = "fail"
    BY <1>1 DEF W!OneFailed
  <2>1. PICK j \in W!Arg : state[j] = "fail"
    BY DEF WhenInv, W!OneFailed
  <2> QED
    BY <1>1, <1>3, <2>1
<1> QED
  BY <1>5, <1>7, <1>8, <1>9, <1>10 DEF WhenInv

\* What when concludes is right if what it counts and keeps is.
LEMMA ConcludeKeeps ==
  ASSUME WhenInv, UNCHANGED <<state, value>>, wanted', told' \subseteq W!Asked, \A i \in told' : state[i] # "pending",
         NEW left, NEW values \in [W!Arg -> Value \union {"none"}], NEW failed \in BOOLEAN, W!Conclude(left, values, failed),
         left = Cardinality(Open(told', state)),
         \A i \in W!Arg \ Open(told', state) : values[i] = value[i],
         failed => \E i \in W!Arg : state[i] = "fail"
  PROVE  WhenInv'
<1> DEFINE h == told'
<1>1. /\ state \in [W!Arg -> {"pending", "done", "fail"}] /\ value \in [W!Arg -> Value \union {"none"}]
      /\ h \in SUBSET W!Asked /\ Plain \subseteq W!Arg
  BY ArgumentAssumption DEF WhenInv, W!TypeOK, W!None, W!WhenAssumption, W!Arg
<1> HIDE DEF h
<1>2. Cardinality(Open(h, state)) \in 0..Arguments /\ (Cardinality(Open(h, state)) = 0 <=> Open(h, state) = {})
  BY <1>1, OpenIs
<1>3. count' = left /\ args' = values /\ left \in 0..Arguments /\ (left = 0 => Open(h, state) = {})
  BY <1>2 DEF W!Conclude, h
<1>4. left = 0 => (values = value /\ \A i \in W!Arg : state[i] = "done")
  <2> SUFFICES ASSUME left = 0  PROVE values = value /\ \A i \in W!Arg : state[i] = "done"
    OBVIOUS
  <2>1. \A i \in W!Arg : values[i] = value[i]
    BY <1>3 DEF h
  <2>2. values = value
    BY <1>1, <2>1
  <2>3. \A i \in W!Arg : i \in Plain \/ (i \in h /\ state[i] = "done")
    BY <1>3 DEF Open, W!Asked
  <2> QED
    BY <2>2, <2>3 DEF WhenInv
<1>5. \/ outcome' = outcome /\ result' = result
      \/ outcome = "pending" /\ failed /\ outcome' = "fail" /\ result' = result
      \/ outcome = "pending" /\ left = 0 /\ outcome' = "done" /\ result' = values
  BY DEF W!Conclude
<1>6. W!AllThere' /\ W!OneFailed'
  <2>1. CASE outcome' = outcome /\ result' = result
    BY <2>1 DEF WhenInv, W!AllThere, W!OneFailed
  <2>2. CASE failed /\ outcome' = "fail"
    BY <2>2 DEF W!AllThere, W!OneFailed
  <2>3. CASE left = 0 /\ outcome' = "done" /\ result' = values
    BY <1>4, <2>3 DEF W!AllThere, W!OneFailed
  <2> QED
    BY <1>5, <2>1, <2>2, <2>3
<1>7. W!TypeOK'
  <2>1. outcome' \in {"pending", "done", "fail"} /\ result' \in [W!Arg -> Value \union {"none"}]
    BY <1>5 DEF WhenInv, W!TypeOK, W!None
  <2>2. wanted' \in BOOLEAN /\ told' \subseteq W!Asked /\ count' \in 0..Arguments
    BY <1>3
  <2>3. state' = state /\ value' = value /\ args' \in [W!Arg -> Value \union {"none"}]
    BY <1>3
  <2> QED
    BY <1>1, <2>1, <2>2, <2>3 DEF W!TypeOK, W!None
<1>8. Counts'
  BY <1>3 DEF Counts, h
<1> QED
  BY <1>6, <1>7, <1>8 DEF WhenInv

\* when goes through its arguments.
LEMMA WhenKeeps ==
  ASSUME WhenInv, NEW now \in SUBSET W!Asked, W!When(now)
  PROVE  WhenInv'
<1> DEFINE done == W!Resolved(now)
           values == W!Known(now)
<1>1. /\ wanted' = TRUE /\ now \subseteq {i \in W!Asked : state[i] # "pending"} /\ told' = now
      /\ W!Conclude(Arguments - Cardinality(Plain) - Cardinality(done), values, now # done)
      /\ UNCHANGED <<state, value>>
  <2>1. wanted' = TRUE /\ now \subseteq {i \in W!Asked : state[i] # "pending"} /\ told' = now
        /\ UNCHANGED <<state, value>>
    BY DEF W!When
  <2>2. W!Conclude(Arguments - Cardinality(Plain) - Cardinality(done), values, now # done)
    BY Zenon, SameCardinality DEF W!When
  <2> QED
    BY <2>1, <2>2
<1>2. state \in [W!Arg -> {"pending", "done", "fail"}] /\ value \in [W!Arg -> Value \union {"none"}]
      /\ W!Asked \subseteq W!Arg
  BY DEF WhenInv, W!TypeOK, W!None, W!Asked
<1>3. Cardinality(Open(now, state)) = Arguments - Cardinality(Plain) - Cardinality(done)
  BY <1>2, OpenIs DEF W!Resolved
<1>4. values \in [W!Arg -> Value \union {"none"}]
  BY <1>2 DEF W!Known, W!None
<1>5. \A i \in W!Arg \ Open(now, state) : values[i] = value[i]
  BY DEF Open, W!Asked, W!Known, W!Resolved
<1>6. now # done => \E i \in W!Arg : state[i] = "fail"
  <2> SUFFICES ASSUME now # done  PROVE \E i \in W!Arg : state[i] = "fail"
    OBVIOUS
  <2> PICK i \in now : state[i] # "done"
    BY DEF W!Resolved
  <2> QED
    BY <1>1, <1>2
<1>7. (now # done) \in BOOLEAN
  OBVIOUS
<1> HIDE DEF done, values
<1>8. told' \subseteq W!Asked /\ \A i \in told' : state[i] # "pending"
  BY <1>1
<1> QED
  BY <1>1, <1>3, <1>4, <1>5, <1>6, <1>7, <1>8, ConcludeKeeps

\* A promise that is settled calls back, once.
LEMMA TellKeeps ==
  ASSUME WhenInv, NEW i \in W!Arg, W!Tell(i)
  PROVE  WhenInv'
<1>1. /\ wanted /\ i \in W!Asked /\ i \notin told /\ state[i] # "pending"
      /\ told' = told \union {i} /\ UNCHANGED <<wanted, state, value>>
  BY DEF W!Tell
<1>2. /\ state \in [W!Arg -> {"pending", "done", "fail"}] /\ value \in [W!Arg -> Value \union {"none"}]
      /\ args \in [W!Arg -> Value \union {"none"}] /\ told \in SUBSET W!Asked
  BY DEF WhenInv, W!TypeOK, W!None
<1>3. /\ count = Cardinality(Open(told, state)) /\ \A j \in W!Arg \ Open(told, state) : args[j] = value[j]
      /\ \A j \in told : state[j] # "pending"
  BY <1>1 DEF WhenInv, Counts
<1>4. told' \subseteq W!Asked /\ \A j \in told' : state[j] # "pending"
  BY <1>1, <1>2, <1>3
<1>5. CASE state[i] = "done"
  <2> DEFINE values == [args EXCEPT ![i] = value[i]]
  <2>1. W!Conclude(count - 1, values, FALSE)
    BY <1>5 DEF W!Tell
  <2>2. /\ Open(told', state) = Open(told, state) \ {i}
        /\ Cardinality(Open(told', state)) = Cardinality(Open(told, state)) - 1
    BY <1>1, <1>2, <1>5, OpenLess
  <2>3. values \in [W!Arg -> Value \union {"none"}] /\ \A j \in W!Arg \ Open(told', state) : values[j] = value[j]
    BY <1>2, <1>3, <2>2
  <2>4. count - 1 = Cardinality(Open(told', state))
    BY <1>3, <2>2
  <2> HIDE DEF values
  <2> QED
    BY <1>1, <1>4, <2>1, <2>3, <2>4, ConcludeKeeps
<1>6. CASE state[i] # "done"
  <2>1. W!Conclude(count, args, TRUE) /\ state[i] = "fail"
    BY <1>1, <1>2, <1>6 DEF W!Tell
  <2>2. Open(told', state) = Open(told, state)
    BY <1>1, <1>2, <1>6, OpenLess
  <2>3. count = Cardinality(Open(told', state)) /\ \A j \in W!Arg \ Open(told', state) : args[j] = value[j]
    BY <1>3, <2>2
  <2> QED
    BY <1>1, <1>2, <1>4, <2>1, <2>3, ConcludeKeeps
<1> QED
  BY <1>5, <1>6

LEMMA WhenStarts ==
  ASSUME W!Init
  PROVE  WhenInv
<1>1. /\ Arguments \in Nat /\ Plain \subseteq W!Arg /\ Given \in Value
  BY ArgumentAssumption DEF W!WhenAssumption, W!Arg
<1>2. W!TypeOK
  <2>1. value \in [W!Arg -> Value \union {"none"}] /\ args \in [W!Arg -> Value \union {"none"}]
        /\ result \in [W!Arg -> Value \union {"none"}]
    BY <1>1 DEF W!Init, W!None
  <2>2. wanted \in BOOLEAN /\ told \subseteq W!Asked /\ outcome = "pending"
    BY DEF W!Init
  <2>3. count \in 0..Arguments
    BY <1>1 DEF W!Init
  <2>4. state \in [W!Arg -> {"pending", "done", "fail"}]
    BY DEF W!Init
  <2> QED
    BY <2>1, <2>2, <2>3, <2>4 DEF W!TypeOK, W!None
<1>3. (\A i \in Plain : state[i] = "done") /\ (\A i \in told : state[i] # "pending")
  BY <1>1 DEF W!Init
<1>4. Counts /\ W!AllThere /\ W!OneFailed
  BY DEF W!Init, Counts, W!AllThere, W!OneFailed
<1> QED
  BY <1>2, <1>3, <1>4 DEF WhenInv

LEMMA WhenSteps ==
  ASSUME WhenInv, [W!Next]_(W!vars)
  PROVE  WhenInv'
<1>1. CASE UNCHANGED W!vars
  <2>1. UNCHANGED <<wanted, state, value, told, args, count, outcome, result>>
    BY <1>1 DEF W!vars
  <2>2. W!TypeOK' /\ (\A i \in Plain : state'[i] = "done") /\ (\A i \in told' : state'[i] # "pending")
    BY <2>1 DEF WhenInv, W!TypeOK
  <2>3. Counts'
    BY <2>1 DEF WhenInv, Counts, Open
  <2>4. W!AllThere' /\ W!OneFailed'
    BY <2>1 DEF WhenInv, W!AllThere, W!OneFailed
  <2> QED
    BY <2>2, <2>3, <2>4 DEF WhenInv
<1>2. CASE \E now \in SUBSET W!Asked : W!When(now)
  BY <1>2, WhenKeeps
<1>3. CASE \E i \in W!Arg : W!Tell(i)
  BY <1>3, TellKeeps
<1>4. CASE \E i \in W!Arg, s \in {"done", "fail"}, v \in Value : W!Settle(i, s, v)
  BY <1>4, SettleKeeps
<1> QED
  BY <1>1, <1>2, <1>3, <1>4 DEF W!Next

LEMMA WhenHolds == W!Spec => []WhenInv
<1>1. W!Init => WhenInv
  BY WhenStarts
<1>2. WhenInv /\ [W!Next]_(W!vars) => WhenInv'
  BY WhenSteps
<1> QED
  BY <1>1, <1>2, PTL DEF W!Spec

\* Whatever its arguments are, and whenever they are settled or call back, the promise of when is
\* resolved with the values of them all, and rejected only when one failed (1098-1132).
THEOREM WhenConcludesRightly == W!Spec => [](W!AllThere /\ W!OneFailed)
<1>1. WhenInv => W!AllThere /\ W!OneFailed
  BY DEF WhenInv
<1> QED
  BY <1>1, WhenHolds, PTL

-----------------------------------------------------------------------------
\* pipe.  Where the outcome of link i comes from, for links that follow fl: from the first
\* promise, whose outcome is s, or the last promise up to i that a function returned.
SourceOf(s, fl, ow, i) ==
  LET returned == {j \in 1..i : fl[j] # 0}
  IN IF returned = {} THEN s ELSE ow[fl[CHOOSE j \in returned : \A k \in returned : k <= j]]
IsSource(s, fl, ow, i, v) ==
  \/ (\A j \in 1..i : fl[j] = 0) /\ v = s
  \/ \E j \in 1..i : fl[j] # 0 /\ (\A k \in 1..i : fl[k] # 0 => k <= j) /\ v = ow[fl[j]]

LEMMA SourceOfIs ==
  ASSUME NEW s, NEW fl, NEW ow, NEW i \in Nat, NEW v
  PROVE  v = SourceOf(s, fl, ow, i) <=> IsSource(s, fl, ow, i, v)
<1> DEFINE returned == {j \in 1..i : fl[j] # 0}
<1>1. CASE returned = {}
  <2>1. SourceOf(s, fl, ow, i) = s
    BY <1>1 DEF SourceOf
  <2>2. \A j \in 1..i : fl[j] = 0
    BY <1>1
  <2> QED
    BY <2>1, <2>2 DEF IsSource
<1>2. CASE returned # {}
  <2>1. PICK m \in returned : \A k \in returned : k <= m
    <3> DEFINE Above == {b \in Nat : \A k \in returned : k <= b}
               R == {p \in Nat \X Nat : p[1] < p[2]}
    <3>1. i \in Above /\ Above \in SUBSET Nat
      OBVIOUS
    <3>2. IsWellFoundedOn(R, Nat)
      BY NatLessThanWellFounded, Zenon DEF OpToRel
    <3>3. PICK m \in Above : \A b \in Above : <<b, m>> \notin R
      <4> HIDE DEF R, Above
      <4> QED
        BY <3>1, <3>2, WFMin
    <3>4. m \in Nat /\ \A k \in returned : k \in 1..i /\ k <= m
      OBVIOUS
    <3>5. m \in returned
      <4> SUFFICES ASSUME m \notin returned  PROVE FALSE
        OBVIOUS
      <4>1. m # 0
        BY <1>2, <3>4
      <4>2. m - 1 \in Nat /\ m - 1 < m
        BY <3>4, <4>1
      <4>3. ASSUME NEW k \in returned  PROVE k <= m - 1
        <5>1. k \in Nat /\ k # m /\ k <= m
          BY <3>4
        <5> QED
          BY <3>4, <5>1
      <4>4. m - 1 \in Above /\ <<m - 1, m>> \in R
        BY <3>4, <4>2, <4>3
      <4> QED
        BY <3>3, <4>4
    <3> QED
      BY <3>4, <3>5
  <2>2. \A b \in returned : (\A k \in returned : k <= b) => b = m
    BY <2>1
  <2>3. (CHOOSE j \in returned : \A k \in returned : k <= j) = m
    <3> HIDE DEF returned
    <3> QED
      BY <2>1, <2>2
  <2>4. SourceOf(s, fl, ow, i) = ow[fl[m]]
    BY <1>2, <2>3 DEF SourceOf
  <2>5. IsSource(s, fl, ow, i, v) <=> v = ow[fl[m]]
    <3>1. m \in 1..i /\ fl[m] # 0 /\ \A k \in 1..i : fl[k] # 0 => k <= m
      BY <2>1
    <3>2. \A j \in 1..i : fl[j] # 0 /\ (\A k \in 1..i : fl[k] # 0 => k <= j) => j = m
      BY <2>2
    <3> QED
      BY <3>1, <3>2 DEF IsSource
  <2> QED
    BY <2>4, <2>5
<1> QED
  BY <1>1, <1>2

\* Only what was passed follows another promise or is settled; a promise is settled after those
\* before it; and with the outcome of its source.
ChainInv ==
  /\ P!TypeOK /\ (\A i \in P!Link : i \notin passed => follows[i] = 0 /\ chain[i] = "pending")
  /\ \A i, j \in 0..Links : i <= j /\ chain[j] \in P!Settled => chain[i] \in P!Settled
  /\ \A i \in 0..Links : chain[i] \in P!Settled => IsSource(chain[0], follows, own, i, chain[i])

LEMMA LinksAre == Links \in Nat \ {0} /\ P!Link = 1..Links /\ 0 \notin Own /\ "pending" \notin P!Settled
BY LinkAssumption DEF P!PipeAssumption, P!Link, P!Settled

\* A promise that is not of the chain is settled.
LEMMA SettleOwnKeeps ==
  ASSUME ChainInv, NEW p \in Own, NEW s \in P!Settled, P!SettleOwn(p, s)
  PROVE  ChainInv'
<1>1. own[p] = "pending" /\ own' = [own EXCEPT ![p] = s] /\ UNCHANGED <<chain, passed, follows, broken>>
  BY DEF P!SettleOwn
<1>2. P!TypeOK'
  BY <1>1 DEF ChainInv, P!TypeOK, P!Settled
<1>3. ASSUME NEW i \in 0..Links, chain[i] \in P!Settled
      PROVE  IsSource(chain[0], follows, own', i, chain[i])
  <2>1. IsSource(chain[0], follows, own, i, chain[i])
    BY <1>3 DEF ChainInv
  <2>2. CASE (\A j \in 1..i : follows[j] = 0) /\ chain[i] = chain[0]
    BY <2>2 DEF IsSource
  <2>3. ASSUME NEW j \in 1..i, follows[j] # 0, \A k \in 1..i : follows[k] # 0 => k <= j, chain[i] = own[follows[j]]
        PROVE  IsSource(chain[0], follows, own', i, chain[i])
    <3>1. own'[follows[j]] = own[follows[j]]
      <4>1. follows[j] # p
        BY <1>1, <1>3, <2>3, LinksAre
      <4>2. own \in [Own -> {"pending", "done", "fail"}] /\ follows[j] \in Own
        BY <2>3, LinksAre DEF ChainInv, P!TypeOK
      <4> QED
        BY <1>1, <4>1, <4>2
    <3> QED
      BY <2>3, <3>1 DEF IsSource
  <2> QED
    BY <2>1, <2>2, <2>3 DEF IsSource
<1> QED
  BY <1>1, <1>2, <1>3 DEF ChainInv

\* The first promise is settled before all others.
LEMMA SettleFirstKeeps ==
  ASSUME ChainInv, NEW s \in P!Settled, P!SettleFirst(s)
  PROVE  ChainInv'
<1>1. chain[0] = "pending" /\ chain' = [chain EXCEPT ![0] = s] /\ UNCHANGED <<passed, follows, own, broken>>
  BY DEF P!SettleFirst
<1>2. \A j \in 0..Links : chain[j] \notin P!Settled
  BY <1>1, LinksAre DEF ChainInv
<1>3. chain'[0] = s /\ \A j \in 1..Links : chain'[j] = chain[j]
  BY <1>1, LinksAre DEF ChainInv, P!TypeOK
<1>4. P!TypeOK'
  <2>1. chain' \in [0..Links -> {"pending", "done", "fail"}]
    BY <1>1 DEF ChainInv, P!TypeOK, P!Settled
  <2>2. \A i \in P!Link : (i \in passed \/ chain'[i] \in P!Settled) => chain'[i - 1] \in P!Settled
    <3> SUFFICES ASSUME NEW i \in P!Link, i \in passed  PROVE FALSE
      BY <1>2, <1>3, LinksAre
    <3>1. chain[i - 1] \in P!Settled /\ i - 1 \in 0..Links
      BY LinksAre DEF ChainInv, P!TypeOK
    <3> QED
      BY <1>2, <3>1
  <2> QED
    BY <1>1, <2>1, <2>2 DEF ChainInv, P!TypeOK
<1>5. \A i \in P!Link : i \notin passed => follows[i] = 0 /\ chain'[i] = "pending"
  BY <1>3, LinksAre DEF ChainInv
<1>6. \A j \in 0..Links : chain'[j] \in P!Settled => j = 0
  BY <1>2, <1>3, LinksAre
<1>7. IsSource(chain'[0], follows, own, 0, chain'[0])
  BY DEF IsSource
<1> QED
  BY <1>1, <1>3, <1>4, <1>5, <1>6, <1>7, LinksAre DEF ChainInv

\* A link is settled behind the one before it, with the outcome of its source.
LEMMA LinkSettles ==
  ASSUME ChainInv, NEW i \in P!Link, NEW v \in P!Settled, chain[i] = "pending", chain[i - 1] \in P!Settled,
         chain' = [chain EXCEPT ![i] = v], passed' = passed \union {i}, UNCHANGED <<follows, own>>,
         broken' = broken, IsSource(chain[0], follows, own, i, v)
  PROVE  ChainInv'
<1>1. /\ i \in 1..Links /\ i \in 0..Links /\ 0 \in 0..Links
      /\ \A j \in 0..Links : chain'[j] = IF j = i THEN v ELSE chain[j]
  BY LinksAre DEF ChainInv, P!TypeOK
<1>2. \A j \in 0..Links : chain'[j] \in P!Settled <=> (j = i \/ chain[j] \in P!Settled)
  BY <1>1
<1>3. P!TypeOK'
  <2>1. chain' \in [0..Links -> {"pending", "done", "fail"}]
    BY DEF ChainInv, P!TypeOK, P!Settled
  <2>2. \A j \in P!Link : (j \in passed' \/ chain'[j] \in P!Settled) => chain'[j - 1] \in P!Settled
    <3> SUFFICES ASSUME NEW j \in P!Link, j \in passed' \/ chain'[j] \in P!Settled
        PROVE  chain'[j - 1] \in P!Settled
      OBVIOUS
    <3>1. j \in 0..Links /\ j - 1 \in 0..Links
      BY LinksAre
    <3>2. chain[j - 1] \in P!Settled
      BY <1>2, <3>1 DEF ChainInv, P!TypeOK
    <3> QED
      BY <1>2, <3>1, <3>2
  <2>3. passed' \subseteq P!Link /\ broken' \subseteq passed'
    BY DEF ChainInv, P!TypeOK
  <2> QED
    BY <2>1, <2>2, <2>3 DEF ChainInv, P!TypeOK
<1>4. \A j \in P!Link : j \notin passed' => follows'[j] = 0 /\ chain'[j] = "pending"
  BY <1>1, LinksAre DEF ChainInv
<1>5. \A j, k \in 0..Links : j <= k /\ chain'[k] \in P!Settled => chain'[j] \in P!Settled
  <2> SUFFICES ASSUME NEW j \in 0..Links, NEW k \in 0..Links, j <= k, chain'[k] \in P!Settled, j # i
      PROVE  chain[j] \in P!Settled
    BY <1>2
  <2>1. CASE k # i
    BY <1>2, <2>1 DEF ChainInv
  <2>2. CASE k = i
    <3>1. j <= i - 1 /\ i - 1 \in 0..Links
      BY <1>1, <2>2, LinksAre
    <3> QED
      BY <3>1 DEF ChainInv
  <2> QED
    BY <2>1, <2>2
<1>6. ASSUME NEW j \in 0..Links, chain'[j] \in P!Settled
      PROVE  IsSource(chain'[0], follows', own', j, chain'[j])
  <2>1. chain'[0] = chain[0]
    BY <1>1
  <2>2. CASE j = i
    BY <1>1, <2>1, <2>2
  <2>3. CASE j # i
    BY <1>1, <1>2, <1>6, <2>1, <2>3 DEF ChainInv
  <2> QED
    BY <2>2, <2>3
<1> QED
  BY <1>3, <1>4, <1>5, <1>6 DEF ChainInv

\* The promise that a function returned is settled.
LEMMA FollowKeeps ==
  ASSUME ChainInv, NEW i \in P!Link, P!Follow(i)
  PROVE  ChainInv'
<1>1. /\ follows[i] # 0 /\ own[follows[i]] \in P!Settled /\ chain[i] = "pending"
      /\ chain' = [chain EXCEPT ![i] = own[follows[i]]] /\ UNCHANGED <<passed, follows, own, broken>>
  BY DEF P!Follow
<1>2. i \in passed /\ passed = passed \union {i} /\ chain[i - 1] \in P!Settled
  BY <1>1 DEF ChainInv, P!TypeOK
<1>3. IsSource(chain[0], follows, own, i, own[follows[i]])
  <2>1. i \in 1..i /\ \A k \in 1..i : k <= i
    BY LinksAre
  <2> QED
    BY <1>1, <2>1 DEF IsSource
<1> QED
  BY <1>1, <1>2, <1>3, LinkSettles

\* A promise calls back its link.
LEMMA PassKeeps ==
  ASSUME ChainInv, NEW i \in P!Link, NEW kind \in P!Kinds, NEW p \in Own, P!Pass(i, kind, p)
  PROVE  ChainInv'
<1>1. /\ chain[i - 1] \in P!Settled /\ i \notin passed /\ passed' = passed \union {i} /\ own' = own
      /\ chain' = IF kind \in {"none", "value"} THEN [chain EXCEPT ![i] = chain[i - 1]] ELSE chain
      /\ follows' = IF kind = "promise" THEN [follows EXCEPT ![i] = p] ELSE follows
      /\ broken' = IF kind = "throw" THEN broken \union {i} ELSE broken
  BY DEF P!Pass
<1>2. follows[i] = 0 /\ chain[i] = "pending" /\ i \in 1..Links /\ i - 1 \in 0..Links
  BY <1>1, LinksAre DEF ChainInv
<1>3. CASE kind \in {"none", "value"}
  <2>1. IsSource(chain[0], follows, own, i - 1, chain[i - 1])
    BY <1>1, <1>2 DEF ChainInv
  <2>2. IsSource(chain[0], follows, own, i, chain[i - 1])
    <3>1. 1..(i - 1) \subseteq 1..i /\ \A k \in 1..i : k # i => k \in 1..(i - 1)
      BY <1>2
    <3>2. CASE (\A j \in 1..(i - 1) : follows[j] = 0) /\ chain[i - 1] = chain[0]
      BY <1>2, <3>1, <3>2 DEF IsSource
    <3>3. CASE \E j \in 1..(i - 1) : /\ follows[j] # 0 /\ (\A k \in 1..(i - 1) : follows[k] # 0 => k <= j)
                                     /\ chain[i - 1] = own[follows[j]]
      BY <1>2, <3>1, <3>3 DEF IsSource
    <3> QED
      BY <2>1, <3>2, <3>3 DEF IsSource
  <2>3. UNCHANGED <<follows, own>> /\ broken' = broken /\ chain' = [chain EXCEPT ![i] = chain[i - 1]]
    BY <1>1, <1>3
  <2> QED
    BY <1>1, <1>2, <2>2, <2>3, LinkSettles
<1>4. CASE kind \in {"promise", "throw"}
  <2>1. chain' = chain
    BY <1>1, <1>4
  <2>2. \A j \in 0..Links : chain[j] \in P!Settled => j < i
    <3> SUFFICES ASSUME NEW j \in 0..Links, chain[j] \in P!Settled, i <= j  PROVE FALSE
      BY <1>2
    <3> QED
      BY <1>2, LinksAre DEF ChainInv
  <2>3. \A k \in P!Link : k # i => follows'[k] = follows[k]
    BY <1>1 DEF ChainInv, P!TypeOK
  <2>4. P!TypeOK'
    <3>1. follows' \in [P!Link -> Own \union {0}]
      BY <1>1 DEF ChainInv, P!TypeOK
    <3>2. passed' \subseteq P!Link /\ broken' \subseteq passed'
      BY <1>1 DEF ChainInv, P!TypeOK
    <3> QED
      BY <1>1, <2>1, <3>1, <3>2 DEF ChainInv, P!TypeOK
  <2>5. \A j \in P!Link : j \notin passed' => follows'[j] = 0 /\ chain'[j] = "pending"
    BY <1>1, <2>1, <2>3 DEF ChainInv
  <2>6. ASSUME NEW j \in 0..Links, chain[j] \in P!Settled
        PROVE  IsSource(chain[0], follows', own, j, chain[j])
    <3>1. \A k \in 1..j : follows'[k] = follows[k]
      BY <2>2, <2>3, <2>6, LinksAre
    <3>2. IsSource(chain[0], follows, own, j, chain[j])
      BY <2>6 DEF ChainInv
    <3>3. CASE (\A m \in 1..j : follows[m] = 0) /\ chain[j] = chain[0]
      BY <3>1, <3>3 DEF IsSource
    <3>4. ASSUME NEW m \in 1..j, follows[m] # 0, \A k \in 1..j : follows[k] # 0 => k <= m,
                 chain[j] = own[follows[m]]
          PROVE  IsSource(chain[0], follows', own, j, chain[j])
      <4>1. follows'[m] # 0 /\ (\A k \in 1..j : follows'[k] # 0 => k <= m) /\ chain[j] = own[follows'[m]]
        BY <3>1, <3>4
      <4> QED
        BY <4>1 DEF IsSource
    <3> QED
      BY <3>2, <3>3, <3>4 DEF IsSource
  <2> QED
    BY <1>1, <2>1, <2>4, <2>5, <2>6 DEF ChainInv
<1> QED
  BY <1>3, <1>4 DEF P!Kinds

LEMMA ChainStarts ==
  ASSUME P!Init
  PROVE  ChainInv
<1>1. P!TypeOK
  BY LinksAre DEF P!Init, P!TypeOK, P!Settled
<1>2. \A j \in 0..Links : chain[j] \notin P!Settled
  BY LinksAre DEF P!Init
<1>3. \A i \in P!Link : follows[i] = 0 /\ chain[i] = "pending"
  BY LinksAre DEF P!Init
<1> QED
  BY <1>1, <1>2, <1>3 DEF ChainInv

LEMMA ChainSteps ==
  ASSUME ChainInv, [P!Next]_(P!vars)
  PROVE  ChainInv'
<1>1. CASE UNCHANGED P!vars
  <2>1. UNCHANGED <<chain, passed, follows, own, broken>>
    BY <1>1 DEF P!vars
  <2> QED
    BY <2>1 DEF ChainInv, P!TypeOK
<1>2. CASE \E s \in P!Settled : P!SettleFirst(s)
  BY <1>2, SettleFirstKeeps
<1>3. CASE \E s \in P!Settled, p \in Own : P!SettleOwn(p, s)
  BY <1>3, SettleOwnKeeps
<1>4. CASE \E i \in P!Link : P!PassSome(i)
  <2> PICK i \in P!Link, kind \in Filters, p \in Own : P!Pass(i, kind, p)
    BY <1>4 DEF P!PassSome
  <2>1. kind \in P!Kinds
    BY LinkAssumption DEF P!PipeAssumption
  <2> QED
    BY <2>1, PassKeeps
<1>5. CASE \E i \in P!Link : P!Follow(i)
  BY <1>5, FollowKeeps
<1> QED
  BY <1>1, <1>2, <1>3, <1>4, <1>5 DEF P!Next

LEMMA ChainInherits ==
  ASSUME ChainInv
  PROVE  P!Inherits
<1> SUFFICES ASSUME NEW i \in 0..Links, chain[i] \in P!Settled  PROVE chain[i] = P!Source(i)
  BY DEF P!Inherits
<1>1. IsSource(chain[0], follows, own, i, chain[i]) /\ i \in Nat
  BY LinksAre DEF ChainInv
<1>2. chain[i] = SourceOf(chain[0], follows, own, i)
  BY <1>1, SourceOfIs
<1> QED
  BY <1>2 DEF P!Source, SourceOf

LEMMA ChainHolds == P!Spec => []ChainInv
<1>1. P!Init => ChainInv
  BY ChainStarts
<1>2. ChainInv /\ [P!Next]_(P!vars) => ChainInv'
  BY ChainSteps
<1> QED
  BY <1>1, <1>2, PTL DEF P!Spec

\* Whatever the functions given to pipe do, and whenever what they return is settled, a promise of
\* the chain has the outcome of the nearest before it that settled of itself (1046-1071).
THEOREM ChainInheritsOutcomes == P!Spec => []P!Inherits
<1>1. ChainInv => P!Inherits
  BY ChainInherits
<1> QED
  BY <1>1, ChainHolds, PTL

\* Both, for every number of arguments and of links.
THEOREM OutcomesAreRight == W!Spec /\ P!Spec => []Outcomes
BY WhenConcludesRightly, ChainInheritsOutcomes, PTL DEF Outcomes
-----------------------------------------------------------------------------
(* Showing and hiding.                                                     *)

\* The displays of an element: inline-block is for inline elements only.
Element ==
  [inline : SH!Display, old : SH!Display \union {Unset}, style : [SH!Prop -> SH!Style], overflow : {"own", "hidden"}]
Displayed(e) ==
  /\ e.inline \in {"", "none", natural} \union (IF natural = "inline" THEN {"inline-block"} ELSE {})
  /\ e.old \in {Unset, natural} \union (IF natural = "inline" THEN {"inline-block"} ELSE {})

Running == [show : BOOLEAN, props : SUBSET SH!Prop, queue : BOOLEAN, orig : [SH!Prop -> SH!Style],
            overflow : {"own", "hidden", Unset}]
Tasks == [do : {"dequeue", "callback", "keep", "remove", "show"}] \union [do : {"force"}, at : Nat]

\* Calls that dequeue are made at once; those that force an end go down the running animations.
Plainly(ts) == \A k \in 1..Len(ts) : ts[k].do # "dequeue"
Forces(ts, size) ==
  /\ \A k \in 1..Len(ts) : ts[k].do = "force" => ts[k].at \in 1..size
  /\ \A j, k \in 1..Len(ts) : j < k /\ ts[j].do = "force" /\ ts[k].do = "force" => ts[k].at < ts[j].at
Early(ts) == \A k \in 1..Len(ts) : ts[k].do = "dequeue" => k = 1

\* Whoever waits in the queue has one before it that will dequeue.
Queued(as) == \E k \in 1..Len(as) : as[k].queue
QueueOK(cs, b, as, ts) ==
  /\ \A k \in 1..Len(cs) : cs[k].queue
  /\ cs # <<>> => b
  /\ b => ~Plainly(ts) \/ Queued(as)

\* Animations that do not overlap keep what the page wrote, and only what they move is moved.
Keeps(a) ==
  /\ \A p \in a.props : a.orig[p] = "own"
  /\ a.overflow = IF "height" \in a.props THEN "own" ELSE Unset
Moves(as, p) == \E k \in 1..Len(as) : p \in as[k].props
StyleOK(e, as) ==
  /\ \A k \in 1..Len(as) : Keeps(as[k])
  /\ \A j, k \in 1..Len(as) : j # k => as[j].props \cap as[k].props = {}
  /\ \A p \in SH!Prop : e.style[p] = "moved" => Moves(as, p)
  /\ e.overflow = "hidden" => Moves(as, "height")

\* Whether an element will be seen when what is under way is done with, and what a call makes of that.
Shows(ts) == \E k \in 1..Len(ts) : ts[k].do = "show"
Ahead(e, as, ts) == IF as # <<>> THEN as[1].show ELSE IF Shows(ts) THEN TRUE ELSE ~SH!Hidden(e)
Turned(c, v) == IF c.val = "show" THEN TRUE ELSE IF c.val = "hide" THEN FALSE ELSE ~v

\* What runs is alone, and nothing is taken from the queue meanwhile.
AloneOK(e, as, ts) ==
  /\ Len(as) <= 1
  /\ as # <<>> => Plainly(ts) /\ ~Shows(ts) /\ (as[1].show => ~SH!Hidden(e))

\* The calls in the queue lead from v to w.
Leads(v, cs, w) ==
  \E h \in [0..Len(cs) -> BOOLEAN] :
    /\ h[0] = v /\ h[Len(cs)] = w
    /\ \A k \in 1..Len(cs) : h[k] = Turned(cs[k], h[k - 1])

Kinds == natural \in {"block", "inline"} /\ sheet \in BOOLEAN

\* The values of el, queue, busy, running, tasks, turns, asked, orderly and whole.
ShowOK(e, cs, b, as, ts, size, v, o, w) ==
  /\ e \in Element /\ Displayed(e) /\ cs \in Seq(Animated) /\ as \in Seq(Running) /\ ts \in Seq(Tasks)
  /\ b \in BOOLEAN /\ size \in 0..MaxAnimated /\ v \in BOOLEAN /\ o \in BOOLEAN /\ w \in BOOLEAN
  /\ Early(ts) /\ Forces(ts, Len(as)) /\ QueueOK(cs, b, as, ts)
  /\ w => StyleOK(e, as)
  /\ o => AloneOK(e, as, ts) /\ Leads(Ahead(e, as, ts), cs, v)

ShowInv == Kinds /\ ShowOK(el, queue, busy, running, tasks, turns, asked, orderly, whole)

-----------------------------------------------------------------------------
(* What the parts of calls do to the element.                              *)

LEMMA UnsetApart == Unset \notin {"", "none", "inline-block", "block", "inline", "own", "hidden"} /\ Animated \subseteq SH!Call
BY ShowAssumption DEF SH!CallAssumption, SH!Display

LEMMA ShowIs ==
  ASSUME Kinds, NEW e \in Element, Displayed(e)
  PROVE  /\ SH!Show(e) \in Element /\ Displayed(SH!Show(e)) /\ ~SH!Hidden(SH!Show(e))
         /\ SH!Show(e).style = e.style /\ SH!Show(e).overflow = e.overflow
<1> DEFINE inline == IF e.old = Unset /\ e.inline = "none" THEN "" ELSE e.inline
           old == IF inline = "" /\ sheet THEN natural ELSE e.old
           shown == IF inline \notin {"", "none"} THEN inline ELSE IF old = Unset THEN "" ELSE old
           s == SH!Show(e)
<1>1. s = [e EXCEPT !.inline = shown, !.old = old]
  BY DEF SH!Show
<1>2. /\ old \in {Unset, natural} \union (IF natural = "inline" THEN {"inline-block"} ELSE {})
      /\ shown \in {"", natural} \union (IF natural = "inline" THEN {"inline-block"} ELSE {})
      /\ shown = "" => ~sheet
  BY UnsetApart DEF Kinds, Displayed, Element
<1> HIDE DEF inline, old, shown, s
<1>3. old \in SH!Display \union {Unset} /\ shown \in SH!Display
  BY <1>2 DEF Kinds, SH!Display
<1>4. s \in Element /\ s.inline = shown /\ s.old = old /\ s.style = e.style /\ s.overflow = e.overflow
  BY <1>1, <1>3 DEF Element
<1>5. Displayed(s)
  BY <1>2, <1>4 DEF Displayed
<1>6. ~SH!Hidden(s)
  BY <1>2, <1>4 DEF SH!Hidden, SH!Css, Kinds
<1> QED
  BY <1>4, <1>5, <1>6 DEF s

LEMMA HideIs ==
  ASSUME Kinds, NEW e \in Element, Displayed(e)
  PROVE  /\ SH!Hide(e) \in Element /\ Displayed(SH!Hide(e)) /\ SH!Hidden(SH!Hide(e))
         /\ SH!Hide(e).style = e.style /\ SH!Hide(e).overflow = e.overflow
<1> DEFINE old == IF e.old = Unset /\ ~SH!Hidden(e) THEN SH!Css(e) ELSE e.old
           s == SH!Hide(e)
<1>1. s = [e EXCEPT !.inline = "none", !.old = old]
  BY DEF SH!Hide
<1>2. old \in {Unset, natural} \union (IF natural = "inline" THEN {"inline-block"} ELSE {})
  BY DEF Displayed, Kinds, SH!Hidden, SH!Css
<1> HIDE DEF old, s
<1>3. old \in SH!Display \union {Unset} /\ "none" \in SH!Display
  BY <1>2 DEF Kinds, SH!Display
<1>4. s \in Element /\ s.inline = "none" /\ s.old = old /\ s.style = e.style /\ s.overflow = e.overflow
  BY <1>1, <1>3 DEF Element
<1>5. Displayed(s) /\ SH!Hidden(s)
  BY <1>2, <1>4 DEF Displayed, SH!Hidden, SH!Css
<1> QED
  BY <1>4, <1>5 DEF s

LEMMA PreparedIs ==
  ASSUME Kinds, NEW e \in Element, Displayed(e), NEW c \in SH!Call
  PROVE  /\ SH!Prepared(e, c) \in Element /\ Displayed(SH!Prepared(e, c))
         /\ SH!Hidden(SH!Prepared(e, c)) <=> SH!Hidden(e)
         /\ SH!Prepared(e, c).style = e.style
         /\ SH!Prepared(e, c).overflow = IF "height" \in c.props THEN "hidden" ELSE e.overflow
<1> DEFINE inline == IF SH!Css(e) = "inline" THEN "inline-block" ELSE e.inline
           s == SH!Prepared(e, c)
<1>1. CASE "height" \notin c.props
  BY <1>1 DEF SH!Prepared
<1>2. CASE "height" \in c.props
  <2>1. s = [e EXCEPT !.inline = inline, !.overflow = "hidden"]
    BY <1>2 DEF SH!Prepared
  <2>2. /\ inline \in {"", "none", natural} \union (IF natural = "inline" THEN {"inline-block"} ELSE {})
        /\ inline = e.inline \/ (inline = "inline-block" /\ SH!Css(e) = "inline")
    BY DEF Displayed, Kinds, SH!Css
  <2> HIDE DEF inline, s
  <2>3. inline \in SH!Display
    BY <2>2 DEF Kinds, SH!Display
  <2>4. s \in Element /\ s.inline = inline /\ s.old = e.old /\ s.style = e.style /\ s.overflow = "hidden"
    BY <2>1, <2>3 DEF Element
  <2>5. Displayed(s)
    BY <2>2, <2>4 DEF Displayed
  <2>6. SH!Hidden(s) <=> SH!Hidden(e)
    BY <2>2, <2>4 DEF SH!Hidden, SH!Css
  <2> QED
    BY <1>2, <2>4, <2>5, <2>6 DEF s
<1> QED
  BY <1>1, <1>2

LEMMA MovedIs ==
  ASSUME NEW e \in Element, Displayed(e), NEW a \in Running
  PROVE  /\ SH!Moved(e, a) \in Element /\ Displayed(SH!Moved(e, a))
         /\ SH!Hidden(SH!Moved(e, a)) <=> SH!Hidden(e)
         /\ \A p \in SH!Prop : SH!Moved(e, a).style[p] = IF p \in a.props THEN "moved" ELSE e.style[p]
         /\ SH!Moved(e, a).overflow = e.overflow
<1> DEFINE style == [p \in SH!Prop |-> IF p \in a.props THEN "moved" ELSE e.style[p]]
           s == SH!Moved(e, a)
<1>1. s = [e EXCEPT !.style = style]
  BY DEF SH!Moved
<1>2. style \in [SH!Prop -> SH!Style]
  BY DEF SH!Style, Element
<1>3. \A p \in SH!Prop : style[p] = IF p \in a.props THEN "moved" ELSE e.style[p]
  OBVIOUS
<1> HIDE DEF style, s
<1>4. s \in Element /\ s.inline = e.inline /\ s.old = e.old /\ s.style = style /\ s.overflow = e.overflow
  BY <1>1, <1>2 DEF Element
<1>5. Displayed(s) /\ (SH!Hidden(s) <=> SH!Hidden(e))
  BY <1>4 DEF Displayed, SH!Hidden, SH!Css
<1> QED
  BY <1>3, <1>4, <1>5 DEF s

LEMMA BegunIs ==
  ASSUME NEW e \in Element, NEW c \in SH!Call
  PROVE  /\ SH!Begun(e, c) \in Running
         /\ SH!Begun(e, c).show <=> SH!Hidden(e)
         /\ SH!Begun(e, c).props = c.props /\ SH!Begun(e, c).queue = c.queue
         /\ SH!Begun(e, c).orig = e.style
         /\ SH!Begun(e, c).overflow = IF "height" \in c.props THEN e.overflow ELSE Unset
<1>1. c.props \in SUBSET SH!Prop /\ c.queue \in BOOLEAN
  BY DEF SH!Call
<1>2. e.style \in [SH!Prop -> SH!Style] /\ e.overflow \in {"own", "hidden"}
  BY DEF Element
<1>3. SH!Hidden(e) \in BOOLEAN
  BY DEF SH!Hidden
<1> QED
  BY <1>1, <1>2, <1>3 DEF SH!Begun, Running

LEMMA FinishedIs ==
  ASSUME Kinds, NEW e \in Element, Displayed(e), NEW a \in Running
  PROVE  /\ SH!Finished(e, a) \in Element /\ Displayed(SH!Finished(e, a))
         /\ SH!Hidden(SH!Finished(e, a)) <=> (~a.show \/ SH!Hidden(e))
         /\ \A p \in SH!Prop : SH!Finished(e, a).style[p] = IF p \in a.props THEN a.orig[p] ELSE e.style[p]
         /\ SH!Finished(e, a).overflow = IF a.overflow = Unset THEN e.overflow ELSE a.overflow
<1> DEFINE over == IF a.overflow = Unset THEN e.overflow ELSE a.overflow
           back == [e EXCEPT !.overflow = over]
           done == IF a.show THEN back ELSE SH!Hide(back)
           style == [p \in SH!Prop |-> IF p \in a.props THEN a.orig[p] ELSE done.style[p]]
           s == SH!Finished(e, a)
<1>1. s = [done EXCEPT !.style = style]
  BY DEF SH!Finished
<1>2. over \in {"own", "hidden"}
  BY DEF Element, Running
<1> HIDE DEF over
<1>3. back \in Element /\ back.inline = e.inline /\ back.old = e.old /\ back.style = e.style /\ back.overflow = over
  BY <1>2 DEF Element
<1> HIDE DEF back
<1>4. Displayed(back) /\ (SH!Hidden(back) <=> SH!Hidden(e))
  BY <1>3 DEF Displayed, SH!Hidden, SH!Css
<1>5. /\ SH!Hide(back) \in Element /\ Displayed(SH!Hide(back)) /\ SH!Hidden(SH!Hide(back))
      /\ SH!Hide(back).style = back.style /\ SH!Hide(back).overflow = back.overflow
  BY <1>3, <1>4, HideIs
<1>6. /\ done \in Element /\ Displayed(done) /\ done.style = e.style /\ done.overflow = over
      /\ SH!Hidden(done) <=> (~a.show \/ SH!Hidden(e))
  BY <1>3, <1>4, <1>5
<1> HIDE DEF done
<1>7. style \in [SH!Prop -> SH!Style]
  BY <1>6 DEF Element, Running
<1>8. \A p \in SH!Prop : style[p] = IF p \in a.props THEN a.orig[p] ELSE e.style[p]
  BY <1>6
<1> HIDE DEF style, s
<1>9. s \in Element /\ s.inline = done.inline /\ s.old = done.old /\ s.style = style /\ s.overflow = over
  BY <1>1, <1>6, <1>7 DEF Element
<1>10. Displayed(s) /\ (SH!Hidden(s) <=> SH!Hidden(done))
  BY <1>6, <1>9 DEF Displayed, SH!Hidden, SH!Css
<1> QED
  BY <1>6, <1>8, <1>9, <1>10 DEF s, over

-----------------------------------------------------------------------------
(* Tasks.                                                                  *)

\* A task on top of others.
LEMMA TaskOn ==
  ASSUME NEW ts \in Seq(Tasks), NEW t \in Tasks, NEW u, u = <<t>> \o ts
  PROVE  /\ u \in Seq(Tasks) /\ Len(u) = Len(ts) + 1 /\ u[1] = t
         /\ \A k \in 1..Len(ts) : u[k + 1] = ts[k]
         /\ \A k \in 1..Len(u) : u[k] = IF k = 1 THEN t ELSE ts[k - 1]
<1>1. <<t>> \in Seq(Tasks) /\ Len(<<t>>) = 1 /\ <<t>>[1] = t /\ Len(ts) \in Nat
  OBVIOUS
<1>2. /\ u \in Seq(Tasks) /\ Len(u) = 1 + Len(ts)
      /\ \A k \in 1..(1 + Len(ts)) : u[k] = IF k <= 1 THEN <<t>>[k] ELSE ts[k - 1]
  BY <1>1, ConcatProperties
<1> HIDE DEF Tasks
<1>3. \A k \in 1..Len(u) : u[k] = IF k = 1 THEN t ELSE ts[k - 1]
  BY <1>1, <1>2
<1>4. u[1] = t
  BY <1>1, <1>2, <1>3
<1>5. \A k \in 1..Len(ts) : u[k + 1] = ts[k]
  BY <1>1, <1>2, <1>3
<1> QED
  BY <1>1, <1>2, <1>3, <1>4, <1>5

LEMMA TaskOnKeeps ==
  ASSUME NEW ts \in Seq(Tasks), NEW t \in Tasks, NEW size \in Nat, NEW u, u = <<t>> \o ts,
         Plainly(ts), Forces(ts, size), t.do # "force"
  PROVE  /\ u \in Seq(Tasks) /\ u # <<>> /\ Early(u) /\ Forces(u, size)
         /\ Plainly(u) <=> t.do # "dequeue"
         /\ Shows(u) <=> (t.do = "show" \/ Shows(ts))
<1>1. /\ u \in Seq(Tasks) /\ Len(u) = Len(ts) + 1 /\ u[1] = t /\ Len(ts) \in Nat
      /\ \A k \in 1..Len(ts) : u[k + 1] = ts[k]
      /\ \A k \in 1..Len(u) : u[k] = IF k = 1 THEN t ELSE ts[k - 1]
  BY TaskOn
<1>2. \A k \in 1..Len(u) : k = 1 \/ (k - 1 \in 1..Len(ts) /\ u[k] = ts[k - 1])
  BY <1>1
<1>3. 1 \in 1..Len(u) /\ \A k \in 1..Len(ts) : k + 1 \in 1..Len(u)
  BY <1>1
<1>4. u # <<>>
  BY <1>1
<1>5. Early(u)
  BY <1>2 DEF Early, Plainly
<1>6. Plainly(u) <=> t.do # "dequeue"
  BY <1>1, <1>2, <1>3 DEF Plainly
<1>7. Shows(u) <=> (t.do = "show" \/ Shows(ts))
  <2>1. ASSUME Shows(u)  PROVE t.do = "show" \/ Shows(ts)
    BY <1>1, <1>2, <2>1 DEF Shows
  <2>2. ASSUME t.do = "show"  PROVE Shows(u)
    BY <1>1, <1>3, <2>2 DEF Shows
  <2>3. ASSUME Shows(ts)  PROVE Shows(u)
    <3>1. PICK k \in 1..Len(ts) : ts[k].do = "show"
      BY <2>3 DEF Shows
    <3>2. k + 1 \in 1..Len(u) /\ u[k + 1].do = "show"
      BY <1>1, <1>3, <3>1
    <3> QED
      BY <3>2 DEF Shows
  <2> QED
    BY <2>1, <2>2, <2>3
<1>8. \A k \in 1..Len(u) : u[k].do = "force" => u[k].at \in 1..size
  BY <1>1, <1>2 DEF Forces
<1>9. ASSUME NEW j \in 1..Len(u), NEW k \in 1..Len(u), j < k, u[j].do = "force", u[k].do = "force"
      PROVE  u[k].at < u[j].at
  <2>1. j # 1 /\ k # 1 /\ j \in Nat /\ k \in Nat
    BY <1>1, <1>9
  <2>2. j - 1 \in 1..Len(ts) /\ k - 1 \in 1..Len(ts) /\ j - 1 < k - 1 /\ u[j] = ts[j - 1] /\ u[k] = ts[k - 1]
    BY <1>2, <1>9, <2>1
  <2> QED
    BY <1>9, <2>2 DEF Forces
<1> QED
  BY <1>1, <1>4, <1>5, <1>6, <1>7, <1>8, <1>9 DEF Forces

LEMMA TasksAre == \A name \in {"dequeue", "callback", "keep", "remove", "show"} : [do |-> name] \in Tasks /\ [do |-> name].do = name
BY DEF Tasks

\* complete, to be done before other tasks.
LEMMA CompleteOn ==
  ASSUME NEW ts \in Seq(Tasks), NEW size \in Nat, NEW queued \in BOOLEAN, NEW u, u = SH!Complete(queued) \o ts,
         Plainly(ts), Forces(ts, size)
  PROVE  /\ u \in Seq(Tasks) /\ u # <<>> /\ Early(u) /\ Forces(u, size)
         /\ Plainly(u) <=> ~queued
         /\ Shows(u) <=> Shows(ts)
<1> DEFINE d == [do |-> "dequeue"]
           c == [do |-> "callback"]
           v == <<c>> \o ts
<1>1. d \in Tasks /\ c \in Tasks /\ d.do = "dequeue" /\ c.do = "callback"
  BY TasksAre
<1>2. SH!Complete(queued) = (IF queued THEN <<d>> ELSE <<>>) \o <<c>>
  BY DEF SH!Complete, SH!Task
<1> HIDE DEF d, c
<1>3. <<d>> \in Seq(Tasks) /\ <<c>> \in Seq(Tasks)
  BY <1>1
<1>4. /\ v \in Seq(Tasks) /\ v # <<>> /\ Early(v) /\ Forces(v, size) /\ Plainly(v)
      /\ Shows(v) <=> Shows(ts)
  BY <1>1, TaskOnKeeps
<1>5. CASE queued
  <2>1. u = (<<d>> \o <<c>>) \o ts
    BY <1>2, <1>5
  <2>2. u = <<d>> \o v
    BY <1>3, <2>1, ConcatAssociative
  <2> HIDE DEF v
  <2> QED
    BY <1>1, <1>4, <1>5, <2>2, TaskOnKeeps
<1>6. CASE ~queued
  <2>1. <<>> \o <<c>> = <<c>>
    BY <1>3, ConcatEmptySeq
  <2>2. u = v
    BY <1>2, <1>6, <2>1
  <2> HIDE DEF v
  <2> QED
    BY <1>4, <1>6, <2>2
<1> QED
  BY <1>5, <1>6

\* What is under the task that goes on.
LEMMA TaskOff ==
  ASSUME NEW ts \in Seq(Tasks), ts # <<>>, NEW size \in Nat, Early(ts), Forces(ts, size)
  PROVE  /\ Head(ts) \in Tasks /\ Head(ts) = ts[1] /\ Tail(ts) \in Seq(Tasks) /\ Plainly(Tail(ts)) /\ Forces(Tail(ts), size)
         /\ Shows(ts) <=> (Head(ts).do = "show" \/ Shows(Tail(ts)))
         /\ Plainly(ts) <=> Head(ts).do # "dequeue"
         /\ Head(ts).do = "force" => Head(ts).at \in 1..size /\ Forces(Tail(ts), size - 1)
<1> DEFINE under == Tail(ts)
<1>1. /\ Head(ts) \in Tasks /\ Head(ts) = ts[1] /\ under \in Seq(Tasks) /\ Len(under) = Len(ts) - 1
      /\ Len(ts) \in Nat \ {0} /\ Len(under) \in Nat
      /\ \A k \in 1..Len(under) : under[k] = ts[k + 1]
  BY HeadTailProperties, EmptySeq, LenProperties
<1> HIDE DEF under
<1>2. /\ 1 \in 1..Len(ts) /\ \A k \in 1..Len(under) : k + 1 \in 1..Len(ts) /\ k + 1 # 1
      /\ \A k \in 1..Len(ts) : k = 1 \/ (k - 1 \in 1..Len(under) /\ ts[k] = under[k - 1])
  BY <1>1
<1>3. Plainly(under)
  BY <1>1, <1>2 DEF Early, Plainly
<1>4. Forces(under, size)
  <2>1. \A k \in 1..Len(under) : under[k].do = "force" => under[k].at \in 1..size
    BY <1>1, <1>2 DEF Forces
  <2>2. ASSUME NEW j \in 1..Len(under), NEW k \in 1..Len(under), j < k, under[j].do = "force", under[k].do = "force"
        PROVE  under[k].at < under[j].at
    <3>1. j + 1 \in 1..Len(ts) /\ k + 1 \in 1..Len(ts) /\ j + 1 < k + 1 /\ under[j] = ts[j + 1] /\ under[k] = ts[k + 1]
      BY <1>1, <1>2, <2>2
    <3> QED
      BY <2>2, <3>1 DEF Forces
  <2> QED
    BY <2>1, <2>2 DEF Forces
<1>5. Shows(ts) <=> (Head(ts).do = "show" \/ Shows(under))
  BY <1>1, <1>2 DEF Shows
<1>6. Plainly(ts) <=> Head(ts).do # "dequeue"
  BY <1>1, <1>2, <1>3 DEF Plainly
<1>7. ASSUME Head(ts).do = "force"
      PROVE  Head(ts).at \in 1..size /\ Forces(under, size - 1)
  <2>1. Head(ts).at \in 1..size
    BY <1>1, <1>2, <1>7 DEF Forces
  <2>2. ASSUME NEW k \in 1..Len(under), under[k].do = "force"  PROVE under[k].at \in 1..(size - 1)
    <3>1. under[k].at \in 1..size
      BY <1>4, <2>2 DEF Forces
    <3>2. under[k].at < Head(ts).at
      <4>1. k + 1 \in 1..Len(ts) /\ 1 < k + 1 /\ under[k] = ts[k + 1] /\ Head(ts) = ts[1]
        BY <1>1, <1>2
      <4> QED
        BY <1>2, <1>7, <2>2, <4>1 DEF Forces
    <3> QED
      BY <2>1, <3>1, <3>2
  <2> QED
    BY <1>4, <2>1, <2>2 DEF Forces
<1> QED
  BY <1>1, <1>3, <1>4, <1>5, <1>6, <1>7 DEF under

\* The queue was found empty: whoever called is to remove it.
LEMMA MarkedAre ==
  ASSUME NEW ts \in Seq(Tasks), NEW size \in Nat, Plainly(ts), Forces(ts, size), NEW u,
         u = [k \in DOMAIN ts |-> IF ts[k].do = "keep" THEN [do |-> "remove"] ELSE ts[k]]
  PROVE  /\ u \in Seq(Tasks) /\ Plainly(u) /\ Forces(u, size)
         /\ Shows(u) <=> Shows(ts)
<1>1. Len(ts) \in Nat /\ DOMAIN ts = 1..Len(ts) /\ \A k \in 1..Len(ts) : ts[k] \in Tasks
  BY ElementOfSeq
<1>2. [do |-> "remove"] \in Tasks /\ [do |-> "remove"].do = "remove"
  BY TasksAre
<1>3. /\ u \in Seq(Tasks) /\ Len(u) = Len(ts)
      /\ \A k \in 1..Len(ts) : u[k] = IF ts[k].do = "keep" THEN [do |-> "remove"] ELSE ts[k]
  <2>1. \A k \in 1..Len(ts) : u[k] = IF ts[k].do = "keep" THEN [do |-> "remove"] ELSE ts[k]
    BY <1>1
  <2>2. u \in [1..Len(ts) -> Tasks]
    BY <1>1, <1>2
  <2> QED
    BY <1>1, <2>1, <2>2
<1>4. \A k \in 1..Len(ts) : u[k] = ts[k] \/ (u[k].do = "remove" /\ ts[k].do = "keep")
  BY <1>2, <1>3
<1>5. Plainly(u)
  BY <1>3, <1>4 DEF Plainly
<1>6. Shows(u) <=> Shows(ts)
  BY <1>3, <1>4 DEF Shows
<1>7. Forces(u, size)
  BY <1>3, <1>4 DEF Forces
<1> QED
  BY <1>3, <1>5, <1>6, <1>7

LEMMA PendingIs == tasks \in Seq(Tasks) => (SH!ShowPending <=> Shows(tasks))
BY DEF SH!ShowPending, SH!Range, Shows

-----------------------------------------------------------------------------
(* Animations.                                                             *)

\* A sequence without the element at i.
LEMMA RemoveAtIs ==
  ASSUME NEW S, NEW s \in Seq(S), NEW i \in 1..Len(s), NEW r, r = SH!RemoveAt(s, i)
  PROVE  /\ r \in Seq(S) /\ Len(r) = Len(s) - 1
         /\ \A j \in 1..Len(r) : r[j] = IF j < i THEN s[j] ELSE s[j + 1]
<1> DEFINE size == Len(s)
           b == SubSeq(s, 1, i - 1)
           c == SubSeq(s, i + 1, size)
<1>1. size \in Nat /\ i \in Nat /\ 1 <= i /\ i <= size
  OBVIOUS
<1>2. r = b \o c
  BY Zenon DEF SH!RemoveAt
<1>3. \A j \in 1..(i - 1) : s[j] \in S
  <2> SUFFICES ASSUME NEW j \in 1..(i - 1)  PROVE s[j] \in S
    OBVIOUS
  <2>1. j \in 1..Len(s)
    BY <1>1
  <2> QED
    BY <2>1, ElementOfSeq
<1>4. \A j \in (i + 1)..size : s[j] \in S
  <2> SUFFICES ASSUME NEW j \in (i + 1)..size  PROVE s[j] \in S
    OBVIOUS
  <2>1. j \in 1..Len(s)
    BY <1>1
  <2> QED
    BY <2>1, ElementOfSeq
<1>5. /\ b \in Seq(S) /\ Len(b) = (IF 1 <= i - 1 THEN (i - 1) - 1 + 1 ELSE 0)
      /\ \A j \in 1..((i - 1) - 1 + 1) : b[j] = s[1 + j - 1]
  <2>1. 1 \in Int /\ i - 1 \in Int
    BY <1>1
  <2> QED
    BY <1>3, <2>1, SubSeqProperties
<1>6. /\ c \in Seq(S) /\ Len(c) = (IF i + 1 <= size THEN size - (i + 1) + 1 ELSE 0)
      /\ \A j \in 1..(size - (i + 1) + 1) : c[j] = s[(i + 1) + j - 1]
  <2>1. i + 1 \in Int /\ size \in Int
    BY <1>1
  <2> QED
    BY <1>4, <2>1, SubSeqProperties
<1> HIDE DEF b, c, size
<1>7. Len(b) = i - 1 /\ \A j \in 1..(i - 1) : b[j] = s[j]
  <2>1. Len(b) = i - 1
    BY <1>1, <1>5
  <2>2. ASSUME NEW j \in 1..(i - 1)  PROVE b[j] = s[j]
    <3>1. j \in 1..((i - 1) - 1 + 1) /\ 1 + j - 1 = j
      BY <1>1
    <3> QED
      BY <1>5, <3>1
  <2> QED
    BY <2>1, <2>2
<1>8. Len(c) = size - i /\ \A j \in 1..(size - i) : c[j] = s[i + j]
  <2>1. Len(c) = size - i
    BY <1>1, <1>6
  <2>2. ASSUME NEW j \in 1..(size - i)  PROVE c[j] = s[i + j]
    <3>1. j \in 1..(size - (i + 1) + 1) /\ (i + 1) + j - 1 = i + j
      BY <1>1
    <3> QED
      BY <1>6, <3>1
  <2> QED
    BY <2>1, <2>2
<1>9. /\ r \in Seq(S) /\ Len(r) = Len(b) + Len(c)
      /\ \A j \in 1..Len(b) + Len(c) : r[j] = IF j <= Len(b) THEN b[j] ELSE c[j - Len(b)]
  <2>1. b \in Seq(S) /\ c \in Seq(S)
    BY <1>5, <1>6
  <2>2. /\ b \o c \in Seq(S) /\ Len(b \o c) = Len(b) + Len(c)
        /\ \A j \in 1..Len(b) + Len(c) : (b \o c)[j] = IF j <= Len(b) THEN b[j] ELSE c[j - Len(b)]
    BY <2>1, ConcatProperties
  <2> QED
    BY <1>2, <2>2
<1>10. Len(r) = size - 1
  BY <1>1, <1>7, <1>8, <1>9
<1>11. ASSUME NEW j \in 1..Len(r)  PROVE r[j] = IF j < i THEN s[j] ELSE s[j + 1]
  <2>1. j \in 1..Len(b) + Len(c) /\ j \in Nat
    BY <1>9
  <2>2. CASE j < i
    <3>1. j <= Len(b) /\ j \in 1..(i - 1)
      BY <1>1, <1>7, <2>1, <2>2
    <3> QED
      BY <1>7, <1>9, <2>1, <2>2, <3>1
  <2>3. CASE ~(j < i)
    <3>1. ~(j <= Len(b)) /\ j - Len(b) \in 1..(size - i) /\ i + (j - Len(b)) = j + 1
      <4>1. Len(b) = i - 1 /\ j \in Nat /\ j <= size - 1 /\ i <= j
        BY <1>1, <1>7, <1>10, <2>1, <2>3
      <4> QED
        BY <1>1, <4>1
    <3> QED
      BY <1>8, <1>9, <2>1, <2>3, <3>1
  <2> QED
    BY <2>2, <2>3
<1> QED
  BY <1>9, <1>10, <1>11 DEF size

\* Of a sequence, r has all elements but that at i, no others, and each at one place only.
HasOthers(s, i, r) == \A j \in 1..Len(s) : j # i => \E k \in 1..Len(r) : r[k] = s[j]
HasOnly(s, i, r) == \A k \in 1..Len(r) : \E j \in 1..Len(s) : j # i /\ r[k] = s[j]
HasOnce(s, r) == \A k, m \in 1..Len(r) : k # m => \E j, l \in 1..Len(s) : j # l /\ r[k] = s[j] /\ r[m] = s[l]

LEMMA RemovedAre ==
  ASSUME NEW S, NEW s \in Seq(S), NEW i \in 1..Len(s)
  PROVE  HasOthers(s, i, SH!RemoveAt(s, i)) /\ HasOnly(s, i, SH!RemoveAt(s, i)) /\ HasOnce(s, SH!RemoveAt(s, i))
<1> DEFINE r == SH!RemoveAt(s, i)
<1>1. /\ Len(r) = Len(s) - 1 /\ Len(s) \in Nat
      /\ \A j \in 1..Len(r) : r[j] = IF j < i THEN s[j] ELSE s[j + 1]
  BY RemoveAtIs, LenProperties
<1> HIDE DEF r
<1>2. ASSUME NEW j \in 1..Len(s), j # i  PROVE \E k \in 1..Len(r) : r[k] = s[j]
  <2>1. CASE j < i
    <3>1. j \in 1..Len(r) /\ r[j] = s[j]
      BY <1>1, <2>1
    <3> QED
      BY <3>1
  <2>2. CASE ~(j < i)
    <3>1. j - 1 \in 1..Len(r) /\ ~(j - 1 < i) /\ j - 1 + 1 = j
      BY <1>1, <1>2, <2>2
    <3>2. r[j - 1] = s[j]
      BY <1>1, <3>1
    <3> QED
      BY <3>1, <3>2
  <2> QED
    BY <2>1, <2>2
<1>3. ASSUME NEW k \in 1..Len(r)  PROVE \E j \in 1..Len(s) : j # i /\ r[k] = s[j] /\ j = IF k < i THEN k ELSE k + 1
  BY <1>1
<1>4. ASSUME NEW k \in 1..Len(r), NEW m \in 1..Len(r), k # m
      PROVE  \E j, l \in 1..Len(s) : j # l /\ r[k] = s[j] /\ r[m] = s[l]
  <2>1. PICK j \in 1..Len(s) : r[k] = s[j] /\ j = IF k < i THEN k ELSE k + 1
    BY <1>3
  <2>2. PICK l \in 1..Len(s) : r[m] = s[l] /\ l = IF m < i THEN m ELSE m + 1
    BY <1>3
  <2>3. j # l
    BY <1>1, <1>4, <2>1, <2>2
  <2> QED
    BY <2>1, <2>2, <2>3
<1> QED
  BY <1>2, <1>3, <1>4 DEF r, HasOthers, HasOnly, HasOnce

\* A sequence with one element more.
LEMMA AppendedAre ==
  ASSUME NEW S, NEW s \in Seq(S), NEW a \in S
  PROVE  /\ Len(Append(s, a)) \in 1..Len(Append(s, a)) /\ Append(s, a)[Len(Append(s, a))] = a
         /\ \A k \in 1..Len(s) : k \in 1..Len(Append(s, a)) /\ Append(s, a)[k] = s[k]
         /\ \A k \in 1..Len(Append(s, a)) :
               (k \in 1..Len(s) /\ Append(s, a)[k] = s[k]) \/ (k = Len(Append(s, a)) /\ Append(s, a)[k] = a)
<1> DEFINE b == Append(s, a)
<1>1. Len(b) = Len(s) + 1 /\ Len(s) \in Nat /\ b[Len(s) + 1] = a /\ \A k \in 1..Len(s) : b[k] = s[k]
  BY AppendProperties, LenProperties
<1> HIDE DEF b
<1>2. \A k \in 1..Len(b) : k \in 1..Len(s) \/ k = Len(b)
  BY <1>1
<1>3. Len(b) \in 1..Len(b) /\ \A k \in 1..Len(s) : k \in 1..Len(b)
  BY <1>1
<1> QED
  BY <1>1, <1>2, <1>3 DEF b

\* An animation begins that moves what no other does, and the element e becomes f.
Joins(e, as, a, f) ==
  /\ e \in Element /\ as \in Seq(Running) /\ StyleOK(e, as) /\ a \in Running
  /\ \A k \in 1..Len(as) : as[k].props \cap a.props = {}
  /\ a.orig = e.style /\ a.overflow = IF "height" \in a.props THEN e.overflow ELSE Unset
  /\ \A p \in SH!Prop : f.style[p] = IF p \in a.props THEN "moved" ELSE e.style[p]
  /\ f.overflow = IF "height" \in a.props THEN "hidden" ELSE e.overflow

LEMMA StyleBegins ==
  ASSUME NEW e, NEW as, NEW a, NEW f, Joins(e, as, a, f)
  PROVE  StyleOK(f, Append(as, a))
<1> DEFINE bs == Append(as, a)
<1>0. /\ e \in Element /\ as \in Seq(Running) /\ StyleOK(e, as) /\ a \in Running
      /\ \A k \in 1..Len(as) : as[k].props \cap a.props = {}
      /\ a.orig = e.style /\ a.overflow = IF "height" \in a.props THEN e.overflow ELSE Unset
      /\ \A p \in SH!Prop : f.style[p] = IF p \in a.props THEN "moved" ELSE e.style[p]
      /\ f.overflow = IF "height" \in a.props THEN "hidden" ELSE e.overflow
  BY DEF Joins
<1>1. /\ Len(bs) \in 1..Len(bs) /\ bs[Len(bs)] = a
      /\ \A k \in 1..Len(as) : k \in 1..Len(bs) /\ bs[k] = as[k]
      /\ \A k \in 1..Len(bs) : (k \in 1..Len(as) /\ bs[k] = as[k]) \/ (k = Len(bs) /\ bs[k] = a)
  BY <1>0, AppendedAre, Zenon
<1> HIDE DEF bs
<1>2. \A k \in 1..Len(bs) : (k \in 1..Len(as) /\ bs[k] = as[k]) \/ (k = Len(bs) /\ bs[k] = a)
  BY <1>1
<1>3. /\ e.style \in [SH!Prop -> SH!Style] /\ e.overflow \in {"own", "hidden"} /\ a.props \subseteq SH!Prop /\ "height" \in SH!Prop
      /\ \A k \in 1..Len(as) : as[k] \in Running
  <2>1. \A k \in 1..Len(as) : as[k] \in Running
    BY <1>0, ElementOfSeq
  <2> QED
    BY <1>0, <2>1 DEF Element, Running, SH!Prop
<1>4. Keeps(a)
  <2>1. \A p \in a.props : ~Moves(as, p)
    BY <1>0 DEF Moves
  <2>2. \A p \in a.props : e.style[p] = "own"
    BY <1>0, <1>3, <2>1 DEF StyleOK, SH!Style
  <2>3. "height" \in a.props => e.overflow = "own"
    BY <1>0, <1>3, <2>1 DEF StyleOK
  <2> QED
    BY <1>0, <2>2, <2>3 DEF Keeps
<1>5. \A k \in 1..Len(bs) : Keeps(bs[k])
  BY <1>0, <1>2, <1>4 DEF StyleOK
<1>6. ASSUME NEW j \in 1..Len(bs), NEW k \in 1..Len(bs), j # k
      PROVE  bs[j].props \cap bs[k].props = {}
  <2>1. CASE j \in 1..Len(as) /\ k \in 1..Len(as)
    BY <1>0, <1>1, <1>6, <2>1 DEF StyleOK
  <2>2. CASE j \in 1..Len(as) /\ k = Len(bs)
    BY <1>0, <1>1, <2>2
  <2>3. CASE j = Len(bs) /\ k \in 1..Len(as)
    BY <1>0, <1>1, <2>3
  <2> QED
    BY <1>2, <1>6, <2>1, <2>2, <2>3
<1>7. \A p \in SH!Prop : p \in a.props \/ Moves(as, p) => Moves(bs, p)
  <2>1. Len(bs) \in 1..Len(bs) /\ \A k \in 1..Len(as) : k \in 1..Len(bs)
    BY <1>1, Zenon
  <2> QED
    BY <1>1, <2>1 DEF Moves
<1>8. \A p \in SH!Prop : f.style[p] = "moved" => Moves(bs, p)
  BY <1>0, <1>7 DEF StyleOK
<1>9. f.overflow = "hidden" => Moves(bs, "height")
  BY <1>0, <1>3, <1>7 DEF StyleOK
<1> QED
  BY <1>5, <1>6, <1>8, <1>9 DEF StyleOK, bs

\* An animation ends.
LEMMA StyleEnds ==
  ASSUME NEW e \in Element, NEW as \in Seq(Running), StyleOK(e, as), NEW i \in 1..Len(as),
         NEW f, \A p \in SH!Prop : f.style[p] = IF p \in as[i].props THEN as[i].orig[p] ELSE e.style[p],
         f.overflow = IF as[i].overflow = Unset THEN e.overflow ELSE as[i].overflow
  PROVE  StyleOK(f, SH!RemoveAt(as, i))
<1> DEFINE r == SH!RemoveAt(as, i)
<1>1. /\ \A j \in 1..Len(as) : j # i => \E k \in 1..Len(r) : r[k] = as[j]
      /\ \A k \in 1..Len(r) : \E j \in 1..Len(as) : j # i /\ r[k] = as[j]
      /\ \A k, m \in 1..Len(r) : k # m => \E j, l \in 1..Len(as) : j # l /\ r[k] = as[j] /\ r[m] = as[l]
  <2>1. HasOthers(as, i, r) /\ HasOnly(as, i, r) /\ HasOnce(as, r)
    BY RemovedAre, Zenon
  <2> HIDE DEF r
  <2> QED
    BY <2>1, Zenon DEF HasOthers, HasOnly, HasOnce
<1> HIDE DEF r
<1>2. \A k \in 1..Len(r) : Keeps(r[k])
  BY <1>1 DEF StyleOK
<1>3. ASSUME NEW k \in 1..Len(r), NEW m \in 1..Len(r), k # m
      PROVE  r[k].props \cap r[m].props = {}
  <2>1. PICK j \in 1..Len(as), l \in 1..Len(as) : j # l /\ r[k] = as[j] /\ r[m] = as[l]
    BY <1>1, <1>3
  <2>2. as[j].props \cap as[l].props = {}
    BY <2>1 DEF StyleOK
  <2> QED
    BY <2>1, <2>2
<1>4. ASSUME NEW p, Moves(as, p), p \notin as[i].props  PROVE Moves(r, p)
  BY <1>1, <1>4 DEF Moves
<1>5. Keeps(as[i])
  BY DEF StyleOK
<1>6. ASSUME NEW p \in SH!Prop, f.style[p] = "moved"  PROVE Moves(r, p)
  <2>1. p \notin as[i].props
    BY <1>5, <1>6 DEF Keeps
  <2>2. Moves(as, p)
    BY <1>6, <2>1 DEF StyleOK
  <2> QED
    BY <1>4, <2>1, <2>2
<1>7. ASSUME f.overflow = "hidden"  PROVE Moves(r, "height")
  <2>1. "height" \notin as[i].props /\ e.overflow = "hidden"
    BY <1>5, <1>7, UnsetApart DEF Keeps
  <2>2. Moves(as, "height")
    BY <2>1 DEF StyleOK
  <2> QED
    BY <1>4, <2>1, <2>2
<1> QED
  BY <1>2, <1>3, <1>6, <1>7 DEF StyleOK, r

-----------------------------------------------------------------------------
(* An animated call begins.                                                *)

\* What a beginning leads to: the element e, the animations as, the tasks ts, and w for whole.
BeginsTo(c, under, e, as, ts, w) ==
  /\ e \in Element /\ Displayed(e) /\ as \in Seq(Running) /\ ts \in Seq(Tasks) /\ w \in BOOLEAN
  /\ Early(ts) /\ Forces(ts, Len(as)) /\ (w => StyleOK(e, as))
  /\ c.queue => ~Plainly(ts) \/ Queued(as)
  /\ Queued(running) => Queued(as)
  /\ running = <<>> /\ ~Shows(under) =>
       AloneOK(e, as, ts) /\ Ahead(e, as, ts) \in BOOLEAN /\ (Ahead(e, as, ts) <=> Turned(c, ~SH!Hidden(el)))

BeginReady(c, under) ==
  /\ Kinds /\ el \in Element /\ Displayed(el) /\ running \in Seq(Running) /\ whole \in BOOLEAN
  /\ whole => StyleOK(el, running)
  /\ c \in Animated /\ under \in Seq(Tasks) /\ Plainly(under) /\ Forces(under, Len(running))

\* A call that finds the element as it would make it.
Idle(c) == c.val # "toggle" /\ (c.val = "hide") = SH!Hidden(el)

LEMMA AppendedHere ==
  ASSUME NEW S, NEW s \in Seq(S), NEW a \in S, NEW b, b = Append(s, a)
  PROVE  /\ Len(b) \in 1..Len(b) /\ b[Len(b)] = a
         /\ \A k \in 1..Len(s) : k \in 1..Len(b) /\ b[k] = s[k]
<1>1. Len(b) = Len(s) + 1 /\ Len(s) \in Nat /\ b[Len(s) + 1] = a /\ \A k \in 1..Len(s) : b[k] = s[k]
  BY AppendProperties, LenProperties
<1> HIDE DEF Running
<1> QED
  BY <1>1

LEMMA CallIs ==
  ASSUME NEW c \in Animated
  PROVE  /\ c \in SH!Call /\ c.val \in {"show", "hide", "toggle"} /\ c.props \in SUBSET SH!Prop
         /\ c.queue \in BOOLEAN /\ c.instant \in BOOLEAN
BY UnsetApart DEF SH!Call

LEMMA TurnedIs ==
  ASSUME NEW c, c.val \in {"show", "hide", "toggle"}, ~Idle(c)
  PROVE  SH!Hidden(el) <=> Turned(c, ~SH!Hidden(el))
<1> DEFINE h == SH!Hidden(el)
<1>1. h \in BOOLEAN
  BY DEF SH!Hidden
<1>2. c.val = "toggle" \/ h # (c.val = "hide")
  BY DEF Idle
<1> HIDE DEF h
<1>3. CASE c.val = "show"
  <2>1. h
    BY <1>1, <1>2, <1>3
  <2> QED
    BY <1>3, <2>1 DEF Turned, h
<1>4. CASE c.val = "hide"
  <2>1. ~h
    BY <1>1, <1>2, <1>4
  <2> QED
    BY <1>4, <2>1 DEF Turned, h
<1>5. CASE c.val = "toggle"
  BY <1>1, <1>5 DEF Turned, h
<1> QED
  BY <1>3, <1>4, <1>5

LEMMA CompleteHere ==
  ASSUME NEW c, NEW under, BeginReady(c, under), NEW ts, ts = SH!Complete(c.queue) \o under
  PROVE  /\ ts \in Seq(Tasks) /\ Early(ts) /\ Forces(ts, Len(running))
         /\ c.queue => ~Plainly(ts)
         /\ Shows(ts) => Shows(under)
<1>1. Len(running) \in Nat /\ c \in Animated /\ under \in Seq(Tasks) /\ Plainly(under) /\ Forces(under, Len(running))
  BY LenProperties DEF BeginReady
<1>2. c.queue \in BOOLEAN
  BY <1>1, CallIs
<1> QED
  BY <1>1, <1>2, CompleteOn

\* There is nothing to show or hide.
LEMMA BeginsIdly ==
  ASSUME NEW c, NEW under, BeginReady(c, under), Idle(c),
         NEW ts, ts = SH!Complete(c.queue) \o under
  PROVE  BeginsTo(c, under, el, running, ts, whole)
<1>1. Len(running) \in Nat /\ c \in Animated /\ under \in Seq(Tasks) /\ Plainly(under) /\ Forces(under, Len(running))
  BY LenProperties DEF BeginReady
<1>2. c.queue \in BOOLEAN /\ c.val \in {"show", "hide", "toggle"}
  BY <1>1, CallIs
<1>3. /\ ts \in Seq(Tasks) /\ Early(ts) /\ Forces(ts, Len(running))
      /\ c.queue => ~Plainly(ts)
      /\ Shows(ts) => Shows(under)
  <2>1. ts \in Seq(Tasks)
    BY CompleteHere, Zenon
  <2>2. Early(ts)
    BY CompleteHere, Zenon
  <2>3. Forces(ts, Len(running))
    BY CompleteHere, Zenon
  <2>4. c.queue => ~Plainly(ts)
    BY CompleteHere, Zenon
  <2>5. Shows(ts) => Shows(under)
    BY CompleteHere, Zenon
  <2> QED
    BY <2>1, <2>2, <2>3, <2>4, <2>5
<1>4. ASSUME running = <<>>, ~Shows(under)
      PROVE  /\ AloneOK(el, running, ts) /\ Ahead(el, running, ts) \in BOOLEAN
             /\ Ahead(el, running, ts) <=> Turned(c, ~SH!Hidden(el))
  <2>1. AloneOK(el, running, ts)
    BY <1>4 DEF AloneOK
  <2>2. Ahead(el, running, ts) = ~SH!Hidden(el)
    BY <1>3, <1>4, Zenon DEF Ahead
  <2>3. Turned(c, ~SH!Hidden(el)) <=> ~SH!Hidden(el)
    BY <1>2 DEF Turned, Idle
  <2> QED
    BY <2>1, <2>2, <2>3, Zenon
<1> QED
  BY <1>2, <1>3, <1>4, Zenon DEF BeginsTo, BeginReady

\* The element as the first steps of an animation leave it.
LEMMA FirstSteps ==
  ASSUME NEW c, NEW under, BeginReady(c, under), NEW a, a = SH!Begun(el, c),
         NEW m, m = SH!Moved(SH!Prepared(el, c), a)
  PROVE  /\ a \in Running /\ a.props = c.props /\ a.queue = c.queue /\ a.orig = el.style
         /\ a.show <=> SH!Hidden(el)
         /\ a.overflow = IF "height" \in c.props THEN el.overflow ELSE Unset
         /\ m \in Element /\ Displayed(m) /\ (SH!Hidden(m) <=> SH!Hidden(el))
         /\ \A p \in SH!Prop : m.style[p] = IF p \in c.props THEN "moved" ELSE el.style[p]
         /\ m.overflow = IF "height" \in c.props THEN "hidden" ELSE el.overflow
<1> DEFINE r == SH!Prepared(el, c)
<1>1. c \in SH!Call /\ el \in Element /\ Displayed(el) /\ Kinds
  BY CallIs DEF BeginReady
<1>2. /\ a \in Running /\ (a.show <=> SH!Hidden(el)) /\ a.props = c.props /\ a.queue = c.queue /\ a.orig = el.style
      /\ a.overflow = IF "height" \in c.props THEN el.overflow ELSE Unset
  BY <1>1, BegunIs
<1>3. /\ r \in Element /\ Displayed(r) /\ (SH!Hidden(r) <=> SH!Hidden(el)) /\ r.style = el.style
      /\ r.overflow = IF "height" \in c.props THEN "hidden" ELSE el.overflow
  BY <1>1, PreparedIs
<1> HIDE DEF r
<1>4. m = SH!Moved(r, a)
  BY DEF r
<1>5. /\ m \in Element /\ Displayed(m) /\ (SH!Hidden(m) <=> SH!Hidden(r)) /\ m.overflow = r.overflow
      /\ \A p \in SH!Prop : m.style[p] = IF p \in a.props THEN "moved" ELSE r.style[p]
  BY <1>2, <1>3, <1>4, MovedIs
<1> QED
  BY <1>2, <1>3, <1>5

\* It runs.
LEMMA BeginsToRun ==
  ASSUME NEW c, NEW under, BeginReady(c, under), ~Idle(c),
         NEW a, a = SH!Begun(el, c), NEW m, m = SH!Moved(SH!Prepared(el, c), a),
         NEW e, e = IF a.show THEN SH!Show(m) ELSE m,
         NEW w, w = (whole /\ \A b \in SH!Range(running) : b.props \cap c.props = {})
  PROVE  BeginsTo(c, under, e, Append(running, a), under, w)
<1> DEFINE bs == Append(running, a)
<1>1. /\ a \in Running /\ a.props = c.props /\ a.queue = c.queue /\ a.orig = el.style
      /\ a.show <=> SH!Hidden(el)
      /\ a.overflow = IF "height" \in c.props THEN el.overflow ELSE Unset
      /\ m \in Element /\ Displayed(m) /\ (SH!Hidden(m) <=> SH!Hidden(el))
      /\ \A p \in SH!Prop : m.style[p] = IF p \in c.props THEN "moved" ELSE el.style[p]
      /\ m.overflow = IF "height" \in c.props THEN "hidden" ELSE el.overflow
  BY FirstSteps
<1>2. /\ Kinds /\ el \in Element /\ running \in Seq(Running) /\ Len(running) \in Nat /\ whole \in BOOLEAN /\ c \in Animated
      /\ under \in Seq(Tasks) /\ Plainly(under) /\ Forces(under, Len(running)) /\ (whole => StyleOK(el, running))
  BY LenProperties DEF BeginReady
<1>3. /\ e \in Element /\ Displayed(e) /\ ~SH!Hidden(e) /\ e.style = m.style /\ e.overflow = m.overflow
  <2>1. /\ SH!Show(m) \in Element /\ Displayed(SH!Show(m)) /\ ~SH!Hidden(SH!Show(m))
        /\ SH!Show(m).style = m.style /\ SH!Show(m).overflow = m.overflow
    BY <1>1, <1>2, ShowIs
  <2>2. CASE a.show
    BY <2>1, <2>2
  <2>3. CASE ~a.show
    BY <1>1, <2>3
  <2> QED
    BY <2>2, <2>3
<1>4. bs \in Seq(Running) /\ Len(bs) = Len(running) + 1
  BY <1>1, <1>2, AppendProperties
<1>5. /\ Len(bs) \in 1..Len(bs) /\ bs[Len(bs)] = a
      /\ \A k \in 1..Len(running) : k \in 1..Len(bs) /\ bs[k] = running[k]
  <2>1. a \in Running /\ running \in Seq(Running)
    BY <1>1, <1>2
  <2>2. /\ Len(bs) \in 1..Len(bs) /\ bs[Len(bs)] = a
        /\ \A k \in 1..Len(running) : k \in 1..Len(bs) /\ bs[k] = running[k]
    BY <2>1, AppendedHere
  <2> QED
    BY <2>2
<1>6. w => StyleOK(e, bs)
  <2> SUFFICES ASSUME w PROVE StyleOK(e, bs)
    OBVIOUS
  <2>1. StyleOK(el, running) /\ \A b \in SH!Range(running) : b.props \cap c.props = {}
    BY <1>2
  <2>2. \A k \in 1..Len(running) : running[k].props \cap a.props = {}
    BY <1>1, <2>1 DEF SH!Range
  <2>3. a.overflow = IF "height" \in a.props THEN el.overflow ELSE Unset
    BY <1>1
  <2>4. \A p \in SH!Prop : e.style[p] = IF p \in a.props THEN "moved" ELSE el.style[p]
    BY <1>1, <1>3
  <2>5. e.overflow = IF "height" \in a.props THEN "hidden" ELSE el.overflow
    BY <1>1, <1>3
  <2>6. Joins(el, running, a, e)
    BY <1>1, <1>2, <2>1, <2>2, <2>3, <2>4, <2>5, Zenon DEF Joins
  <2> QED
    BY <2>6, StyleBegins, Zenon
<1> HIDE DEF bs
<1>7. Forces(under, Len(bs))
  BY <1>2, <1>4 DEF Forces
<1>8. Early(under)
  BY <1>2 DEF Early, Plainly
<1>9. c.queue => Queued(bs)
  BY <1>1, <1>5 DEF Queued
<1>10. Queued(running) => Queued(bs)
  BY <1>5 DEF Queued
<1>11. ASSUME running = <<>>, ~Shows(under)
       PROVE  /\ AloneOK(e, bs, under) /\ Ahead(e, bs, under) \in BOOLEAN
              /\ Ahead(e, bs, under) <=> Turned(c, ~SH!Hidden(el))
  <2>1. Len(bs) = 1 /\ bs[1] = a /\ bs # <<>>
    <3>1. Len(running) = 0
      BY <1>11
    <3>2. Len(bs) = 1
      BY <1>4, <3>1
    <3> QED
      BY <1>5, <3>2
  <2>2. AloneOK(e, bs, under)
    BY <1>2, <1>3, <1>11, <2>1 DEF AloneOK
  <2>3. Ahead(e, bs, under) = a.show
    BY <2>1 DEF Ahead
  <2>4. a.show \in BOOLEAN
    BY <1>1 DEF Running
  <2>5. a.show <=> Turned(c, ~SH!Hidden(el))
    <3>1. c.val \in {"show", "hide", "toggle"}
      BY <1>2, CallIs
    <3> QED
      BY <1>1, <3>1, TurnedIs
  <2> QED
    BY <2>2, <2>3, <2>4, <2>5, Zenon
<1>12. w \in BOOLEAN
  BY <1>2
<1> QED
  BY <1>2, <1>3, <1>4, <1>6, <1>7, <1>8, <1>9, <1>10, <1>11, <1>12, Zenon DEF BeginsTo, bs

\* Without a duration it ends at once.
LEMMA BeginsAndEnds ==
  ASSUME NEW c, NEW under, BeginReady(c, under), ~Idle(c),
         NEW a, a = SH!Begun(el, c), NEW m, m = SH!Moved(SH!Prepared(el, c), a),
         NEW x, x \in {SH!Show(m), m},
         NEW e, e = SH!Finished(x, a),
         NEW w \in BOOLEAN, w => whole,
         NEW ts, ts = SH!Complete(c.queue) \o (IF a.show THEN SH!Task("show") ELSE <<>>) \o under
  PROVE  BeginsTo(c, under, e, running, ts, w)
<1> DEFINE s == [do |-> "show"]
           mid == (IF a.show THEN SH!Task("show") ELSE <<>>) \o under
<1>1. /\ a \in Running /\ a.props = c.props /\ a.queue = c.queue /\ a.orig = el.style
      /\ a.show <=> SH!Hidden(el)
      /\ a.overflow = IF "height" \in c.props THEN el.overflow ELSE Unset
      /\ m \in Element /\ Displayed(m) /\ (SH!Hidden(m) <=> SH!Hidden(el))
      /\ \A p \in SH!Prop : m.style[p] = IF p \in c.props THEN "moved" ELSE el.style[p]
      /\ m.overflow = IF "height" \in c.props THEN "hidden" ELSE el.overflow
  BY FirstSteps
<1>2. /\ Kinds /\ el \in Element /\ running \in Seq(Running) /\ Len(running) \in Nat /\ c \in Animated
      /\ under \in Seq(Tasks) /\ Plainly(under) /\ Forces(under, Len(running)) /\ (whole => StyleOK(el, running))
  BY LenProperties DEF BeginReady
<1>3. c.queue \in BOOLEAN /\ c.val \in {"show", "hide", "toggle"} /\ a.show \in BOOLEAN
  BY <1>1, <1>2, CallIs DEF Running
<1>4. x \in Element /\ Displayed(x) /\ x.style = m.style /\ x.overflow = m.overflow
  <2>1. /\ SH!Show(m) \in Element /\ Displayed(SH!Show(m))
        /\ SH!Show(m).style = m.style /\ SH!Show(m).overflow = m.overflow
    BY <1>1, <1>2, ShowIs
  <2> QED
    BY <1>1, <2>1
<1>5. /\ e \in Element /\ Displayed(e)
      /\ SH!Hidden(e) <=> (~a.show \/ SH!Hidden(x))
      /\ \A p \in SH!Prop : e.style[p] = IF p \in a.props THEN a.orig[p] ELSE x.style[p]
      /\ e.overflow = IF a.overflow = Unset THEN x.overflow ELSE a.overflow
  <2>1. Kinds /\ x \in Element /\ Displayed(x) /\ a \in Running
    BY <1>1, <1>2, <1>4
  <2> QED
    BY <2>1, FinishedIs
<1>6. \A p \in SH!Prop : e.style[p] = el.style[p]
  BY <1>1, <1>4, <1>5
<1>7. e.overflow = el.overflow
  <2>1. el.overflow # Unset
    BY <1>2, UnsetApart DEF Element
  <2> QED
    BY <1>1, <1>4, <1>5, <2>1
<1>8. w => StyleOK(e, running)
  BY <1>2, <1>6, <1>7 DEF StyleOK
<1>9. s \in Tasks /\ s.do = "show" /\ <<s>> \in Seq(Tasks) /\ SH!Task("show") = <<s>> /\ <<>> \in Seq(Tasks)
  BY TasksAre DEF SH!Task
<1> HIDE DEF s
<1>10. /\ mid \in Seq(Tasks) /\ Plainly(mid) /\ Forces(mid, Len(running))
       /\ Shows(mid) <=> (a.show \/ Shows(under))
  <2>1. CASE a.show
    <3>1. mid = <<s>> \o under
      BY <1>9, <2>1
    <3> HIDE DEF mid
    <3> QED
      BY <1>2, <1>9, <2>1, <3>1, TaskOnKeeps
  <2>2. CASE ~a.show
    <3>1. mid = under
      BY <1>2, <2>2, ConcatEmptySeq
    <3> HIDE DEF mid
    <3> QED
      BY <1>2, <2>2, <3>1
  <2> QED
    BY <2>1, <2>2
<1>11. ts = SH!Complete(c.queue) \o mid
  <2>1. SH!Complete(c.queue) \in Seq(Tasks)
    <3>1. SH!Complete(c.queue) \o <<>> \in Seq(Tasks) /\ Plainly(<<>>) /\ Forces(<<>>, Len(running))
      <4>1. Plainly(<<>>) /\ Forces(<<>>, Len(running))
        BY DEF Plainly, Forces
      <4> QED
        BY <1>2, <1>3, <1>9, <4>1, CompleteOn
    <3>2. [do |-> "dequeue"] \in Tasks /\ [do |-> "callback"] \in Tasks
      BY TasksAre
    <3>3. SH!Complete(c.queue) = (IF c.queue THEN <<[do |-> "dequeue"]>> ELSE <<>>) \o <<[do |-> "callback"]>>
      BY DEF SH!Complete, SH!Task
    <3> HIDE DEF Tasks
    <3> QED
      BY <3>2, <3>3, ConcatProperties
  <2>2. (IF a.show THEN SH!Task("show") ELSE <<>>) \in Seq(Tasks)
    BY <1>9
  <2> DEFINE A == SH!Complete(c.queue)
             B == IF a.show THEN SH!Task("show") ELSE <<>>
  <2>3. A \in Seq(Tasks) /\ B \in Seq(Tasks) /\ under \in Seq(Tasks) /\ ts = (A \o B) \o under /\ mid = B \o under
    BY <1>2, <2>1, <2>2
  <2> HIDE DEF A, B, mid, Tasks
  <2>4. (A \o B) \o under = A \o (B \o under)
    BY <2>3, ConcatAssociative
  <2> QED
    BY <2>3, <2>4 DEF A
<1> HIDE DEF mid
<1>12. /\ ts \in Seq(Tasks) /\ Early(ts) /\ Forces(ts, Len(running))
       /\ Plainly(ts) <=> ~c.queue
       /\ Shows(ts) <=> Shows(mid)
  BY <1>2, <1>3, <1>10, <1>11, CompleteOn
<1>13. ASSUME running = <<>>, ~Shows(under)
       PROVE  /\ AloneOK(e, running, ts) /\ Ahead(e, running, ts) \in BOOLEAN
              /\ Ahead(e, running, ts) <=> Turned(c, ~SH!Hidden(el))
  <2>1. AloneOK(e, running, ts)
    BY <1>13 DEF AloneOK
  <2>2. Ahead(e, running, ts) <=> a.show
    <3>1. CASE a.show
      BY <1>10, <1>12, <1>13, <3>1 DEF Ahead
    <3>2. CASE ~a.show
      BY <1>5, <1>10, <1>12, <1>13, <3>2 DEF Ahead
    <3> QED
      BY <3>1, <3>2
  <2>3. Ahead(e, running, ts) \in BOOLEAN
    BY <1>13 DEF Ahead
  <2>4. a.show <=> Turned(c, ~SH!Hidden(el))
    BY <1>1, <1>3, TurnedIs
  <2> QED
    BY <2>1, <2>2, <2>3, <2>4, Zenon
<1> QED
  BY <1>2, <1>3, <1>5, <1>8, <1>12, <1>13, Zenon DEF BeginsTo

LEMMA BeginKeeps ==
  ASSUME NEW c, NEW under, BeginReady(c, under), SH!Begin(c, under)
  PROVE  BeginsTo(c, under, el', running', tasks', whole')
<1> DEFINE a == SH!Begun(el, c)
           m == SH!Moved(SH!Prepared(el, c), a)
           idle == Idle(c)
<1>1. CASE idle
  <2>1. tasks' = SH!Complete(c.queue) \o under /\ el' = el /\ running' = running /\ whole' = whole
    BY <1>1, Zenon DEF SH!Begin, Idle
  <2> QED
    BY <1>1, <2>1, BeginsIdly
<1>2. CASE ~idle /\ ~c.instant
  <2>1. /\ el' = (IF a.show THEN SH!Show(m) ELSE m) /\ running' = Append(running, a) /\ tasks' = under
        /\ whole' = (whole /\ \A b \in SH!Range(running) : b.props \cap c.props = {})
    BY <1>2, Zenon DEF SH!Begin, Idle
  <2> HIDE DEF a, m
  <2> QED
    BY <1>2, <2>1, BeginsToRun DEF a, m
<1>3. CASE ~idle /\ c.instant
  <2> DEFINE x == IF a.show /\ SH!Cardinality(c.props) > 1 THEN SH!Show(m) ELSE m
  <2>1. /\ el' = SH!Finished(x, a) /\ running' = running
        /\ tasks' = SH!Complete(c.queue) \o (IF a.show THEN SH!Task("show") ELSE <<>>) \o under
        /\ whole' = (whole /\ \A b \in SH!Range(running) : b.props \cap c.props = {})
    BY <1>3, Zenon DEF SH!Begin, Idle
  <2>2. x \in {SH!Show(m), m} /\ whole' \in BOOLEAN /\ (whole' => whole)
    BY <2>1 DEF BeginReady
  <2> HIDE DEF x
  <2> QED
    BY <1>3, <2>1, <2>2, BeginsAndEnds, Zenon
<1> QED
  BY <1>1, <1>2, <1>3

-----------------------------------------------------------------------------
(* The steps.                                                              *)

LEMMA ShowPrimed ==
  ASSUME ShowInv, natural' = natural, sheet' = sheet,
         ShowOK(el', queue', busy', running', tasks', turns', asked', orderly', whole')
  PROVE  ShowInv'
<1>1. Kinds'
  BY DEF ShowInv, Kinds
<1>2. Displayed(el)' <=> Displayed(el')
  BY DEF Displayed
<1>3. SH!Hidden(el)' <=> SH!Hidden(el')
  BY DEF SH!Hidden, SH!Css
<1>4. AloneOK(el, running, tasks)' <=> AloneOK(el', running', tasks')
  BY <1>3, Zenon DEF AloneOK
<1>5. Ahead(el, running, tasks)' = Ahead(el', running', tasks')
  BY <1>3, Zenon DEF Ahead
<1> QED
  BY <1>1, <1>2, <1>4, <1>5, Zenon DEF ShowInv, ShowOK

\* Leading from a value to another.
LEMMA LeadsNone == \A v \in BOOLEAN : Leads(v, <<>>, v)
<1> SUFFICES ASSUME NEW v \in BOOLEAN  PROVE Leads(v, <<>>, v)
  OBVIOUS
<1> DEFINE h == [k \in 0..0 |-> v]
<1>1. h \in [0..0 -> BOOLEAN] /\ h[0] = v /\ Len(<<>>) = 0
  OBVIOUS
<1> HIDE DEF h
<1>2. \A k \in 1..0 : FALSE
  OBVIOUS
<1> QED
  BY <1>1, <1>2 DEF Leads

LEMMA LeadsNowhere ==
  ASSUME NEW v, NEW w, Leads(v, <<>>, w)
  PROVE  v = w
<1>1. Len(<<>>) = 0
  OBVIOUS
<1> QED
  BY <1>1 DEF Leads

LEMMA TurnedBoolean == \A c, v \in BOOLEAN : Turned(c, v) \in BOOLEAN
BY DEF Turned

LEMMA LeadsOn ==
  ASSUME NEW v, NEW w \in BOOLEAN, NEW cs \in Seq(Animated), NEW c \in Animated, Leads(v, cs, w), NEW x, x = Turned(c, w)
  PROVE  Leads(v, Append(cs, c), x)
<1> DEFINE ds == Append(cs, c)
<1>1. PICK h \in [0..Len(cs) -> BOOLEAN] : h[0] = v /\ h[Len(cs)] = w /\ \A k \in 1..Len(cs) : h[k] = Turned(cs[k], h[k - 1])
  BY DEF Leads
<1>2. Len(cs) \in Nat /\ Len(ds) = Len(cs) + 1 /\ ds[Len(cs) + 1] = c /\ \A k \in 1..Len(cs) : ds[k] = cs[k]
  BY AppendProperties, LenProperties
<1>3. x \in BOOLEAN
  BY TurnedBoolean
<1> DEFINE g == [k \in 0..Len(ds) |-> IF k = Len(ds) THEN x ELSE h[k]]
<1> HIDE DEF ds
<1>4. \A k \in 0..Len(cs) : k \in 0..Len(ds) /\ g[k] = h[k]
  BY <1>2
<1>5. g \in [0..Len(ds) -> BOOLEAN] /\ g[Len(ds)] = x
  <2>1. \A k \in 0..Len(ds) : k = Len(ds) \/ k \in 0..Len(cs)
    BY <1>2
  <2>2. Len(ds) \in 0..Len(ds)
    BY <1>2
  <2> QED
    BY <1>1, <1>3, <2>1, <2>2
<1> HIDE DEF g
<1>6. g[0] = v
  BY <1>1, <1>2, <1>4
<1>7. ASSUME NEW k \in 1..Len(ds)  PROVE g[k] = Turned(ds[k], g[k - 1])
  <2>1. CASE k \in 1..Len(cs)
    <3>1. k \in 0..Len(cs) /\ k - 1 \in 0..Len(cs)
      BY <1>2, <2>1
    <3>2. g[k] = h[k] /\ g[k - 1] = h[k - 1] /\ ds[k] = cs[k] /\ h[k] = Turned(cs[k], h[k - 1])
      BY <1>1, <1>2, <1>4, <2>1, <3>1
    <3> QED
      BY <3>2
  <2>2. CASE k \notin 1..Len(cs)
    <3>1. k = Len(ds) /\ k = Len(cs) + 1 /\ k - 1 = Len(cs) /\ k - 1 \in 0..Len(cs)
      BY <1>2, <2>2
    <3>2. g[k] = x /\ g[k - 1] = w /\ ds[k] = c
      BY <1>1, <1>2, <1>4, <1>5, <3>1
    <3> QED
      BY <3>2
  <2> QED
    BY <2>1, <2>2
<1> QED
  BY <1>5, <1>6, <1>7, Zenon DEF Leads, ds

LEMMA LeadsPast ==
  ASSUME NEW v, NEW w, NEW cs \in Seq(Animated), cs # <<>>, Leads(v, cs, w)
  PROVE  Leads(Turned(Head(cs), v), Tail(cs), w)
<1> DEFINE ds == Tail(cs)
           x == Turned(Head(cs), v)
<1>1. PICK h \in [0..Len(cs) -> BOOLEAN] : h[0] = v /\ h[Len(cs)] = w /\ \A k \in 1..Len(cs) : h[k] = Turned(cs[k], h[k - 1])
  BY DEF Leads
<1>2. /\ Len(cs) \in Nat \ {0} /\ Len(ds) = Len(cs) - 1 /\ Head(cs) = cs[1]
      /\ \A k \in 1..Len(ds) : ds[k] = cs[k + 1]
  BY HeadTailProperties, EmptySeq, LenProperties
<1>3. h[1] = x
  BY <1>1, <1>2
<1> HIDE DEF ds, x
<1> DEFINE g == [k \in 0..Len(ds) |-> h[k + 1]]
<1>4. \A k \in 0..Len(ds) : k + 1 \in 0..Len(cs) /\ g[k] = h[k + 1]
  BY <1>2
<1>5. g \in [0..Len(ds) -> BOOLEAN]
  BY <1>1, <1>4
<1> HIDE DEF g
<1>6. g[0] = x /\ g[Len(ds)] = w
  <2>1. 0 \in 0..Len(ds) /\ Len(ds) \in 0..Len(ds) /\ Len(ds) + 1 = Len(cs) /\ 0 + 1 = 1
    BY <1>2
  <2> QED
    BY <1>1, <1>3, <1>4, <2>1
<1>7. ASSUME NEW k \in 1..Len(ds)  PROVE g[k] = Turned(ds[k], g[k - 1])
  <2>1. k \in 0..Len(ds) /\ k - 1 \in 0..Len(ds) /\ k + 1 \in 1..Len(cs) /\ k - 1 + 1 = k /\ k + 1 - 1 = k
    BY <1>2
  <2>2. g[k] = h[k + 1] /\ g[k - 1] = h[k] /\ ds[k] = cs[k + 1]
    BY <1>2, <1>4, <2>1
  <2>3. h[k + 1] = Turned(cs[k + 1], h[k + 1 - 1])
    BY <1>1, <2>1
  <2> QED
    BY <2>1, <2>2, <2>3
<1> QED
  BY <1>5, <1>6, <1>7, Zenon DEF Leads, ds, x

\* Where it is known what is ahead.
LEMMA AheadIs ==
  ASSUME NEW e, NEW as, NEW ts, as = <<>>, ~Shows(ts)
  PROVE  Ahead(e, as, ts) = ~SH!Hidden(e)
BY Zenon DEF Ahead

LEMMA ShowParts ==
  ASSUME ShowInv
  PROVE  /\ Kinds /\ el \in Element /\ Displayed(el) /\ queue \in Seq(Animated) /\ running \in Seq(Running) /\ tasks \in Seq(Tasks)
         /\ busy \in BOOLEAN /\ turns \in 0..MaxAnimated /\ asked \in BOOLEAN /\ orderly \in BOOLEAN /\ whole \in BOOLEAN
         /\ Early(tasks) /\ Forces(tasks, Len(running)) /\ QueueOK(queue, busy, running, tasks)
         /\ whole => StyleOK(el, running)
         /\ orderly => AloneOK(el, running, tasks) /\ Leads(Ahead(el, running, tasks), queue, asked)
         /\ Len(running) \in Nat
BY LenProperties DEF ShowInv, ShowOK

\* The page calls.
LEMMA ReadyIs ==
  ASSUME ShowInv, SH!Ready, turns' = turns + 1
  PROVE  Plainly(tasks) /\ turns' \in 0..MaxAnimated
<1>1. turns' \in 0..MaxAnimated
  <2>1. turns \in 0..MaxAnimated /\ turns < MaxAnimated /\ MaxAnimated \in Nat
    BY ShowParts, ShowAssumption DEF SH!Ready, SH!CallAssumption
  <2> QED
    BY <2>1
<1>2. CASE tasks = <<>>
  <2>1. Plainly(<<>>)
    BY DEF Plainly
  <2> QED
    BY <1>1, <1>2, <2>1, Zenon
<1>3. CASE tasks # <<>>
  <2>1. Plainly(tasks) <=> Head(tasks).do # "dequeue"
    BY <1>3, ShowParts, TaskOff
  <2>2. Head(tasks).do = "callback"
    BY <1>3 DEF SH!Ready
  <2>3. Head(tasks).do # "dequeue"
    BY <2>2
  <2> QED
    BY <1>1, <2>1, <2>3, Zenon
<1> QED
  BY <1>1, <1>2, <1>3

LEMMA DirectlyKeeps ==
  ASSUME ShowInv, NEW val, SH!Directly(val)
  PROVE  ShowInv'
<1> DEFINE shown == val = "show" \/ (val = "toggle" /\ SH!Hidden(el))
<1>1. /\ SH!Ready /\ turns' = turns + 1 /\ natural' = natural /\ sheet' = sheet
      /\ queue' = queue /\ busy' = busy /\ running' = running /\ tasks' = tasks /\ whole' = whole
  BY DEF SH!Directly
<1>2. el' = (IF shown THEN SH!Show(el) ELSE SH!Hide(el)) /\ asked' = shown
  BY DEF SH!Directly
<1>3. orderly' = (orderly /\ SH!Alone)
  BY DEF SH!Directly
<1>4. shown \in BOOLEAN
  OBVIOUS
<1> HIDE DEF shown
<1>5. Plainly(tasks) /\ turns' \in 0..MaxAnimated
  BY <1>1, ReadyIs
<1>6. Kinds /\ el \in Element /\ Displayed(el)
  BY ShowParts
<1>7. /\ el' \in Element /\ Displayed(el') /\ el'.style = el.style /\ el'.overflow = el.overflow
      /\ SH!Hidden(el') <=> ~shown
  <2>1. CASE shown
    <3>1. el' = SH!Show(el)
      BY <1>2, <2>1
    <3> QED
      BY <1>6, <2>1, <3>1, ShowIs
  <2>2. CASE ~shown
    <3>1. el' = SH!Hide(el)
      BY <1>2, <2>2
    <3> QED
      BY <1>6, <2>2, <3>1, HideIs
  <2> QED
    BY <2>1, <2>2
<1>8. whole' => StyleOK(el', running')
  BY <1>1, <1>7, ShowParts DEF StyleOK
<1>9. ASSUME orderly'
      PROVE  AloneOK(el', running', tasks') /\ Leads(Ahead(el', running', tasks'), queue', asked')
  <2>1. orderly /\ running = <<>> /\ queue = <<>> /\ ~Shows(tasks)
    BY <1>3, <1>9, ShowParts, PendingIs DEF SH!Alone
  <2>2. AloneOK(el', <<>>, tasks)
    BY DEF AloneOK
  <2>3. Ahead(el', <<>>, tasks) = ~SH!Hidden(el')
    BY <2>1, AheadIs, Zenon
  <2>4. Ahead(el', <<>>, tasks) = asked'
    BY <1>2, <1>4, <1>7, <2>3
  <2>5. Leads(asked', <<>>, asked')
    BY <1>2, <1>4, LeadsNone
  <2> QED
    BY <1>1, <2>1, <2>2, <2>4, <2>5
<1>10. orderly' \in BOOLEAN /\ asked' \in BOOLEAN
  BY <1>2, <1>3, <1>4
<1>11. ShowOK(el', queue', busy', running', tasks', turns', asked', orderly', whole')
  BY <1>1, <1>5, <1>7, <1>8, <1>9, <1>10, ShowParts DEF ShowOK
<1> QED
  BY <1>1, <1>11, ShowPrimed

\* An animated call begins, from the page or from the queue: cs wait behind it.
LEMMA BegunKeeps ==
  ASSUME ShowInv, NEW c, NEW under, BeginReady(c, under), SH!Begin(c, under),
         natural' = natural, sheet' = sheet, turns' \in 0..MaxAnimated,
         NEW cs \in Seq(Animated), \A k \in 1..Len(cs) : cs[k].queue, queue' = cs,
         busy' \in BOOLEAN, cs # <<>> => busy', busy' => c.queue \/ Queued(running),
         asked' \in BOOLEAN, orderly' \in BOOLEAN,
         orderly' => orderly /\ running = <<>> /\ ~Shows(under) /\ Leads(Turned(c, ~SH!Hidden(el)), cs, asked')
  PROVE  ShowInv'
<1>1. BeginsTo(c, under, el', running', tasks', whole')
  BY BeginKeeps
<1>2. /\ el' \in Element /\ Displayed(el') /\ running' \in Seq(Running) /\ tasks' \in Seq(Tasks) /\ whole' \in BOOLEAN
      /\ Early(tasks') /\ Forces(tasks', Len(running')) /\ (whole' => StyleOK(el', running'))
  BY <1>1, Zenon DEF BeginsTo
<1>3. c.queue => ~Plainly(tasks') \/ Queued(running')
  BY <1>1, Zenon DEF BeginsTo
<1>4. Queued(running) => Queued(running')
  BY <1>1, Zenon DEF BeginsTo
<1>5. QueueOK(queue', busy', running', tasks')
  BY <1>3, <1>4 DEF QueueOK
<1>6. ASSUME orderly'
      PROVE  AloneOK(el', running', tasks') /\ Leads(Ahead(el', running', tasks'), queue', asked')
  <2>1. running = <<>> /\ ~Shows(under) /\ Leads(Turned(c, ~SH!Hidden(el)), cs, asked')
    BY <1>6
  <2>2. AloneOK(el', running', tasks') /\ Ahead(el', running', tasks') \in BOOLEAN
    BY <1>1, <2>1, Zenon DEF BeginsTo
  <2>3. Ahead(el', running', tasks') <=> Turned(c, ~SH!Hidden(el))
    BY <1>1, <2>1, Zenon DEF BeginsTo
  <2>4. Turned(c, ~SH!Hidden(el)) \in BOOLEAN
    <3>1. (~SH!Hidden(el)) \in BOOLEAN
      OBVIOUS
    <3> QED
      BY DEF Turned
  <2>5. Ahead(el', running', tasks') = Turned(c, ~SH!Hidden(el))
    BY <2>2, <2>3, <2>4, Zenon
  <2> QED
    BY <2>1, <2>2, <2>5, Zenon
<1>7. ShowOK(el', queue', busy', running', tasks', turns', asked', orderly', whole')
  BY <1>2, <1>5, <1>6, Zenon DEF ShowOK
<1> QED
  BY <1>7, ShowPrimed

\* What keeps its place below an animation that begins.
LEMMA KeepUnder ==
  ASSUME NEW ts \in Seq(Tasks), NEW size \in Nat, Plainly(ts), Forces(ts, size), NEW u, u = SH!Task("keep") \o ts
  PROVE  u \in Seq(Tasks) /\ Plainly(u) /\ Forces(u, size) /\ (Shows(u) <=> Shows(ts))
<1> DEFINE t == [do |-> "keep"]
<1>1. t \in Tasks /\ t.do = "keep"
  BY TasksAre
<1>2. u = <<t>> \o ts
  BY DEF SH!Task
<1> HIDE DEF t
<1> QED
  BY <1>1, <1>2, TaskOnKeeps

\* Nothing waits behind it.
LEMMA EmptyBegins ==
  ASSUME ShowInv, NEW c, NEW under, BeginReady(c, under), SH!Begin(c, under),
         natural' = natural, sheet' = sheet, turns' \in 0..MaxAnimated,
         queue' = <<>>, busy' = TRUE, c.queue, asked' \in BOOLEAN, orderly' \in BOOLEAN,
         orderly' => orderly /\ running = <<>> /\ ~Shows(under) /\ Leads(Turned(c, ~SH!Hidden(el)), <<>>, asked')
  PROVE  ShowInv'
<1>1. <<>> \in Seq(Animated) /\ Len(<<>>) = 0 /\ \A k \in 1..0 : FALSE
  OBVIOUS
<1>2. \A k \in 1..Len(<<>>) : <<>>[k].queue
  BY <1>1
<1> QED
  BY <1>1, <1>2, BegunKeeps, Zenon

LEMMA TurnedAsked ==
  ASSUME NEW c \in Animated, SH!Animate(c)
  PROVE  asked' = Turned(c, asked)
<1>1. asked' = CASE c.val = "show" -> TRUE [] c.val = "hide" -> FALSE [] c.val = "toggle" -> ~asked
  BY DEF SH!Animate
<1>2. c.val \in {"show", "hide", "toggle"}
  BY CallIs
<1> QED
  BY <1>1, <1>2 DEF Turned

LEMMA AnimateKeeps ==
  ASSUME ShowInv, NEW c \in Animated, SH!Animate(c)
  PROVE  ShowInv'
<1>1. SH!Ready /\ turns' = turns + 1 /\ natural' = natural /\ sheet' = sheet
  BY DEF SH!Animate
<1>2. asked' = Turned(c, asked)
  BY TurnedAsked
<1>3. orderly' = (orderly /\ IF c.queue /\ busy THEN ~SH!ShowPending /\ \A a \in SH!Range(running) : a.queue ELSE SH!Alone)
  BY DEF SH!Animate
<1>4. /\ c.queue /\ busy => queue' = Append(queue, c) /\ UNCHANGED <<el, busy, running, tasks, whole>>
      /\ c.queue /\ ~busy => SH!Dequeue(<<c>>, tasks)
      /\ ~c.queue => SH!Begin(c, tasks) /\ UNCHANGED <<queue, busy>>
  BY DEF SH!Animate
<1>5. Plainly(tasks) /\ turns' \in 0..MaxAnimated
  BY <1>1, ReadyIs
<1>6. c.queue \in BOOLEAN /\ busy \in BOOLEAN /\ asked \in BOOLEAN /\ orderly \in BOOLEAN
  BY CallIs, ShowParts
<1>7. asked' \in BOOLEAN /\ orderly' \in BOOLEAN
  <2>1. asked' \in BOOLEAN
    BY <1>2, <1>6 DEF Turned
  <2> QED
    BY <1>3, <2>1
<1>8. /\ queue \in Seq(Animated) /\ QueueOK(queue, busy, running, tasks) /\ tasks \in Seq(Tasks)
      /\ Forces(tasks, Len(running)) /\ Len(running) \in Nat
  BY ShowParts
<1>9. ASSUME orderly', ~(c.queue /\ busy)
      PROVE  orderly /\ running = <<>> /\ queue = <<>> /\ ~Shows(tasks) /\ Leads(Turned(c, ~SH!Hidden(el)), <<>>, asked')
  <2>1. orderly /\ running = <<>> /\ queue = <<>> /\ ~Shows(tasks)
    BY <1>3, <1>8, <1>9, PendingIs DEF SH!Alone
  <2>2. Leads(Ahead(el, running, tasks), queue, asked)
    BY <2>1, ShowParts
  <2>3. Ahead(el, running, tasks) = ~SH!Hidden(el)
    BY <2>1, AheadIs, Zenon
  <2>4. asked = ~SH!Hidden(el)
    BY <2>1, <2>2, <2>3, LeadsNowhere, Zenon
  <2>5. Leads(asked', <<>>, asked')
    BY <1>7, LeadsNone
  <2> QED
    BY <1>2, <2>1, <2>4, <2>5, Zenon
<1>10. CASE c.queue /\ busy
  <2>1. queue' = Append(queue, c) /\ el' = el /\ busy' = busy /\ running' = running /\ tasks' = tasks /\ whole' = whole
    BY <1>4, <1>10
  <2>2. queue' \in Seq(Animated) /\ \A k \in 1..Len(queue') : queue'[k].queue
    <3> DEFINE q == Append(queue, c)
    <3>1. Len(q) = Len(queue) + 1 /\ Len(queue) \in Nat /\ q[Len(queue) + 1] = c /\ \A k \in 1..Len(queue) : q[k] = queue[k]
      BY <1>8, AppendProperties, LenProperties
    <3>2. q \in Seq(Animated) /\ q = queue'
      BY <1>8, <2>1
    <3> HIDE DEF q
    <3>3. \A k \in 1..Len(q) : k \in 1..Len(queue) \/ k = Len(queue) + 1
      BY <3>1
    <3>4. \A k \in 1..Len(queue) : queue[k].queue
      BY <1>8 DEF QueueOK
    <3>5. \A k \in 1..Len(q) : q[k].queue
      BY <1>10, <3>1, <3>3, <3>4
    <3> QED
      BY <3>2, <3>5
  <2>3. QueueOK(queue', busy', running', tasks')
    BY <1>8, <1>10, <2>1, <2>2 DEF QueueOK
  <2>4. ASSUME orderly'
        PROVE  AloneOK(el', running', tasks') /\ Leads(Ahead(el', running', tasks'), queue', asked')
    <3>1. AloneOK(el, running, tasks) /\ Leads(Ahead(el, running, tasks), queue, asked)
      BY <1>3, <2>4, ShowParts
    <3>2. Leads(Ahead(el, running, tasks), Append(queue, c), asked')
      BY <1>2, <1>6, <1>8, <3>1, LeadsOn
    <3> QED
      BY <2>1, <3>1, <3>2, Zenon
  <2>5. ShowOK(el', queue', busy', running', tasks', turns', asked', orderly', whole')
    BY <1>5, <1>7, <2>1, <2>2, <2>3, <2>4, ShowParts, Zenon DEF ShowOK
  <2> QED
    BY <1>1, <2>5, ShowPrimed
<1>11. CASE c.queue /\ ~busy
  <2> DEFINE under == SH!Task("keep") \o tasks
             waiting == <<c>>
  <2>1. SH!Dequeue(waiting, tasks)
    BY <1>4, <1>11, Zenon
  <2>2. waiting # <<>> /\ Head(waiting) = c /\ Tail(waiting) = <<>>
    OBVIOUS
  <2> HIDE DEF waiting
  <2>3. busy' = TRUE /\ queue' = <<>> /\ SH!Begin(c, under)
    BY <2>1, <2>2 DEF SH!Dequeue
  <2>4. under \in Seq(Tasks) /\ Plainly(under) /\ Forces(under, Len(running)) /\ (Shows(under) <=> Shows(tasks))
    BY <1>5, <1>8, KeepUnder
  <2> HIDE DEF under
  <2>5. BeginReady(c, under)
    BY <2>4, ShowParts DEF BeginReady
  <2>6. orderly' => orderly /\ running = <<>> /\ ~Shows(under) /\ Leads(Turned(c, ~SH!Hidden(el)), <<>>, asked')
    BY <1>9, <1>11, <2>4
  <2> QED
    BY <1>1, <1>5, <1>7, <1>11, <2>3, <2>5, <2>6, EmptyBegins, Zenon
<1>12. CASE ~c.queue
  <2>1. SH!Begin(c, tasks) /\ queue' = queue /\ busy' = busy
    BY <1>4, <1>12
  <2>2. BeginReady(c, tasks)
    BY <1>5, ShowParts DEF BeginReady
  <2>3. orderly' => orderly /\ running = <<>> /\ ~Shows(tasks) /\ Leads(Turned(c, ~SH!Hidden(el)), queue, asked')
    BY <1>9, <1>12
  <2>4. (\A k \in 1..Len(queue) : queue[k].queue) /\ (queue # <<>> => busy')
    BY <1>8, <2>1 DEF QueueOK
  <2>5. busy' => c.queue \/ Queued(running)
    BY <1>5, <1>8, <2>1 DEF QueueOK
  <2> QED
    BY <1>1, <1>5, <1>6, <1>7, <1>8, <2>1, <2>2, <2>3, <2>4, <2>5, BegunKeeps, Zenon
<1> QED
  BY <1>6, <1>10, <1>11, <1>12

LEMMA StopKeeps ==
  ASSUME ShowInv, NEW clearQueue \in BOOLEAN, SH!Stop(clearQueue)
  PROVE  ShowInv'
<1> DEFINE d == [do |-> "dequeue"]
           u == <<d>>
<1>1. /\ SH!Ready /\ tasks = <<>> /\ turns' = turns + 1 /\ natural' = natural /\ sheet' = sheet
      /\ queue' = (IF clearQueue THEN <<>> ELSE queue) /\ running' = <<>> /\ tasks' = u
      /\ el' = el /\ busy' = busy /\ asked' = asked
  BY DEF SH!Stop, SH!Task
<1>2. orderly' = (orderly /\ running = <<>> /\ queue = <<>>) /\ whole' = (whole /\ running = <<>>)
  BY DEF SH!Stop
<1>3. turns' \in 0..MaxAnimated
  BY <1>1, ReadyIs
<1>4. /\ u \in Seq(Tasks) /\ Early(u) /\ Forces(u, 0) /\ ~Plainly(u) /\ ~Shows(u)
  <2>1. d \in Tasks /\ d.do = "dequeue" /\ <<>> \in Seq(Tasks)
    BY TasksAre
  <2>2. Plainly(<<>>) /\ Forces(<<>>, 0) /\ ~Shows(<<>>)
    BY DEF Plainly, Forces, Shows
  <2> HIDE DEF d
  <2>3. u = <<d>> \o <<>>
    BY ConcatEmptySeq, <2>1
  <2> HIDE DEF u
  <2>4. /\ u \in Seq(Tasks) /\ Early(u) /\ Forces(u, 0)
        /\ Plainly(u) <=> d.do # "dequeue"
        /\ Shows(u) <=> (d.do = "show" \/ Shows(<<>>))
    BY <2>1, <2>2, <2>3, TaskOnKeeps
  <2> QED
    BY <2>1, <2>2, <2>4
<1> HIDE DEF u
<1>5. queue \in Seq(Animated) /\ QueueOK(queue, busy, running, tasks)
  BY ShowParts
<1>6. queue' \in Seq(Animated) /\ <<>> \in Seq(Running) /\ Len(<<>>) = 0
  BY <1>1, <1>5
<1>7. QueueOK(queue', busy', running', tasks')
  <2>1. \A k \in 1..Len(queue') : queue'[k].queue
    BY <1>1, <1>5 DEF QueueOK
  <2>2. queue' # <<>> => busy'
    BY <1>1, <1>5 DEF QueueOK
  <2> QED
    BY <1>1, <1>4, <2>1, <2>2, Zenon DEF QueueOK
<1>8. whole' => StyleOK(el', running')
  BY <1>1, <1>2, ShowParts
<1>9. ASSUME orderly'
      PROVE  AloneOK(el', running', tasks') /\ Leads(Ahead(el', running', tasks'), queue', asked')
  <2>1. orderly /\ running = <<>> /\ queue = <<>> /\ queue' = queue
    BY <1>1, <1>2, <1>9
  <2>2. Leads(Ahead(el, running, tasks), queue, asked)
    BY <2>1, ShowParts
  <2>3. ~Shows(tasks)
    BY <1>1 DEF Shows
  <2>4. Ahead(el, running, tasks) = ~SH!Hidden(el) /\ Ahead(el, <<>>, u) = ~SH!Hidden(el)
    BY <1>4, <2>1, <2>3, AheadIs, Zenon
  <2>5. AloneOK(el, <<>>, u)
    BY DEF AloneOK
  <2> QED
    BY <1>1, <2>1, <2>2, <2>4, <2>5, Zenon
<1>10. orderly' \in BOOLEAN /\ whole' \in BOOLEAN
  BY <1>2, ShowParts
<1>11. Forces(tasks', Len(running'))
  BY <1>1, <1>4, <1>6
<1>12. ShowOK(el', queue', busy', running', tasks', turns', asked', orderly', whole')
  BY <1>1, <1>3, <1>4, <1>6, <1>7, <1>8, <1>9, <1>10, <1>11, ShowParts, Zenon DEF ShowOK
<1> QED
  BY <1>1, <1>12, ShowPrimed

\* The tasks that force the ends of all that run, the last first.
LEMMA ForcedAre ==
  ASSUME NEW as \in Seq(Running), NEW u, u = [k \in DOMAIN as |-> [do |-> "force", at |-> Len(as) + 1 - k]]
  PROVE  u \in Seq(Tasks) /\ Early(u) /\ Plainly(u) /\ ~Shows(u) /\ Forces(u, Len(as))
<1> DEFINE size == Len(as)
<1>1. size \in Nat /\ DOMAIN as = 1..size
  BY LenProperties
<1> HIDE DEF size
<1>2. u = [k \in 1..size |-> [do |-> "force", at |-> size + 1 - k]]
  BY <1>1 DEF size
<1>3. \A k \in 1..size : size + 1 - k \in Nat /\ size + 1 - k \in 1..size
  BY <1>1
<1>4. \A k \in 1..size : u[k] = [do |-> "force", at |-> size + 1 - k]
  BY <1>2
<1>5. \A k \in 1..size : u[k] \in Tasks /\ u[k].do = "force" /\ u[k].at = size + 1 - k
  <2>1. \A x \in Nat : \A t : t = [do |-> "force", at |-> x] => t \in Tasks /\ t.do = "force" /\ t.at = x
    BY DEF Tasks
  <2> QED
    BY <1>3, <1>4, <2>1, Zenon
<1>6. u \in Seq(Tasks) /\ Len(u) = size
  <2>1. u \in [1..size -> Tasks]
    BY <1>2, <1>5
  <2>2. u \in Seq(Tasks)
    <3>1. \A S : \A i \in Nat : \A q \in [1..i -> S] : q \in Seq(S)
      BY SeqDef
    <3> QED
      BY <1>1, <2>1, <3>1, Zenon
  <2>3. DOMAIN u = 1..size
    BY <2>1
  <2>4. Len(u) = size
    BY <1>1, <2>2, <2>3, LenProperties
  <2> QED
    BY <2>2, <2>4
<1>7. Early(u) /\ Plainly(u) /\ ~Shows(u)
  BY <1>5, <1>6 DEF Early, Plainly, Shows
<1>8. ASSUME NEW j \in 1..size, NEW k \in 1..size, j < k
      PROVE  u[k].at < u[j].at
  <2>1. u[j].at = size + 1 - j /\ u[k].at = size + 1 - k
    BY <1>5
  <2>2. size + 1 - k < size + 1 - j
    BY <1>1, <1>8
  <2> QED
    BY <2>1, <2>2
<1>9. Forces(u, size)
  BY <1>3, <1>5, <1>6, <1>8 DEF Forces
<1> QED
  BY <1>6, <1>7, <1>9 DEF size

LEMMA StopAtEndKeeps ==
  ASSUME ShowInv, NEW clearQueue \in BOOLEAN, SH!StopAtEnd(clearQueue)
  PROVE  ShowInv'
<1>1. /\ SH!Ready /\ tasks = <<>> /\ turns' = turns + 1 /\ natural' = natural /\ sheet' = sheet
      /\ queue' = (IF clearQueue THEN <<>> ELSE queue) /\ running' = running
      /\ el' = el /\ asked' = asked /\ whole' = whole
  BY DEF SH!StopAtEnd
<1>2. /\ tasks' = [k \in DOMAIN running |-> [do |-> "force", at |-> Len(running) + 1 - k]]
      /\ busy' = (busy /\ ~clearQueue) /\ orderly' = (orderly /\ (clearQueue => queue = <<>>))
  BY DEF SH!StopAtEnd
<1>3. turns' \in 0..MaxAnimated
  BY <1>1, ReadyIs
<1>4. tasks' \in Seq(Tasks) /\ Early(tasks') /\ Plainly(tasks') /\ ~Shows(tasks') /\ Forces(tasks', Len(running))
  <2>1. running \in Seq(Running)
    BY ShowParts
  <2> QED
    BY <1>2, <2>1, ForcedAre
<1>5. queue \in Seq(Animated) /\ QueueOK(queue, busy, running, tasks) /\ Plainly(tasks) /\ ~Shows(tasks)
  BY <1>1, ShowParts, ReadyIs DEF Shows
<1>6. queue' \in Seq(Animated)
  BY <1>1, <1>5
<1>7. QueueOK(queue', busy', running', tasks')
  <2>1. \A k \in 1..Len(queue') : queue'[k].queue
    BY <1>1, <1>5 DEF QueueOK
  <2>2. queue' # <<>> => busy'
    BY <1>1, <1>2, <1>5 DEF QueueOK
  <2>3. busy' => Queued(running')
    BY <1>1, <1>2, <1>5 DEF QueueOK
  <2> QED
    BY <2>1, <2>2, <2>3, Zenon DEF QueueOK
<1>8. ASSUME orderly'
      PROVE  AloneOK(el', running', tasks') /\ Leads(Ahead(el', running', tasks'), queue', asked')
  <2>1. orderly /\ queue' = queue
    BY <1>1, <1>2, <1>8
  <2>2. AloneOK(el, running, tasks) /\ Leads(Ahead(el, running, tasks), queue, asked)
    BY <2>1, ShowParts
  <2>3. AloneOK(el, running, tasks')
    BY <1>4, <2>2 DEF AloneOK
  <2>4. Ahead(el, running, tasks') = Ahead(el, running, tasks)
    BY <1>4, <1>5, Zenon DEF Ahead
  <2> QED
    BY <1>1, <2>1, <2>2, <2>3, <2>4, Zenon
<1>9. orderly' \in BOOLEAN /\ busy' \in BOOLEAN
  BY <1>2, ShowParts
<1>10. whole' => StyleOK(el', running')
  BY <1>1, ShowParts
<1>11. ShowOK(el', queue', busy', running', tasks', turns', asked', orderly', whole')
  BY <1>1, <1>3, <1>4, <1>6, <1>7, <1>8, <1>9, <1>10, ShowParts, Zenon DEF ShowOK
<1> QED
  BY <1>1, <1>11, ShowPrimed

\* An animation ends: that of a frame, or one that is forced to.
LEMMA EndKeeps ==
  ASSUME ShowInv, NEW k \in 1..Len(running), NEW under \in Seq(Tasks), SH!End(k, under),
         Plainly(tasks), Plainly(under), Forces(under, Len(running) - 1), Shows(under) => Shows(tasks),
         natural' = natural, sheet' = sheet, queue' = queue, busy' = busy, turns' = turns, asked' = asked,
         orderly' = orderly, whole' = whole
  PROVE  ShowInv'
<1> DEFINE a == running[k]
           left == SH!RemoveAt(running, k)
<1>1. el' = SH!Finished(el, a) /\ running' = left /\ tasks' = SH!Complete(a.queue) \o under
  BY DEF SH!End
<1>2. /\ Kinds /\ el \in Element /\ Displayed(el) /\ running \in Seq(Running) /\ Len(running) \in Nat
      /\ QueueOK(queue, busy, running, tasks) /\ (whole => StyleOK(el, running))
  BY ShowParts
<1>3. a \in Running
  BY <1>2, ElementOfSeq
<1>4. a.queue \in BOOLEAN /\ a.show \in BOOLEAN
  BY <1>3 DEF Running
<1> HIDE DEF left
<1>5. left \in Seq(Running) /\ Len(left) = Len(running) - 1 /\ Len(left) \in Nat
  <2>1. left \in Seq(Running) /\ Len(left) = Len(running) - 1
    BY <1>2, RemoveAtIs, Zenon DEF left
  <2> QED
    BY <1>2, <2>1
<1>6. \A j \in 1..Len(running) : j # k => \E m \in 1..Len(left) : left[m] = running[j]
  <2>1. HasOthers(running, k, left)
    BY <1>2, RemovedAre, Zenon DEF left
  <2> QED
    BY <2>1, Zenon DEF HasOthers
<1> HIDE DEF a
<1>7. /\ el' \in Element /\ Displayed(el')
      /\ SH!Hidden(el') <=> (~a.show \/ SH!Hidden(el))
      /\ \A p \in SH!Prop : el'.style[p] = IF p \in a.props THEN a.orig[p] ELSE el.style[p]
      /\ el'.overflow = IF a.overflow = Unset THEN el.overflow ELSE a.overflow
  BY <1>1, <1>2, <1>3, FinishedIs
<1>8. /\ tasks' \in Seq(Tasks) /\ Early(tasks') /\ Forces(tasks', Len(left))
      /\ Plainly(tasks') <=> ~a.queue
      /\ Shows(tasks') <=> Shows(under)
  <2>1. Forces(under, Len(left))
    BY <1>5
  <2> QED
    BY <1>1, <1>4, <1>5, <2>1, CompleteOn
<1>9. whole => StyleOK(el', left)
  BY <1>2, <1>7, StyleEnds, Zenon DEF left, a
<1>10. busy => ~Plainly(tasks') \/ Queued(left)
  <2> SUFFICES ASSUME busy, Plainly(tasks')  PROVE Queued(left)
    OBVIOUS
  <2>1. Queued(running) /\ ~a.queue
    BY <1>2, <1>8 DEF QueueOK
  <2>2. PICK j \in 1..Len(running) : running[j].queue
    BY <2>1 DEF Queued
  <2>3. j # k
    BY <2>1, <2>2 DEF a
  <2>4. PICK m \in 1..Len(left) : left[m] = running[j]
    BY <1>6, <2>3
  <2> QED
    BY <2>2, <2>4 DEF Queued
<1>11. QueueOK(queue, busy, left, tasks')
  BY <1>2, <1>10 DEF QueueOK
<1>12. ASSUME orderly
       PROVE  AloneOK(el', left, tasks') /\ Leads(Ahead(el', left, tasks'), queue, asked)
  <2>1. AloneOK(el, running, tasks) /\ Leads(Ahead(el, running, tasks), queue, asked)
    BY <1>12, ShowParts
  <2>2. Len(running) = 1 /\ k = 1 /\ running # <<>>
    <3>1. Len(running) <= 1
      BY <2>1 DEF AloneOK
    <3>2. \A size \in Nat : size <= 1 /\ k \in 1..size => size = 1 /\ k = 1
      OBVIOUS
    <3>3. Len(running) = 1 /\ k = 1
      BY <1>2, <3>1, <3>2, Zenon
    <3>4. Len(<<>>) = 0
      OBVIOUS
    <3>5. running # <<>>
      <4>1. 0 # 1
        OBVIOUS
      <4> QED
        BY <3>3, <3>4, <4>1, Zenon
    <3> QED
      BY <3>3, <3>5
  <2>3. left = <<>>
    <3>1. Len(left) = 0
      BY <1>2, <1>5, <2>2
    <3> QED
      BY <1>5, <3>1, EmptySeq
  <2>4. ~Shows(tasks) /\ (a.show => ~SH!Hidden(el))
    BY <2>1, <2>2 DEF AloneOK, a
  <2>5. ~Shows(tasks')
    BY <1>8, <2>4
  <2>6. Ahead(el, running, tasks) = a.show
    BY <2>2 DEF Ahead, a
  <2>7. Ahead(el', left, tasks') = ~SH!Hidden(el')
    BY <2>3, <2>5, AheadIs, Zenon
  <2>8. SH!Hidden(el') <=> ~a.show
    BY <1>7, <2>4
  <2>9. Ahead(el', left, tasks') = Ahead(el, running, tasks)
    BY <1>4, <2>6, <2>7, <2>8
  <2>10. AloneOK(el', left, tasks')
    BY <1>5, <2>2, <2>3 DEF AloneOK
  <2> QED
    BY <2>1, <2>9, <2>10, Zenon
<1>13. ShowOK(el', queue', busy', running', tasks', turns', asked', orderly', whole')
  BY <1>1, <1>5, <1>7, <1>8, <1>9, <1>11, <1>12, ShowParts, Zenon DEF ShowOK
<1> QED
  BY <1>13, ShowPrimed

LEMMA LastStepKeeps ==
  ASSUME ShowInv, SH!LastStep
  PROVE  ShowInv'
<1>1. PICK k \in DOMAIN running : SH!End(k, <<>>)
  BY DEF SH!LastStep
<1>2. /\ tasks = <<>> /\ natural' = natural /\ sheet' = sheet /\ queue' = queue /\ busy' = busy /\ turns' = turns
      /\ asked' = asked /\ orderly' = orderly /\ whole' = whole
  BY DEF SH!LastStep
<1>3. k \in 1..Len(running)
  <2>1. running \in Seq(Running)
    BY ShowParts
  <2> QED
    BY <2>1, LenProperties
<1>4. <<>> \in Seq(Tasks) /\ Plainly(<<>>) /\ Forces(<<>>, Len(running) - 1) /\ ~Shows(<<>>)
  BY DEF Plainly, Forces, Shows
<1> QED
  BY <1>1, <1>2, <1>3, <1>4, EndKeeps, Zenon

\* A dequeue under way.
LEMMA DequeueKeeps ==
  ASSUME ShowInv, tasks # <<>>, Head(tasks).do = "dequeue", SH!Dequeue(queue, Tail(tasks)),
         orderly' = (orderly /\ (SH!ShowPending => queue = <<>>)),
         natural' = natural, sheet' = sheet, turns' = turns, asked' = asked
  PROVE  ShowInv'
<1> DEFINE under == Tail(tasks)
<1>1. /\ queue \in Seq(Animated) /\ tasks \in Seq(Tasks) /\ Len(running) \in Nat /\ Early(tasks) /\ Forces(tasks, Len(running))
      /\ QueueOK(queue, busy, running, tasks) /\ orderly \in BOOLEAN /\ turns \in 0..MaxAnimated /\ asked \in BOOLEAN
  BY ShowParts
<1>2. /\ under \in Seq(Tasks) /\ Plainly(under) /\ Forces(under, Len(running))
      /\ Shows(tasks) <=> (Head(tasks).do = "show" \/ Shows(under))
      /\ Plainly(tasks) <=> Head(tasks).do # "dequeue"
  BY <1>1, TaskOff
<1> HIDE DEF under
<1>3. ~Plainly(tasks) /\ (Shows(tasks) <=> Shows(under))
  BY <1>2
<1>4. orderly' \in BOOLEAN
  BY <1>1
<1>5. SH!Dequeue(queue, under)
  BY DEF under
<1>6. ASSUME orderly
      PROVE  running = <<>> /\ Leads(Ahead(el, running, tasks), queue, asked)
  BY <1>3, <1>6, ShowParts, Zenon DEF AloneOK
<1>7. CASE queue = <<>>
  <2>1. /\ busy' = FALSE /\ queue' = <<>> /\ el' = el /\ running' = running /\ whole' = whole
        /\ tasks' = [k \in DOMAIN under |-> IF under[k].do = "keep" THEN [do |-> "remove"] ELSE under[k]]
    BY <1>5, <1>7 DEF SH!Dequeue
  <2>2. tasks' \in Seq(Tasks) /\ Plainly(tasks') /\ Forces(tasks', Len(running)) /\ (Shows(tasks') <=> Shows(under))
    BY <1>1, <1>2, <2>1, MarkedAre
  <2>3. Early(tasks')
    BY <2>2 DEF Early, Plainly
  <2>4. QueueOK(queue', busy', running', tasks')
    <3>1. \A j \in 1..Len(queue') : queue'[j].queue
      BY <1>1, <1>7, <2>1 DEF QueueOK
    <3> QED
      BY <2>1, <3>1 DEF QueueOK
  <2>5. ASSUME orderly'
        PROVE  AloneOK(el', running', tasks') /\ Leads(Ahead(el', running', tasks'), queue', asked')
    <3>1. running = <<>> /\ Leads(Ahead(el, running, tasks), queue, asked)
      BY <1>6, <2>5
    <3>2. AloneOK(el, <<>>, tasks')
      BY DEF AloneOK
    <3>3. Ahead(el, running, tasks') = Ahead(el, running, tasks)
      BY <1>3, <2>2, <3>1, Zenon DEF Ahead
    <3> QED
      BY <1>7, <2>1, <3>1, <3>2, <3>3, Zenon
  <2>6. ShowOK(el', queue', busy', running', tasks', turns', asked', orderly', whole')
    BY <1>1, <1>4, <1>7, <2>1, <2>2, <2>3, <2>4, <2>5, ShowParts, Zenon DEF ShowOK
  <2> QED
    BY <2>6, ShowPrimed
<1>8. CASE queue # <<>>
  <2> DEFINE c == Head(queue)
             u == SH!Task("keep") \o under
             cs == Tail(queue)
  <2>1. busy' = TRUE /\ queue' = cs /\ SH!Begin(c, u)
    BY <1>5, <1>8 DEF SH!Dequeue
  <2>2. u \in Seq(Tasks) /\ Plainly(u) /\ Forces(u, Len(running)) /\ (Shows(u) <=> Shows(under))
    BY <1>1, <1>2, KeepUnder
  <2>3. /\ c \in Animated /\ cs \in Seq(Animated) /\ c = queue[1] /\ Len(queue) \in Nat \ {0} /\ Len(cs) = Len(queue) - 1
        /\ \A k \in 1..Len(cs) : cs[k] = queue[k + 1]
    BY <1>1, <1>8, HeadTailProperties, EmptySeq, LenProperties
  <2> HIDE DEF c, u, cs
  <2>4. c.queue /\ \A k \in 1..Len(cs) : cs[k].queue
    <3>1. 1 \in 1..Len(queue) /\ \A k \in 1..Len(cs) : k + 1 \in 1..Len(queue)
      BY <2>3
    <3> QED
      BY <1>1, <2>3, <3>1 DEF QueueOK
  <2>5. BeginReady(c, u)
    BY <2>2, <2>3, ShowParts DEF BeginReady
  <2>6. ASSUME orderly'
        PROVE  orderly /\ running = <<>> /\ ~Shows(u) /\ Leads(Turned(c, ~SH!Hidden(el)), cs, asked')
    <3>1. orderly /\ running = <<>> /\ ~Shows(tasks) /\ Leads(Ahead(el, running, tasks), queue, asked)
      BY <1>1, <1>6, <1>8, <2>6, PendingIs
    <3>2. Ahead(el, running, tasks) = ~SH!Hidden(el)
      BY <3>1, AheadIs, Zenon
    <3>3. Leads(Turned(c, Ahead(el, running, tasks)), cs, asked)
      BY <1>1, <1>8, <3>1, LeadsPast, Zenon DEF c, cs
    <3> QED
      BY <1>3, <2>2, <3>1, <3>2, <3>3, Zenon
  <2> QED
    BY <1>1, <1>4, <2>1, <2>3, <2>4, <2>5, <2>6, BegunKeeps, Zenon
<1> QED
  BY <1>7, <1>8

\* A task goes on.
LEMMA GoKeeps ==
  ASSUME ShowInv, SH!Go
  PROVE  ShowInv'
<1> DEFINE t == Head(tasks)
           under == Tail(tasks)
<1>1. tasks # <<>> /\ natural' = natural /\ sheet' = sheet /\ turns' = turns /\ asked' = asked
  BY DEF SH!Go
<1>2. /\ Kinds /\ el \in Element /\ Displayed(el) /\ queue \in Seq(Animated) /\ running \in Seq(Running) /\ tasks \in Seq(Tasks)
      /\ Len(running) \in Nat /\ Early(tasks) /\ Forces(tasks, Len(running)) /\ QueueOK(queue, busy, running, tasks)
      /\ orderly \in BOOLEAN /\ busy \in BOOLEAN
  BY ShowParts
<1>3. /\ t \in Tasks /\ under \in Seq(Tasks) /\ Plainly(under) /\ Forces(under, Len(running))
      /\ Shows(tasks) <=> (t.do = "show" \/ Shows(under))
      /\ Plainly(tasks) <=> t.do # "dequeue"
      /\ t.do = "force" => t.at \in 1..Len(running) /\ Forces(under, Len(running) - 1)
  BY <1>1, <1>2, TaskOff
<1>4. t.do \in {"force", "dequeue", "remove", "show", "callback", "keep"}
  BY <1>3 DEF Tasks
<1>5. Early(under)
  BY <1>3 DEF Early, Plainly
<1>6. /\ t.do = "force" => SH!End(t.at, under) /\ UNCHANGED <<queue, busy, orderly, whole>>
      /\ t.do = "dequeue" => SH!Dequeue(queue, under) /\ orderly' = (orderly /\ (SH!ShowPending => queue = <<>>))
      /\ t.do = "remove" => /\ queue' = <<>> /\ busy' = FALSE /\ orderly' = (orderly /\ queue = <<>>)
                            /\ tasks' = under /\ UNCHANGED <<el, running, whole>>
      /\ t.do = "show" => el' = SH!Show(el) /\ tasks' = under /\ UNCHANGED <<queue, busy, running, orderly, whole>>
      /\ t.do \in {"callback", "keep"} => tasks' = under /\ UNCHANGED <<el, queue, busy, running, orderly, whole>>
  BY DEF SH!Go
<1> HIDE DEF under, t
<1>7. CASE t.do = "force"
  <2>1. /\ SH!End(t.at, under) /\ queue' = queue /\ busy' = busy /\ orderly' = orderly /\ whole' = whole
    BY <1>6, <1>7
  <2>2. Plainly(tasks) /\ (Shows(under) => Shows(tasks))
    BY <1>3, <1>7
  <2> QED
    BY <1>1, <1>3, <1>7, <2>1, <2>2, EndKeeps, Zenon
<1>8. CASE t.do = "dequeue"
  BY <1>1, <1>6, <1>8, DequeueKeeps, Zenon DEF t, under
<1>9. CASE t.do = "remove"
  <2>1. /\ queue' = <<>> /\ busy' = FALSE /\ orderly' = (orderly /\ queue = <<>>)
        /\ tasks' = under /\ el' = el /\ running' = running /\ whole' = whole
    BY <1>6, <1>9
  <2>2. QueueOK(queue', busy', running', tasks')
    <3>1. Len(<<>>) = 0 /\ \A k \in 1..0 : FALSE
      OBVIOUS
    <3>2. \A k \in 1..Len(<<>>) : <<>>[k].queue
      BY <3>1
    <3> QED
      BY <2>1, <3>2, Zenon DEF QueueOK
  <2>3. (Shows(tasks) <=> Shows(under)) /\ Plainly(tasks)
    BY <1>3, <1>9
  <2>4. ASSUME orderly'
        PROVE  AloneOK(el', running', tasks') /\ Leads(Ahead(el', running', tasks'), queue', asked')
    <3>1. AloneOK(el, running, tasks) /\ Leads(Ahead(el, running, tasks), queue, asked) /\ queue' = queue
      BY <2>1, <2>4, ShowParts
    <3>2. AloneOK(el, running, under)
      BY <1>3, <2>3, <3>1 DEF AloneOK
    <3>3. Ahead(el, running, under) = Ahead(el, running, tasks)
      BY <2>3, Zenon DEF Ahead
    <3> QED
      BY <1>1, <2>1, <3>1, <3>2, <3>3, Zenon
  <2>5. orderly' \in BOOLEAN /\ queue' \in Seq(Animated)
    BY <1>2, <2>1
  <2>6. ShowOK(el', queue', busy', running', tasks', turns', asked', orderly', whole')
    BY <1>1, <1>3, <1>5, <2>1, <2>2, <2>4, <2>5, ShowParts, Zenon DEF ShowOK
  <2> QED
    BY <1>1, <2>6, ShowPrimed
<1>10. CASE t.do = "show"
  <2>1. /\ el' = SH!Show(el) /\ tasks' = under /\ queue' = queue /\ busy' = busy /\ running' = running
        /\ orderly' = orderly /\ whole' = whole
    BY <1>6, <1>10
  <2>2. /\ el' \in Element /\ Displayed(el') /\ ~SH!Hidden(el') /\ el'.style = el.style /\ el'.overflow = el.overflow
    BY <1>2, <2>1, ShowIs
  <2>3. Shows(tasks) /\ Plainly(tasks)
    BY <1>3, <1>10
  <2>4. QueueOK(queue', busy', running', tasks')
    <3>1. busy => Queued(running)
      BY <1>2, <2>3 DEF QueueOK
    <3> QED
      BY <1>2, <2>1, <3>1 DEF QueueOK
  <2>5. whole' => StyleOK(el', running')
    BY <2>1, <2>2, ShowParts DEF StyleOK
  <2>6. ASSUME orderly'
        PROVE  AloneOK(el', running', tasks') /\ Leads(Ahead(el', running', tasks'), queue', asked')
    <3>1. AloneOK(el, running, tasks) /\ Leads(Ahead(el, running, tasks), queue, asked)
      BY <2>1, <2>6, ShowParts
    <3>2. running = <<>>
      BY <2>3, <3>1 DEF AloneOK
    <3>3. Ahead(el, running, tasks) = TRUE
      BY <2>3, <3>2 DEF Ahead
    <3>4. Ahead(el', <<>>, under) = TRUE
      <4>1. CASE Shows(under)
        BY <4>1 DEF Ahead
      <4>2. CASE ~Shows(under)
        <5>1. Ahead(el', <<>>, under) = ~SH!Hidden(el')
          BY <4>2, AheadIs, Zenon
        <5> QED
          BY <2>2, <5>1
      <4> QED
        BY <4>1, <4>2
    <3>5. AloneOK(el', <<>>, under)
      BY DEF AloneOK
    <3> QED
      BY <1>1, <2>1, <3>1, <3>2, <3>3, <3>4, <3>5, Zenon
  <2>7. ShowOK(el', queue', busy', running', tasks', turns', asked', orderly', whole')
    BY <1>1, <1>3, <1>5, <2>1, <2>2, <2>4, <2>5, <2>6, ShowParts, Zenon DEF ShowOK
  <2> QED
    BY <1>1, <2>7, ShowPrimed
<1>11. CASE t.do \in {"callback", "keep"}
  <2>1. /\ el' = el /\ tasks' = under /\ queue' = queue /\ busy' = busy /\ running' = running
        /\ orderly' = orderly /\ whole' = whole
    BY <1>6, <1>11
  <2>2. (Shows(tasks) <=> Shows(under)) /\ Plainly(tasks)
    BY <1>3, <1>11
  <2>3. QueueOK(queue', busy', running', tasks')
    <3>1. busy => Queued(running)
      BY <1>2, <2>2 DEF QueueOK
    <3> QED
      BY <1>2, <2>1, <3>1 DEF QueueOK
  <2>4. ASSUME orderly'
        PROVE  AloneOK(el', running', tasks') /\ Leads(Ahead(el', running', tasks'), queue', asked')
    <3>1. AloneOK(el, running, tasks) /\ Leads(Ahead(el, running, tasks), queue, asked)
      BY <2>1, <2>4, ShowParts
    <3>2. AloneOK(el, running, under)
      BY <1>3, <2>2, <3>1 DEF AloneOK
    <3>3. Ahead(el, running, under) = Ahead(el, running, tasks)
      BY <2>2, Zenon DEF Ahead
    <3> QED
      BY <1>1, <2>1, <3>1, <3>2, <3>3, Zenon
  <2>5. ShowOK(el', queue', busy', running', tasks', turns', asked', orderly', whole')
    BY <1>1, <1>3, <1>5, <2>1, <2>3, <2>4, ShowParts, Zenon DEF ShowOK
  <2> QED
    BY <1>1, <2>5, ShowPrimed
<1> QED
  BY <1>4, <1>7, <1>8, <1>9, <1>10, <1>11

LEMMA ShowInit == SH!Init => ShowInv
<1> SUFFICES ASSUME SH!Init  PROVE ShowInv
  OBVIOUS
<1>1. /\ queue = <<>> /\ busy = FALSE /\ running = <<>> /\ tasks = <<>> /\ turns = 0 /\ orderly = TRUE /\ whole = TRUE
      /\ natural \in {"block", "inline"} /\ sheet \in BOOLEAN
  BY DEF SH!Init
<1>2. asked = ~SH!Hidden(el)
  BY DEF SH!Init
<1>3. el \in [inline : {"", "none"}, old : {Unset}, style : {[p \in SH!Prop |-> "own"]}, overflow : {"own"}]
  BY DEF SH!Init
<1>4. el \in Element /\ Displayed(el) /\ el.overflow = "own" /\ el.style = [p \in SH!Prop |-> "own"]
  BY <1>3 DEF Element, Displayed, SH!Display, SH!Style
<1>5. \A p \in SH!Prop : el.style[p] = "own"
  BY <1>4
<1>6. <<>> \in Seq(Animated) /\ <<>> \in Seq(Running) /\ <<>> \in Seq(Tasks) /\ Len(<<>>) = 0
  OBVIOUS
<1>7. Early(<<>>) /\ Forces(<<>>, 0) /\ ~Shows(<<>>)
  BY DEF Early, Forces, Shows
<1>8. QueueOK(<<>>, FALSE, <<>>, <<>>)
  BY DEF QueueOK
<1>9. StyleOK(el, <<>>)
  <2>1. \A k \in 1..Len(<<>>) : FALSE
    BY <1>6
  <2> QED
    BY <1>4, <1>5, <2>1 DEF StyleOK
<1>10. AloneOK(el, <<>>, <<>>)
  BY <1>6 DEF AloneOK
<1>11. Leads(Ahead(el, <<>>, <<>>), <<>>, asked)
  <2>1. Ahead(el, <<>>, <<>>) = ~SH!Hidden(el)
    BY <1>7, AheadIs, Zenon
  <2>2. asked \in BOOLEAN
    BY <1>2
  <2>3. Leads(asked, <<>>, asked)
    BY <2>2, LeadsNone
  <2> QED
    BY <1>2, <2>1, <2>3, Zenon
<1>12. turns \in 0..MaxAnimated /\ asked \in BOOLEAN
  BY <1>1, <1>2, ShowAssumption DEF SH!CallAssumption
<1>13. Kinds
  BY <1>1 DEF Kinds
<1>14. TRUE \in BOOLEAN /\ FALSE \in BOOLEAN
  OBVIOUS
<1> QED
  BY <1>1, <1>4, <1>6, <1>7, <1>8, <1>9, <1>10, <1>11, <1>12, <1>13, <1>14, Zenon DEF ShowInv, ShowOK

LEMMA ShowStutters ==
  ASSUME ShowInv, UNCHANGED SH!vars
  PROVE  ShowInv'
<1>1. /\ natural' = natural /\ sheet' = sheet /\ el' = el /\ queue' = queue /\ busy' = busy /\ running' = running
      /\ tasks' = tasks /\ turns' = turns /\ asked' = asked /\ orderly' = orderly /\ whole' = whole
  BY DEF SH!vars
<1>2. ShowOK(el', queue', busy', running', tasks', turns', asked', orderly', whole')
  BY <1>1, Zenon DEF ShowInv
<1> QED
  BY <1>1, <1>2, ShowPrimed

LEMMA ShowStep == ShowInv /\ [SH!Next]_SH!vars => ShowInv'
<1> SUFFICES ASSUME ShowInv, [SH!Next]_SH!vars  PROVE ShowInv'
  OBVIOUS
<1>1. CASE UNCHANGED SH!vars
  BY <1>1, ShowStutters
<1>2. ASSUME NEW val, SH!Directly(val)  PROVE ShowInv'
  BY <1>2, DirectlyKeeps
<1>3. ASSUME NEW c \in Animated, SH!Animate(c)  PROVE ShowInv'
  BY <1>3, AnimateKeeps
<1>4. ASSUME NEW clearQueue \in BOOLEAN, SH!Stop(clearQueue)  PROVE ShowInv'
  BY <1>4, StopKeeps
<1>5. ASSUME NEW clearQueue \in BOOLEAN, SH!StopAtEnd(clearQueue)  PROVE ShowInv'
  BY <1>5, StopAtEndKeeps
<1>6. CASE SH!LastStep
  BY <1>6, LastStepKeeps
<1>7. CASE SH!Go
  BY <1>7, GoKeeps
<1> QED
  BY <1>1, <1>2, <1>3, <1>4, <1>5, <1>6, <1>7, Zenon DEF SH!Next

LEMMA ShowHolds == SH!Spec => []ShowInv
<1>1. SH!Init => ShowInv
  BY ShowInit
<1>2. ShowInv /\ [SH!Next]_SH!vars => ShowInv'
  BY ShowStep
<1> QED
  BY <1>1, <1>2, PTL DEF SH!Spec

-----------------------------------------------------------------------------
(* What is asked is done.                                                  *)

LEMMA ShowTyped == ShowInv => SH!TypeOK
<1> SUFFICES ASSUME ShowInv  PROVE SH!TypeOK
  OBVIOUS
<1>1. \A a \in SH!Range(running) : a.orig \in [SH!Prop -> SH!Style] /\ a.overflow \in {"own", "hidden", Unset}
  <2>1. running \in Seq(Running)
    BY ShowParts
  <2>2. \A k \in 1..Len(running) : running[k] \in Running
    BY <2>1, ElementOfSeq
  <2>3. DOMAIN running = 1..Len(running)
    BY <2>1, LenProperties
  <2> QED
    BY <2>2, <2>3 DEF SH!Range, Running
<1>2. \A t \in SH!Range(tasks) : t.do \in {"dequeue", "callback", "keep", "remove", "show", "force"}
  <2>1. tasks \in Seq(Tasks)
    BY ShowParts
  <2>2. \A k \in 1..Len(tasks) : tasks[k] \in Tasks
    BY <2>1, ElementOfSeq
  <2>3. DOMAIN tasks = 1..Len(tasks)
    BY <2>1, LenProperties
  <2>4. \A t \in Tasks : t.do \in {"dequeue", "callback", "keep", "remove", "show", "force"}
    BY DEF Tasks
  <2> QED
    BY <2>2, <2>3, <2>4 DEF SH!Range
<1>3. natural \in {"block", "inline"} /\ {sheet, busy, asked, orderly, whole} \subseteq BOOLEAN
  BY ShowParts DEF Kinds
<1>4. el \in [inline : SH!Display, old : SH!Display \union {Unset}, style : [SH!Prop -> SH!Style], overflow : {"own", "hidden"}]
  BY ShowParts DEF Element
<1>5. queue \in Seq(Animated) /\ turns \in 0..MaxAnimated
  BY ShowParts
<1> QED
  BY <1>1, <1>2, <1>3, <1>4, <1>5 DEF SH!TypeOK

LEMMA ShowImplies == ShowInv => AsAsked
<1> SUFFICES ASSUME ShowInv  PROVE AsAsked
  OBVIOUS
<1>1. /\ Kinds /\ el \in Element /\ Displayed(el) /\ running \in Seq(Running) /\ QueueOK(queue, busy, running, tasks)
      /\ whole => StyleOK(el, running)
      /\ orderly => AloneOK(el, running, tasks) /\ Leads(Ahead(el, running, tasks), queue, asked)
  BY ShowParts
<1>2. Len(<<>>) = 0 /\ \A k \in 1..0 : FALSE
  OBVIOUS
<1>3. SH!RightDisplay
  BY <1>1 DEF SH!RightDisplay, SH!Hidden, SH!Css, Kinds, Displayed
<1>4. SH!Restored
  <2> SUFFICES ASSUME running = <<>>, whole  PROVE el.overflow = "own" /\ \A p \in SH!Prop : el.style[p] = "own"
    BY DEF SH!Restored, SH!Rest
  <2>1. StyleOK(el, <<>>)
    BY <1>1
  <2>2. \A p : ~Moves(<<>>, p)
    BY <1>2 DEF Moves
  <2>3. el.overflow # "hidden" /\ \A p \in SH!Prop : el.style[p] # "moved"
    BY <2>1, <2>2 DEF StyleOK
  <2> QED
    BY <1>1, <2>3 DEF Element, SH!Style
<1>5. SH!Obeyed
  <2> SUFFICES ASSUME running = <<>>, tasks = <<>>, queue = <<>>, orderly  PROVE SH!Hidden(el) = ~asked
    BY DEF SH!Obeyed, SH!Rest
  <2>1. ~Shows(tasks)
    BY <1>2 DEF Shows
  <2>2. Ahead(el, running, tasks) = ~SH!Hidden(el)
    BY <2>1, AheadIs, Zenon
  <2>3. asked = ~SH!Hidden(el)
    BY <1>1, <2>2, LeadsNowhere, Zenon
  <2>4. SH!Hidden(el) \in BOOLEAN
    BY DEF SH!Hidden
  <2>5. ASSUME NEW h \in BOOLEAN, asked = ~h  PROVE h = ~asked
    BY <2>5
  <2> QED
    BY <2>3, <2>4, <2>5, Zenon
<1>6. SH!NotStuck
  <2>1. Plainly(<<>>)
    BY DEF Plainly
  <2>2. Queued(running) => \E a \in SH!Range(running) : a.queue
    <3>1. DOMAIN running = 1..Len(running)
      BY <1>1, LenProperties
    <3> QED
      BY <3>1 DEF Queued, SH!Range
  <2>3. busy => ~Plainly(tasks) \/ Queued(running)
    BY <1>1 DEF QueueOK
  <2>4. busy => tasks # <<>> \/ \E a \in SH!Range(running) : a.queue
    BY <2>1, <2>2, <2>3, Zenon
  <2>5. queue # <<>> => busy
    BY <1>1 DEF QueueOK
  <2> QED
    BY <2>4, <2>5 DEF SH!NotStuck
<1> QED
  BY <1>3, <1>4, <1>5, <1>6 DEF AsAsked

\* Showing, hiding and toggling, at once or animated, in whatever order calls come: an element
\* that is seen has the display of its kind, styles and overflow are put back when nothing runs,
\* calls that wait their turn are obeyed in their order, and what waits in the queue has an
\* animation or a call before it that will take it from there (7964-8213, 8376-8442).
THEOREM ShownAsAsked == SH!Spec => []AsAsked
<1>1. ShowInv => AsAsked
  BY ShowImplies
<1> QED
  BY <1>1, ShowHolds, PTL

-----------------------------------------------------------------------------
(* What is kept about nodes.  DP has the theorems of NodeDataProofs; it    *)
(* defines again what ND does.                                             *)

DP == INSTANCE NodeDataProofs WITH MaxCalls <- MaxData, None <- NoNode

LEMMA SameVars == DP!vars = ND!vars
BY Zenon DEF DP!vars, ND!vars, DP!nodes, ND!nodes, DP!entries, ND!entries, DP!work, ND!work

LEMMA SameStore == \A m : DP!Store(m) <=> ND!Store(m)
<1>1. ASSUME NEW m, NEW k  PROVE DP!SetData(m, k) <=> ND!SetData(m, k)
  BY Zenon DEF DP!SetData, ND!SetData, DP!data, ND!data, DP!Entry, ND!Entry, DP!IdOf, ND!IdOf, DP!Id, ND!Id,
    DP!Pub, ND!Pub, DP!Priv, ND!Priv, DP!HasEntry, ND!HasEntry
<1>2. ASSUME NEW m  PROVE DP!GetData(m) <=> ND!GetData(m)
  BY Zenon DEF DP!GetData, ND!GetData, DP!data, ND!data, DP!Entry, ND!Entry, DP!IdOf, ND!IdOf, DP!Id, ND!Id,
    DP!Pub, ND!Pub, DP!Priv, ND!Priv, DP!HasEntry, ND!HasEntry
<1>3. ASSUME NEW m, NEW names  PROVE DP!RemoveData(m, names) <=> ND!RemoveData(m, names)
  BY Zenon DEF DP!RemoveData, ND!RemoveData, DP!Leave, ND!Leave, DP!Pub, ND!Pub, DP!Priv, ND!Priv, DP!HasEntry, ND!HasEntry
<1>4. ASSUME NEW m  PROVE DP!Keep(m) <=> ND!Keep(m)
  BY Zenon DEF DP!Keep, ND!Keep, DP!PrivateData, ND!PrivateData, DP!Entry, ND!Entry, DP!IdOf, ND!IdOf, DP!Id, ND!Id,
    DP!RefOf, ND!RefOf, DP!Pub, ND!Pub, DP!Priv, ND!Priv, DP!ObjectOf, ND!ObjectOf, DP!HasEntry, ND!HasEntry, DP!Blank, ND!Blank
<1>5. ASSUME NEW m  PROVE DP!GiveUp(m) <=> ND!GiveUp(m)
  BY Zenon DEF DP!GiveUp, ND!GiveUp, DP!LeavePrivate, ND!LeavePrivate, DP!Leave, ND!Leave, DP!entries, ND!entries,
    DP!Pub, ND!Pub, DP!Priv, ND!Priv, DP!ObjectOf, ND!ObjectOf, DP!HasEntry, ND!HasEntry, DP!Blank, ND!Blank
<1>6. ASSUME NEW m, NEW ts  PROVE DP!Unbind(m, ts) <=> ND!Unbind(m, ts)
  BY Zenon DEF DP!Unbind, ND!Unbind, DP!hasData, ND!hasData, DP!LeavePrivate, ND!LeavePrivate, DP!Leave, ND!Leave, DP!entries, ND!entries,
    DP!PrivateData, ND!PrivateData, DP!Entry, ND!Entry, DP!IdOf, ND!IdOf, DP!Id, ND!Id,
    DP!RefOf, ND!RefOf, DP!Pub, ND!Pub, DP!Priv, ND!Priv, DP!ObjectOf, ND!ObjectOf, DP!HasEntry, ND!HasEntry, DP!Blank, ND!Blank
<1>7. ASSUME NEW m, NEW t  PROVE DP!Bind(m, t) <=> ND!Bind(m, t)
  BY Zenon DEF DP!Bind, ND!Bind, DP!PrivateData, ND!PrivateData, DP!Entry, ND!Entry, DP!IdOf, ND!IdOf, DP!Id, ND!Id,
    DP!RefOf, ND!RefOf, DP!Pub, ND!Pub, DP!Priv, ND!Priv, DP!ObjectOf, ND!ObjectOf, DP!HasEntry, ND!HasEntry, DP!Blank, ND!Blank
<1> QED
  BY <1>1, <1>2, <1>3, <1>4, <1>5, <1>6, <1>7, Zenon DEF DP!Store, ND!Store

LEMMA SamePlace == \A m : DP!Place(m) <=> ND!Place(m)
<1>1. ASSUME NEW m  PROVE DP!remove(m) <=> ND!remove(m)
  BY Zenon DEF DP!remove, ND!remove, DP!cleanData, ND!cleanData, DP!Subtree, ND!Subtree, DP!Whole, ND!Whole,
    DP!ObjectOf, ND!ObjectOf, DP!Priv, ND!Priv, DP!HasEntry, ND!HasEntry, DP!Id, ND!Id, DP!Blank, ND!Blank
<1>2. ASSUME NEW m  PROVE DP!detach(m) <=> ND!detach(m)
  BY Zenon DEF DP!detach, ND!detach, DP!entries, ND!entries
<1>3. ASSUME NEW m  PROVE DP!empty(m) <=> ND!empty(m)
  BY Zenon DEF DP!empty, ND!empty, DP!cleanData, ND!cleanData, DP!Subtree, ND!Subtree, DP!Whole, ND!Whole,
    DP!ObjectOf, ND!ObjectOf, DP!Priv, ND!Priv, DP!HasEntry, ND!HasEntry, DP!Id, ND!Id, DP!Blank, ND!Blank
<1>4. ASSUME NEW m, NEW k  PROVE DP!replaceWith(m, k) <=> ND!replaceWith(m, k)
  BY Zenon DEF DP!replaceWith, ND!replaceWith, DP!cleanData, ND!cleanData, DP!Subtree, ND!Subtree, DP!Whole, ND!Whole,
    DP!ObjectOf, ND!ObjectOf, DP!Priv, ND!Priv, DP!HasEntry, ND!HasEntry, DP!Id, ND!Id, DP!Blank, ND!Blank
<1> QED
  BY <1>1, <1>2, <1>3, <1>4, Zenon DEF DP!Place, ND!Place

LEMMA SameUser == DP!User <=> ND!User
<1>1. ASSUME NEW m, NEW events, NEW deep  PROVE DP!clone(m, events, deep) <=> ND!clone(m, events, deep)
  BY Zenon DEF DP!clone, ND!clone, DP!Twins, ND!Twins, DP!CloneNodes, ND!CloneNodes, DP!Subtree, ND!Subtree, DP!Whole, ND!Whole,
    DP!Injection, ND!Injection, DP!IsInjective, ND!IsInjective, DP!Range, ND!Range, DP!entries, ND!entries
<1>2. ASSUME NEW m, NEW targets  PROVE DP!append(m, targets) <=> ND!append(m, targets)
  BY Zenon DEF DP!append, ND!append, DP!Subtree, ND!Subtree, DP!Whole, ND!Whole, DP!entries, ND!entries
<1> QED
  BY <1>1, <1>2, SameStore, SamePlace, Zenon DEF DP!User, ND!User, DP!Quiet, ND!Quiet, DP!nodes, ND!nodes

LEMMA SameNext == DP!Next <=> ND!Next
<1>1. DP!CopyNext <=> ND!CopyNext
  BY Zenon DEF DP!CopyNext, ND!CopyNext, DP!cloneCopyEvent, ND!cloneCopyEvent, DP!Entry, ND!Entry, DP!IdOf, ND!IdOf, DP!Id, ND!Id,
    DP!Pub, ND!Pub, DP!Priv, ND!Priv, DP!ObjectOf, ND!ObjectOf, DP!HasEntry, ND!HasEntry, DP!hasData, ND!hasData,
    DP!Blank, ND!Blank, DP!nodes, ND!nodes, DP!entries, ND!entries
<1>2. DP!CloneNext <=> ND!CloneNext
  BY Zenon DEF DP!CloneNext, ND!CloneNext, DP!Twins, ND!Twins, DP!CloneNodes, ND!CloneNodes, DP!Subtree, ND!Subtree,
    DP!Whole, ND!Whole, DP!Injection, ND!Injection, DP!IsInjective, ND!IsInjective, DP!Range, ND!Range, DP!entries, ND!entries
<1>3. DP!Insert <=> ND!Insert
  BY Zenon DEF DP!Insert, ND!Insert, DP!entries, ND!entries
<1> QED
  BY <1>1, <1>2, <1>3, SameUser, Zenon DEF DP!Next, ND!Next

LEMMA SameSpec == ND!Spec => DP!Spec
<1>1. ND!Init => DP!Init
  BY Zenon DEF DP!Init, ND!Init, DP!Blank, ND!Blank, DP!Id, ND!Id
<1>2. [ND!Next]_ND!vars => [DP!Next]_DP!vars
  <2>1. DP!vars' = ND!vars'
    BY Zenon DEF DP!vars, ND!vars, DP!nodes, ND!nodes, DP!entries, ND!entries, DP!work, ND!work
  <2> QED
    BY <2>1, SameNext, SameVars, Zenon
<1> QED
  BY <1>1, <1>2, PTL DEF ND!Spec, DP!Spec

LEMMA SameProperties ==
  /\ DP!TypeOK <=> ND!TypeOK
  /\ DP!Owned /\ DP!Heard /\ DP!Apart /\ DP!Alike <=> OwnData
<1>1. DP!TypeOK <=> ND!TypeOK
  BY Zenon DEF DP!TypeOK, ND!TypeOK, DP!Object, ND!Object, DP!Id, ND!Id
<1>2. DP!Owned <=> ND!Owned
  BY Zenon DEF DP!Owned, ND!Owned
<1>3. DP!Heard <=> ND!Heard
  BY Zenon DEF DP!Heard, ND!Heard, DP!ObjectOf, ND!ObjectOf, DP!Priv, ND!Priv, DP!HasEntry, ND!HasEntry, DP!Blank, ND!Blank
<1>4. DP!Apart <=> ND!Apart
  BY Zenon DEF DP!Apart, ND!Apart, DP!Priv, ND!Priv, DP!HasEntry, ND!HasEntry
<1>5. DP!Alike <=> ND!Alike
  BY Zenon DEF DP!Alike, ND!Alike, DP!Pub, ND!Pub, DP!ObjectOf, ND!ObjectOf, DP!Priv, ND!Priv, DP!HasEntry, ND!HasEntry,
    DP!Blank, ND!Blank
<1> QED
  BY <1>1, <1>2, <1>3, <1>4, <1>5, Zenon DEF OwnData

LEMMA OwnDataHolds == ND!Spec => [](ND!TypeOK /\ OwnData)
<1>1. DP!DataAssumption
  BY NodeAssumption, Zenon DEF DP!DataAssumption, ND!DataAssumption
<1>2. DP!Spec => []DP!TypeOK
  BY <1>1, DP!TypeCorrect
<1>3. DP!Spec => []DP!Owned
  BY <1>1, DP!OwnedHolds
<1>4. DP!Spec => []DP!Heard
  BY <1>1, DP!HeardHolds
<1>5. DP!Spec => []DP!Apart
  BY <1>1, DP!ApartHolds
<1>6. DP!Spec => []DP!Alike
  BY <1>1, DP!AlikeHolds
<1>7. DP!TypeOK /\ DP!Owned /\ DP!Heard /\ DP!Apart /\ DP!Alike => ND!TypeOK /\ OwnData
  BY SameProperties, Zenon
<1> QED
  BY <1>2, <1>3, <1>4, <1>5, <1>6, <1>7, SameSpec, PTL

\* What jQuery keeps about nodes stays with them, and what is asked of an element is done,
\* whatever the page calls (1408-1572, 5805-6185, 7964-8213, 8376-8442).
THEOREM NodesAreRight == ND!Spec /\ SH!Spec => []NodesRight
<1>1. OwnData /\ AsAsked => NodesRight
  BY DEF NodesRight
<1> QED
  BY <1>1, OwnDataHolds, ShownAsAsked, PTL

\* The variables of all five keep to their types, whatever the callbacks, the functions of pipe
\* and the page do.
THEOREM PromisesAreTyped == Spec /\ W!Spec /\ P!Spec /\ ND!Spec /\ SH!Spec => []PromiseTypes
<1>1. WhenInv => W!TypeOK
  BY DEF WhenInv
<1>2. ChainInv => P!TypeOK
  BY DEF ChainInv
<1>3. TypeOK /\ W!TypeOK /\ P!TypeOK /\ ND!TypeOK /\ SH!TypeOK => PromiseTypes
  BY DEF PromiseTypes
<1> QED
  BY <1>1, <1>2, <1>3, TypeCorrect, WhenHolds, ChainHolds, OwnDataHolds, ShowHolds, ShowTyped, PTL
=============================================================================
