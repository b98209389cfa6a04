-------------------------------- MODULE Sizzle --------------------------------
(***************************************************************************)
(* The selector engine (vendor.js of elasticSearch), where the browser has *)
(* none for a selector.  It finds what the last part of the selector is    *)
(* true of, and goes through the parts from right to left, replacing each  *)
(* element by one that the part before it is true of: the parent, the      *)
(* sibling, or the nearest of the ancestors or siblings.  Walks that meet  *)
(* share their outcome through marks on the nodes.                         *)
(*                                                                         *)
(* Nodes are numbered in the order of the document, 0 being the document   *)
(* itself.  A selector is a sequence of parts, each a tag or a class, with *)
(* what relates it to the part before it, the first to the context.        *)
(***************************************************************************)
EXTENDS Integers, Sequences, FiniteSets

CONSTANTS
  N,           \* elements 1..N, of which 1 is the document element
  Label,       \* tags and classes; each element has one
  Selectors,   \* what is asked for: see Selector
  Contexts     \* where

Node == 1..N

Selector(s) ==
  /\ s # <<>>
  /\ \A k \in DOMAIN s : /\ s[k].part \in Label
                         /\ s[k].rel \in {IF k = 1 THEN "none" ELSE "", ">", "+", "~"}

SelectorAssumption == N \in Nat \ {0} /\ Contexts \subseteq 0..N /\ \A s \in Selectors : Selector(s)

VARIABLES
  parent, label,       \* the document
  context, selector,
  left,                \* the number of parts that are still to be looked at, with the context
  set,                 \* what was found for the last part, in the order of the document
  checkSet,            \* for each of it, the element that was reached, No, or Yes: the context
  results              \* of set, once it was pruned

vars == <<parent, label, context, selector, left, set, checkSet, results>>

No == -1
Yes == -2

-----------------------------------------------------------------------------
(* The document.                                                           *)

\* Numbered in its order: the parent of n is n - 1 or one of the elements above that.
Trees ==
  {p \in [Node -> 0..N] :
    p[1] = 0 /\ \A n \in 2..N : p[n] \in 1..(n - 1) /\ \A m \in (p[n] + 1)..(n - 1) : p[m] >= p[n]}

\* The elements reached from n by parentNode, the nearest first, and by previousSibling.
Above(n) ==
  LET up[k \in 0..N] == IF k = 0 THEN n ELSE IF up[k - 1] = 0 THEN 0 ELSE parent[up[k - 1]]
  IN  SelectSeq([k \in 1..N |-> up[k]], LAMBDA m : m # 0)
Before(n) == SelectSeq([k \in 1..(n - 1) |-> n - k], LAMBDA m : parent[m] = parent[n])

Contains(a, n) == a = 0 \/ \E k \in DOMAIN Above(n) : Above(n)[k] = a

\* getElementsByTagName and getElementsByClassName.
ElementsOf(a, part) == SelectSeq([n \in Node |-> n], LAMBDA n : Contains(a, n) /\ label[n] = part)

-----------------------------------------------------------------------------
(* One relation, with a part or, at last, with the context.                *)

\* filter, and the comparison of names; the document has none of them.
Fits(n, part) == n # 0 /\ label[n] = part
Fitting(part) == {n \in Node : label[n] = part}

\* ">" and "+", for an element or No.
Parent(n, part) == IF n # No /\ Fits(parent[n], part) THEN parent[n] ELSE No
ParentIs(n, c) == IF n # No /\ parent[n] = c THEN Yes ELSE No
Previous(n, part) == IF n # No /\ Before(n) # <<>> /\ Fits(Head(Before(n)), part) THEN Head(Before(n)) ELSE No
PreviousIs(n, c) == IF n # No /\ Before(n) # <<>> /\ Head(Before(n)) = c THEN Yes ELSE No

Ways(rel) == [n \in Node |-> IF rel = "" THEN Above(n) ELSE Before(n)]

\* Mutant: the way that met the mark is taken to end at it.
OutcomeHere(reached, mark, n) == n

\* What was found by the element whose mark is met.
Outcome(reached, mark, n) == reached[mark[n]]

\* dirNodeCheck and dirCheck, for one element after the other: the first on its way that is
\* one of the hits, or the outcome of the walk whose mark it meets.  A walk marks with its index all
\* elements it comes to.
Walked(way, hits, as) ==
  LET walk[i \in 0..Len(checkSet)] ==
        IF i = 0 THEN [reached |-> checkSet, mark |-> [n \in Node |-> 0]]
        ELSE LET w == walk[i - 1]
                 s == IF checkSet[i] = No THEN <<>> ELSE way[checkSet[i]]
                 ends == {k \in DOMAIN s : w.mark[s[k]] # 0 \/ s[k] \in hits}
                 k == IF ends = {} THEN Len(s) ELSE CHOOSE j \in ends : \A h \in ends : j <= h
                 seen == {s[j] : j \in 1..k}
             IN  [reached |-> [w.reached EXCEPT ![i] =
                                 IF ends = {} THEN No
                                 ELSE IF w.mark[s[k]] # 0 THEN Outcome(w.reached, w.mark, s[k]) ELSE as[s[k]]],
                  mark |-> [n \in Node |-> IF w.mark[n] = 0 /\ n \in seen THEN i ELSE w.mark[n]]]
  IN  walk[Len(checkSet)].reached

\* Mutant: all the siblings before, not only the nearest.
RelatedSiblings(rel, part) ==
  CASE rel = ">" -> [i \in DOMAIN checkSet |-> Parent(checkSet[i], part)]
    [] rel = "" -> Walked(Ways(""), Fitting(part), [n \in Node |-> n])
    [] OTHER -> Walked(Ways("~"), Fitting(part), [n \in Node |-> n])

\* Expr.relative.
Related(rel, part) ==
  CASE rel = ">" -> [i \in DOMAIN checkSet |-> Parent(checkSet[i], part)]
    [] rel = "+" -> [i \in DOMAIN checkSet |-> Previous(checkSet[i], part)]
    [] rel = "" -> Walked(Ways(""), Fitting(part), [n \in Node |-> n])
    [] rel = "~" -> Walked(Ways("~"), Fitting(part), [n \in Node |-> n])

RelatedTo(rel, c) ==
  CASE rel = ">" -> [i \in DOMAIN checkSet |-> ParentIs(checkSet[i], c)]
    [] rel = "+" -> [i \in DOMAIN checkSet |-> PreviousIs(checkSet[i], c)]
    [] rel = "~" -> Walked(Ways("~"), {c}, [n \in Node |-> Yes])

-----------------------------------------------------------------------------
Init ==
  /\ parent \in Trees /\ label \in [Node -> Label]
  /\ context = 0 /\ selector = <<>> /\ left = 0 /\ set = <<>> /\ checkSet = <<>> /\ results = <<>>

\* Mutant: the context is searched whatever the selector begins with.
ScopeContext(s, c) == c

\* A single part beside the context is looked for in the context's parent.
Scope(s, c) == IF Len(s) = 1 /\ s[1].rel \in {"+", "~"} /\ c # 0 THEN parent[c] ELSE c

\* The elements of the last part.
Find(s, c) ==
  /\ selector = <<>>
  /\ selector' = s /\ context' = c
  /\ set' = ElementsOf(Scope(s, c), s[Len(s)].part) /\ checkSet' = set'
  /\ left' = IF s[1].rel = "none" THEN Len(s) - 1 ELSE Len(s)
  /\ results' = IF left' = 0 THEN set' ELSE <<>>
  /\ UNCHANGED <<parent, label>>

\* Mutant: what was reached may be anywhere.
PrunedAnywhere(cs) == SelectSeq(set, LAMBDA n : \E i \in DOMAIN set : set[i] = n /\ cs[i] # No)

\* What is returned of set: where there is a context, what was reached from it.
Pruned(cs) ==
  SelectSeq(set, LAMBDA n :
    \E i \in DOMAIN set : set[i] = n /\ IF context = 0 THEN cs[i] > 0
                                        ELSE cs[i] = Yes \/ (cs[i] # No /\ Contains(context, cs[i])))

\* The part before, or the context, and with the last the results.
Relate ==
  /\ left > 0
  /\ LET n == Len(selector)
         k == IF selector[1].rel = "none" THEN left + 1 ELSE left
         cs == IF k = 1 THEN RelatedTo(selector[1].rel, context)
               ELSE Related(selector[k].rel, selector[k - 1].part)
     IN  /\ checkSet' = cs
         /\ results' = IF left = 1 THEN Pruned(cs) ELSE results
  /\ left' = left - 1
  /\ UNCHANGED <<parent, label, context, selector, set>>

Next == Relate \/ \E s \in Selectors, c \in Contexts : Find(s, c)

Spec == Init /\ [][Next]_vars

-----------------------------------------------------------------------------
\* The types of the variables.
TypeOK ==
  /\ parent \in Trees /\ label \in [Node -> Label]
  /\ context \in Contexts \union {0} /\ selector \in Selectors \union {<<>>}
  /\ left \in 0..Len(selector)
  /\ set \in Seq(Node) /\ results \in Seq(Node)
  /\ checkSet \in Seq(Node \union {No, Yes}) /\ Len(checkSet) = Len(set)

\* What a selector means: from the left, the elements that the parts up to the k-th are true of.
Stand(rel, m, n) ==
  CASE rel = "" -> m # n /\ Contains(m, n)
    [] rel = ">" -> parent[n] = m
    [] rel = "+" -> Before(n) # <<>> /\ Head(Before(n)) = m
    [] rel = "~" -> \E k \in DOMAIN Before(n) : Before(n)[k] = m

Meant ==
  LET M[k \in DOMAIN selector] ==
        {n \in Node : /\ label[n] = selector[k].part
                      /\ IF k > 1 THEN \E m \in M[k - 1] : Stand(selector[k].rel, m, n)
                         ELSE IF selector[1].rel = "none" THEN Contains(context, n) /\ n # context
                         ELSE Stand(selector[1].rel, context, n)}
  IN  M[Len(selector)]

Found == {results[k] : k \in DOMAIN results}

\* What is returned is meant by the selector, in the order of the document and once each, although
\* the walks of different elements end where another has passed (3811-3858, 4988-5060).
Meaningful ==
  (selector # <<>> /\ left = 0) =>
    Found \subseteq Meant /\ \A j, k \in DOMAIN results : j < k => results[j] < results[k]

\* The engine does not go back: once the nearest ancestor or sibling was taken, another is not
\* tried.  So all that is meant is found as long as no part that must be a parent or next to
\* another is an ancestor in the selector, and none that must be next to another a sibling;
\* and as long as there is one part beside the context, and no relation to the document itself
\* (3811-3826, 4083-4144).
NeverTurnsBack ==
  /\ \A k \in 2..Len(selector) : /\ selector[k].rel = "" => selector[k - 1].rel \in {"", "none"}
                                 /\ selector[k].rel = "~" => selector[k - 1].rel # "+"
  /\ selector[1].rel \in {"+", "~"} => Len(selector) = 1
  /\ context = 0 => selector[1].rel = "none"

AllFound == (selector # <<>> /\ left = 0 /\ NeverTurnsBack) => Meant \subseteq Found
=============================================================================
