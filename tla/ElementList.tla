---------------------------- MODULE ElementList ----------------------------
(***************************************************************************)
(* The elements of a Raphael paper (vendor.js of elasticSearch): a doubly  *)
(* linked list from the bottom of the drawing to its top, kept beside the  *)
(* order of the nodes in the document, which is what is drawn.             *)
(*                                                                         *)
(* The two are changed one after the other by each method.  A set (Group)  *)
(* calls the method of each of its members; nothing else runs meanwhile.   *)
(***************************************************************************)
EXTENDS Naturals, Sequences

CONSTANTS
  Element,
  Group,       \* sets, which may stand where an element is expected
  Items,       \* the members of each
  None

ASSUME ElementAssumption ==
  /\ Items \in [Group -> Seq(Element) \ {<<>>}]
  /\ None \notin Element \union Group /\ Element \cap Group = {}

VARIABLES
  vml,           \* whether the VML branch is at work, not the SVG branch
  next, prev,    \* of each element; a set has them once it is taken for one
  top, bottom,   \* of the paper
  order,         \* the nodes on the paper, as the document has them
  status,        \* "new", "drawn", "cleared" (taken off the paper by clear) or "removed"
  call,          \* the method under way, with the members it is still to be called on
  astray         \* whether a call has put a wrong link into the list

links == <<next, prev, top, bottom>>
vars == <<vml, links, order, status, call, astray>>

Link == Element \union Group
Methods == {"toFront", "toBack", "insertAfter", "insertBefore", "remove"}
Idle == [method |-> "none", items |-> <<>>, left |-> <<>>, target |-> None]

Init ==
  /\ vml \in BOOLEAN
  /\ next = [x \in Link |-> None] /\ prev = [x \in Link |-> None]
  /\ top = None /\ bottom = None /\ order = <<>>
  /\ status = [e \in Element |-> "new"] /\ call = Idle /\ astray = FALSE

-----------------------------------------------------------------------------
At(e) == CHOOSE k \in 1..Len(order) : order[k] = e
Drawn(e) == \E k \in 1..Len(order) : order[k] = e

\* The nodes without e, and with e in the place of position k of those.
Without(e) ==
  IF Drawn(e) THEN [k \in 1..(Len(order) - 1) |-> IF k < At(e) THEN order[k] ELSE order[k + 1]] ELSE order

Put(s, k, e) == [j \in 1..(Len(s) + 1) |-> IF j < k THEN s[j] ELSE IF j = k THEN e ELSE s[j - 1]]

\* Mutant: only one side.
TornPrevNot(e) == prev

\* tear: what is beside e is linked to each other, and e keeps its own links.
TornNext(e) == [x \in Link |-> IF x = prev[e] THEN next[e] ELSE next[x]]
TornPrev(e) == [x \in Link |-> IF x = next[e] THEN prev[e] ELSE prev[x]]
TornTop(e) == IF top = e THEN prev[e] ELSE top
TornBottom(e) == IF bottom = e THEN next[e] ELSE bottom

-----------------------------------------------------------------------------
\* The constructor of an element, whose node was appended to the canvas.
Create(e) ==
  /\ call.left = <<>> /\ ~astray /\ status[e] = "new"
  /\ status' = [status EXCEPT ![e] = "drawn"]
  /\ order' = Append(order, e)
  /\ bottom' = IF bottom = None THEN e ELSE bottom
  /\ prev' = [prev EXCEPT ![e] = top]
  /\ next' = [x \in Link |-> IF x = e THEN None ELSE IF x = top THEN e ELSE next[x]]
  /\ top' = e /\ call' = Idle
  /\ UNCHANGED <<vml, astray>>

\* Mutant: the paper keeps its top.
ClearNodes ==
  /\ call.left = <<>> /\ ~astray /\ order # <<>>
  /\ status' = [e \in Element |-> IF Drawn(e) THEN "cleared" ELSE status[e]]
  /\ order' = <<>> /\ bottom' = None /\ call' = Idle
  /\ UNCHANGED <<vml, next, prev, top, astray>>

\* paper.clear: the nodes are taken out, and the elements know nothing of it.
Clear ==
  /\ call.left = <<>> /\ ~astray /\ order # <<>>
  /\ status' = [e \in Element |-> IF Drawn(e) THEN "cleared" ELSE status[e]]
  /\ order' = <<>> /\ top' = None /\ bottom' = None /\ call' = Idle
  /\ UNCHANGED <<vml, next, prev, astray>>

-----------------------------------------------------------------------------
\* Mutant: insertAfter too goes from the first to the last.
SequenceForward(m, s) == s

\* A set goes through its members, insertAfter from the last to the first.
Sequence(m, s) == IF m = "insertAfter" THEN [k \in 1..Len(s) |-> s[Len(s) + 1 - k]] ELSE s

\* The page calls a method of an element or of a set.
Call(m, s, d) ==
  /\ call.left = <<>> /\ ~astray
  /\ \A k \in DOMAIN s : status[s[k]] # "new"
  /\ IF m \in {"insertAfter", "insertBefore"} THEN d \in Link /\ (d \in Element => status[d] # "new") ELSE d = None
  /\ call' = [method |-> m, items |-> s, left |-> Sequence(m, s), target |-> d]
  /\ UNCHANGED <<vml, links, order, status, astray>>

Turn(m) == call.left # <<>> /\ call.method = m
Member == Head(call.left)
NextMember == call' = [call EXCEPT !.left = Tail(@)]

\* Where there is no node any more, the method throws before it changes a link.
Throws ==
  /\ call' = Idle
  /\ UNCHANGED <<vml, links, order, status, astray>>

\* A method of a removed element returns; toFront of VML looks for its paper.
OfRemoved ==
  /\ call.left # <<>> /\ status[Member] = "removed"
  /\ IF vml /\ call.method = "toFront" THEN call' = Idle ELSE NextMember
  /\ UNCHANGED <<vml, links, order, status, astray>>

\* remove.  The element of a cleared paper is torn out of what were its neighbours, once
\* more each time, and then its node has no parent.
Remove ==
  /\ Turn("remove") /\ status[Member] \in {"drawn", "cleared"}
  /\ LET e == Member IN
     /\ top' = TornTop(e) /\ bottom' = TornBottom(e)
     /\ IF status[e] = "drawn"
        THEN /\ order' = Without(e) /\ status' = [status EXCEPT ![e] = "removed"]
             /\ next' = [TornNext(e) EXCEPT ![e] = None] /\ prev' = [TornPrev(e) EXCEPT ![e] = None]
             /\ NextMember /\ UNCHANGED astray
        ELSE /\ next' = TornNext(e) /\ prev' = TornPrev(e)
             /\ call' = Idle /\ astray' = TRUE
             /\ UNCHANGED <<order, status>>
  /\ UNCHANGED vml

\* toFront, with tofront.
ToFront ==
  /\ Turn("toFront") /\ status[Member] \in {"drawn", "cleared"}
  /\ LET e == Member IN
     IF status[e] = "cleared" THEN Throws
     ELSE /\ order' = Append(Without(e), e)
          /\ IF top = e THEN UNCHANGED links
             ELSE /\ next' = [TornNext(e) EXCEPT ![e] = None, ![top] = e]
                  /\ prev' = [TornPrev(e) EXCEPT ![e] = top]
                  /\ top' = e /\ bottom' = TornBottom(e)
          /\ NextMember /\ UNCHANGED <<vml, status, astray>>

\* toBack, with toback, when the node is not the first.
ToBack ==
  /\ Turn("toBack") /\ status[Member] \in {"drawn", "cleared"}
  /\ LET e == Member IN
     IF status[e] = "cleared" THEN Throws
     ELSE /\ order' = Put(Without(e), 1, e)
          /\ IF bottom = e THEN UNCHANGED links
             ELSE /\ next' = [TornNext(e) EXCEPT ![e] = bottom]
                  /\ prev' = [TornPrev(e) EXCEPT ![e] = None, ![bottom] = e]
                  /\ bottom' = e /\ top' = TornTop(e)
          /\ NextMember /\ UNCHANGED <<vml, status, astray>>

-----------------------------------------------------------------------------
\* Of a set it is the last or the first member whose node is taken; VML goes on with that
\* member, SVG with the set itself.
Beside(d) ==
  IF d \notin Group THEN d ELSE IF call.method = "insertAfter" THEN Items[d][Len(Items[d])] ELSE Items[d][1]

Neighbour(d) == IF vml THEN Beside(d) ELSE d

Wrong(e, d) == d = e \/ d \in Group

\* The node comes to stand after that of the target, or before it.
Moved(e, node) ==
  IF e = node THEN order
  ELSE LET s == Without(e)
           k == CHOOSE k \in 1..Len(s) : s[k] = node
       IN  Put(s, IF call.method = "insertAfter" THEN k + 1 ELSE k, e)

\* insertAfter, with insertafter.
InsertAfter ==
  /\ Turn("insertAfter") /\ status[Member] \in {"drawn", "cleared"}
  /\ LET e == Member
         d == Neighbour(call.target)
     IN
     IF ~Drawn(Beside(call.target)) THEN Throws
     ELSE /\ order' = Moved(e, Beside(call.target)) /\ status' = [status EXCEPT ![e] = "drawn"]
          /\ top' = IF TornTop(e) = d THEN e ELSE TornTop(e)
          /\ bottom' = TornBottom(e)
          /\ next' = [TornNext(e) EXCEPT ![e] = TornNext(e)[d], ![d] = e]
          /\ prev' = [x \in Link |-> IF x = e THEN d ELSE IF x = TornNext(e)[d] THEN e ELSE TornPrev(e)[x]]
          /\ astray' = (astray \/ Wrong(e, d))
          /\ NextMember /\ UNCHANGED vml

\* insertBefore, with insertbefore.
InsertBefore ==
  /\ Turn("insertBefore") /\ status[Member] \in {"drawn", "cleared"}
  /\ LET e == Member
         d == Neighbour(call.target)
     IN
     IF ~Drawn(Beside(call.target)) THEN Throws
     ELSE /\ order' = Moved(e, Beside(call.target)) /\ status' = [status EXCEPT ![e] = "drawn"]
          /\ bottom' = IF TornBottom(e) = d THEN e ELSE TornBottom(e)
          /\ top' = TornTop(e)
          /\ prev' = [TornPrev(e) EXCEPT ![e] = TornPrev(e)[d], ![d] = e]
          /\ next' = [x \in Link |-> IF x = e THEN d ELSE IF x = TornPrev(e)[d] THEN e ELSE TornNext(e)[x]]
          /\ astray' = (astray \/ Wrong(e, d))
          /\ NextMember /\ UNCHANGED vml

-----------------------------------------------------------------------------
Page ==
  \/ \E e \in Element : Create(e)
  \/ Clear
  \/ \E m \in Methods, d \in Link \union {None} :
       \/ \E e \in Element : Call(m, <<e>>, d)
       \/ \E g \in Group : Call(m, Items[g], d)

Next == Page \/ OfRemoved \/ Remove \/ ToFront \/ ToBack \/ InsertAfter \/ InsertBefore

Spec == Init /\ [][Next]_vars

-----------------------------------------------------------------------------
\* The types of the variables.
TypeOK ==
  /\ vml \in BOOLEAN /\ astray \in BOOLEAN
  /\ next \in [Link -> Link \union {None}] /\ prev \in [Link -> Link \union {None}]
  /\ top \in Link \union {None} /\ bottom \in Link \union {None}
  /\ order \in Seq(Element)
  /\ status \in [Element -> {"new", "drawn", "cleared", "removed"}]
  /\ call \in [method : Methods \union {"none"}, items : Seq(Element), left : Seq(Element),
              target : Link \union {None}]

\* The list is the drawing: from bottom along next, and from top along prev, come the nodes in
\* their order, also after a paper was cleared and elements of the old drawing, which still have
\* their links to each other, are put into the new one.  A call that puts an element next to
\* itself, SVG's insertion next to a set, and the removal of a cleared element break the list
\* (tear to insertbefore, 10127-10168).
Linked ==
  ~astray =>
  /\ top = IF order = <<>> THEN None ELSE order[Len(order)]
  /\ bottom = IF order = <<>> THEN None ELSE order[1]
  /\ \A k \in 1..Len(order) :
       /\ next[order[k]] = IF k = Len(order) THEN None ELSE order[k + 1]
       /\ prev[order[k]] = IF k = 1 THEN None ELSE order[k - 1]

Members == {call.items[k] : k \in 1..Len(call.items)}

\* When a set was brought to the front or put beside an element that is not of it, its members
\* lie in the order they have in the set with nothing in between; toBack turns them round
\* (Set, 12635-12645, 12674-12680).
Together ==
  (call.left = <<>> /\ call.method \notin {"none", "remove"} /\ ~astray /\ Beside(call.target) \notin Members) =>
    \A j, k \in 1..Len(call.items) :
      (j < k /\ Drawn(call.items[j]) /\ Drawn(call.items[k])) =>
        LET p == At(call.items[j])
            q == At(call.items[k])
        IN  /\ (p < q) <=> (call.method # "toBack")
            /\ \A i \in 1..Len(order) : (i > p /\ i < q) \/ (i > q /\ i < p) => order[i] \in Members
=============================================================================
