------------------------------ MODULE NodeData ------------------------------
(***************************************************************************)
(* jQuery's data cache (vendor.js of elasticSearch) and what moves, copies *)
(* and removes the nodes that it is about.                                 *)
(*                                                                         *)
(* A node bears a number, under which the cache has its entry: the page's  *)
(* data, and in an object of its own what jQuery keeps, among it the       *)
(* handlers of events.  Objects and functions are references: two entries  *)
(* might have the same.                                                    *)
(***************************************************************************)
EXTENDS Naturals, Sequences, Functions

CONSTANTS
  Node,        \* the nodes of the document and those that clones may become
  Page,        \* the parents of the nodes at first, None at the top
  Made,        \* the nodes that are there at first
  Name,        \* the names that the page gives to data
  camelCase,   \* jQuery.camelCase
  Type,        \* event types
  MaxId,       \* bound: numbers that are given
  MaxCalls,    \* bound: calls of the page
  None

DataAssumption ==
  /\ Page \in [Node -> Node \union {None}] /\ None \notin Node /\ Made \subseteq Node
  /\ camelCase \in [Name -> Name] /\ MaxId \in Nat /\ MaxCalls \in Nat

Id == 1..MaxId

VARIABLES
  within,      \* parentNode
  made,        \* the nodes that are there
  expando,     \* elem[jQuery.expando], 0 for undefined
  uuid,        \* jQuery.uuid
  cache,       \* the numbers for which jQuery.cache has an entry
  pub,         \* per number, the names of the page's data
  priv,        \* per number, the object under internalKey, 0 for undefined
  objects,     \* those objects
  elem,        \* per handle (the function eventHandle), its property elem
  listening,   \* per node, the types and handles registered with the browser
  todo,        \* the targets that domManip still has to go through
  moving,      \* the node that it inserts
  fresh,       \* the clone that it is about to insert
  copying,     \* the pairs whose data clone still has to copy
  pairs,       \* history: the nodes and clones of the last call
  calls        \* the calls of the page

nodes == <<within, made>>
entries == <<expando, uuid, cache, pub, priv>>
work == <<todo, moving, fresh, copying, pairs>>
vars == <<nodes, entries, objects, elem, listening, work, calls>>

\* What jQuery keeps about a node: the types for which events has a list, the handle, and
\* whether there is something else, such as a queue.  Objects and handles are named by the
\* number of the node that they are made for.
Object == [types : SUBSET Type, handle : Id \union {0}, queue : BOOLEAN]
Blank == [types |-> {}, handle |-> 0, queue |-> FALSE]

Init ==
  /\ within = Page /\ made = Made
  /\ expando = [n \in Node |-> 0] /\ uuid = 0 /\ cache = {}
  /\ pub = [i \in Id |-> {}] /\ priv = [i \in Id |-> 0]
  /\ objects = [i \in Id |-> Blank] /\ elem = [i \in Id |-> None]
  /\ listening = [n \in Node |-> {}]
  /\ todo = <<>> /\ moving = None /\ fresh = None /\ copying = {} /\ pairs = {} /\ calls = 0

\* No call is under way.
Quiet == todo = <<>> /\ copying = {}

-----------------------------------------------------------------------------
(* The cache.                                                              *)

IdOf(n) == IF expando[n] = 0 THEN uuid + 1 ELSE expando[n]
HasEntry(n) == expando[n] \in cache
Pub(n) == IF HasEntry(n) THEN pub[expando[n]] ELSE {}
Priv(n) == IF HasEntry(n) THEN priv[expando[n]] ELSE 0
ObjectOf(n) == IF Priv(n) = 0 THEN Blank ELSE objects[Priv(n)]
hasData(n) == Pub(n) # {} \/ Priv(n) # 0

\* jQuery.data makes the number and the entry where there is none.
Entry(n, names, ref) ==
  /\ IdOf(n) \in Id
  /\ expando' = [expando EXCEPT ![n] = IdOf(n)]
  /\ uuid' = IF expando[n] = 0 THEN uuid + 1 ELSE uuid
  /\ cache' = cache \union {IdOf(n)}
  /\ pub' = [pub EXCEPT ![IdOf(n)] = names]
  /\ priv' = [priv EXCEPT ![IdOf(n)] = ref]

\* data for the page, also without a name.
data(n, names) == Entry(n, Pub(n) \union names, Priv(n)) /\ UNCHANGED objects

\* _data: the object becomes o.
RefOf(n) == IF Priv(n) = 0 THEN IdOf(n) ELSE Priv(n)
PrivateData(n, o) == Entry(n, Pub(n), RefOf(n)) /\ objects' = [objects EXCEPT ![RefOf(n)] = o]

\* Mutant: the number stays on the node.
LeaveNumber(n, names, ref) ==
  /\ pub' = [pub EXCEPT ![expando[n]] = names]
  /\ priv' = [priv EXCEPT ![expando[n]] = ref]
  /\ cache' = IF names = {} /\ ref = 0 THEN cache \ {expando[n]} ELSE cache
  /\ UNCHANGED <<expando, uuid>>

\* Mutant: with the page's last datum goes what jQuery keeps.
LeaveNothing(n, names, ref) ==
  /\ pub' = [pub EXCEPT ![expando[n]] = names]
  /\ priv' = [priv EXCEPT ![expando[n]] = IF names = {} THEN 0 ELSE ref]
  /\ IF names = {} THEN cache' = cache \ {expando[n]} /\ expando' = [expando EXCEPT ![n] = 0]
     ELSE UNCHANGED <<cache, expando>>
  /\ UNCHANGED uuid

\* removeData: what is left of the entry.  With nothing left, entry and number go.
Leave(n, names, ref) ==
  /\ pub' = [pub EXCEPT ![expando[n]] = names]
  /\ priv' = [priv EXCEPT ![expando[n]] = ref]
  /\ IF names = {} /\ ref = 0 THEN cache' = cache \ {expando[n]} /\ expando' = [expando EXCEPT ![n] = 0]
     ELSE UNCHANGED <<cache, expando>>
  /\ UNCHANGED uuid

\* removeData with pvt: o is left of the object.
LeavePrivate(n, o) ==
  /\ objects' = [objects EXCEPT ![Priv(n)] = o]
  /\ IF o = Blank THEN Leave(n, Pub(n), 0) ELSE UNCHANGED entries

SetData(n, k) == data(n, {camelCase[k]}) /\ UNCHANGED <<elem, listening>>

\* All the data of a node are asked for.
GetData(n) == data(n, {}) /\ UNCHANGED <<elem, listening>>

\* removeData of names, or of all.
RemoveData(n, names) ==
  /\ HasEntry(n)
  /\ Leave(n, Pub(n) \ names, Priv(n))
  /\ UNCHANGED <<objects, elem, listening>>

\* Something else is kept privately, and given up.
Keep(n) == PrivateData(n, [ObjectOf(n) EXCEPT !.queue = TRUE]) /\ UNCHANGED <<elem, listening>>
GiveUp(n) ==
  /\ ObjectOf(n).queue
  /\ LeavePrivate(n, [ObjectOf(n) EXCEPT !.queue = FALSE])
  /\ UNCHANGED <<elem, listening>>

\* What event.add does to the data.
Bind(n, t) ==
  LET o == ObjectOf(n)
      h == IF o.handle = 0 THEN IdOf(n) ELSE o.handle
  IN  /\ PrivateData(n, [o EXCEPT !.types = @ \union {t}, !.handle = h])
      /\ elem' = [elem EXCEPT ![h] = n]
      /\ listening' = [listening EXCEPT ![n] = IF t \in o.types THEN @ ELSE @ \union {<<t, h>>}]

\* What event.remove does to the data.  It asks for the object, which is made if there is none.
Unbind(n, ts) ==
  LET o == ObjectOf(n) IN
  /\ hasData(n)
  /\ IF o.types = {} THEN PrivateData(n, o) /\ UNCHANGED <<elem, listening>>
     ELSE /\ listening' = [listening EXCEPT ![n] = @ \ {<<t, o.handle>> : t \in o.types \cap ts}]
          /\ IF o.types \subseteq ts
             THEN elem' = [elem EXCEPT ![o.handle] = None] /\ LeavePrivate(n, [o EXCEPT !.types = {}, !.handle = 0])
             ELSE /\ objects' = [objects EXCEPT ![Priv(n)] = [o EXCEPT !.types = @ \ ts]]
                  /\ UNCHANGED <<elem, entries>>

-----------------------------------------------------------------------------
(* The document.                                                           *)

\* A node with all that is below it.
Whole(S) == \A m \in made : within[m] \in S => m \in S
Subtree(n) == {m \in made : \A S \in SUBSET made : n \in S /\ Whole(S) => m \in S}

\* Mutant: the number and the entry go, but the browser goes on calling.
cleanDataOnly(S) ==
  /\ expando' = [n \in Node |-> IF n \in S THEN 0 ELSE expando[n]]
  /\ cache' = cache \ {expando[n] : n \in S}
  /\ pub' = [i \in Id |-> IF i \in {expando[n] : n \in S} THEN {} ELSE pub[i]]
  /\ priv' = [i \in Id |-> IF i \in {expando[n] : n \in S} THEN 0 ELSE priv[i]]
  /\ objects' = [i \in Id |-> IF i \in {Priv(n) : n \in S} THEN Blank ELSE objects[i]]
  /\ UNCHANGED <<uuid, listening, elem>>

cleanData(S) ==
  /\ expando' = [n \in Node |-> IF n \in S THEN 0 ELSE expando[n]]
  /\ cache' = cache \ {expando[n] : n \in S}
  /\ pub' = [i \in Id |-> IF i \in {expando[n] : n \in S} THEN {} ELSE pub[i]]
  /\ priv' = [i \in Id |-> IF i \in {expando[n] : n \in S} THEN 0 ELSE priv[i]]
  /\ objects' = [i \in Id |-> IF i \in {Priv(n) : n \in S} THEN Blank ELSE objects[i]]
  /\ listening' = [n \in Node |-> IF n \in S THEN listening[n] \ {<<t, ObjectOf(n).handle>> : t \in ObjectOf(n).types}
                                  ELSE listening[n]]
  /\ elem' = [h \in Id |-> IF \E n \in S : ObjectOf(n).types # {} /\ ObjectOf(n).handle = h THEN None ELSE elem[h]]
  /\ UNCHANGED uuid

remove(n) ==
  /\ cleanData(Subtree(n))
  /\ within' = [within EXCEPT ![n] = None]
  /\ UNCHANGED made

detach(n) ==
  /\ within' = [within EXCEPT ![n] = None]
  /\ UNCHANGED <<made, entries, objects, elem, listening>>

\* empty, and html with a text.
empty(n) ==
  /\ cleanData(Subtree(n) \ {n})
  /\ within' = [m \in Node |-> IF within[m] = n THEN None ELSE within[m]]
  /\ UNCHANGED made

\* Mutant: what replaces is removed with what it was in.
ReplaceFirst(n, m) ==
  /\ within[n] # None /\ n \notin Subtree(m) \ {m}
  /\ cleanData(Subtree(n))
  /\ within' = IF m = n THEN [within EXCEPT ![n] = None] ELSE [within EXCEPT ![n] = None, ![m] = within[n]]
  /\ UNCHANGED made

\* What replaces is detached first, and so keeps its data even if it was in what is removed.  A
\* node that replaces itself is removed.  (A node is not replaced by one that it is in.)
replaceWith(n, m) ==
  /\ within[n] # None /\ n \notin Subtree(m) \ {m}
  /\ cleanData(Subtree(n) \ (IF m = n THEN {} ELSE Subtree(m)))
  /\ within' = IF m = n THEN [within EXCEPT ![n] = None] ELSE [within EXCEPT ![n] = None, ![m] = within[n]]
  /\ UNCHANGED made

\* cloneNode: the node and those below it get new nodes as their twins.
Twins(n) == Injection(Subtree(n), Node \ made)
CloneNodes(n, twin) ==
  /\ made' = made \union Range(twin)
  /\ within' = [c \in Node |->
       IF c = twin[n] THEN None
       ELSE IF c \in Range(twin) THEN twin[within[CHOOSE m \in Subtree(n) : c = twin[m]]]
       ELSE within[c]]

\* clone, with data and events of the node itself and of those below it.
clone(n, dataAndEvents, deepDataAndEvents) ==
  LET twin == CHOOSE f \in Twins(n) : TRUE IN
    /\ Twins(n) # {} /\ CloneNodes(n, twin)
    /\ copying' = {<<m, twin[m]>> : m \in {x \in Subtree(n) : dataAndEvents /\ (x = n \/ deepDataAndEvents)}}
    /\ pairs' = copying'
    /\ UNCHANGED <<entries, objects, elem, listening, todo, moving, fresh>>

\* append and the like: domManip takes the node out of the document.
append(n, targets) ==
  /\ \A i \in DOMAIN targets : targets[i] \in made \ Subtree(n)
  /\ within' = [within EXCEPT ![n] = None]
  /\ todo' = targets /\ moving' = n /\ pairs' = {}
  /\ UNCHANGED <<made, entries, objects, elem, listening, fresh, copying>>

\* Mutant: the copy has the handle of the node, which add makes its own.
CopyHandle(m, c) ==
  IF ~hasData(m) THEN UNCHANGED <<entries, objects, elem, listening>>
  ELSE LET o == ObjectOf(m) IN
       /\ Entry(c, Pub(c) \union Pub(m), IF Priv(m) = 0 THEN Priv(c) ELSE IdOf(c))
       /\ objects' = IF Priv(m) = 0 THEN objects ELSE [objects EXCEPT ![IdOf(c)] = o]
       /\ IF o.types = {} THEN UNCHANGED <<elem, listening>>
          ELSE /\ elem' = [elem EXCEPT ![o.handle] = c]
               /\ listening' = [listening EXCEPT ![c] = @ \union {<<t, o.handle>> : t \in o.types}]

\* Mutant: the copy has the object of the node.
CopyObject(m, c) ==
  IF ~hasData(m) THEN UNCHANGED <<entries, objects, elem, listening>>
  ELSE /\ Entry(c, Pub(c) \union Pub(m), IF Priv(m) = 0 THEN Priv(c) ELSE Priv(m))
       /\ UNCHANGED <<objects, elem, listening>>

\* cloneCopyEvent: the entry is extended by that of the node, then the object is made anew, and
\* the handlers are added again, with a handle of their own.
cloneCopyEvent(m, c) ==
  IF ~hasData(m) THEN UNCHANGED <<entries, objects, elem, listening>>
  ELSE LET o == ObjectOf(m)
           h == IF o.types = {} THEN o.handle ELSE IdOf(c)
       IN
       /\ Entry(c, Pub(c) \union Pub(m), IF Priv(m) = 0 THEN Priv(c) ELSE IdOf(c))
       /\ objects' = IF Priv(m) = 0 THEN objects ELSE [objects EXCEPT ![IdOf(c)] = [o EXCEPT !.handle = h]]
       /\ IF o.types = {} THEN UNCHANGED <<elem, listening>>
          ELSE /\ elem' = [elem EXCEPT ![h] = c]
               /\ listening' = [listening EXCEPT ![c] = @ \union {<<t, h>> : t \in o.types}]

\* The next pair of clone's loop.
CopyNext ==
  \E p \in copying :
    /\ cloneCopyEvent(p[1], p[2])
    /\ copying' = copying \ {p}
    /\ UNCHANGED <<nodes, todo, moving, fresh, pairs>>

\* domManip inserts a clone at each target but the last.
CloneNext ==
  /\ copying = {} /\ Len(todo) > 1 /\ fresh = None
  /\ LET twin == CHOOSE f \in Twins(moving) : TRUE IN
       /\ Twins(moving) # {} /\ CloneNodes(moving, twin)
       /\ fresh' = twin[moving]
       /\ copying' = {<<m, twin[m]>> : m \in Subtree(moving)}
       /\ pairs' = pairs \union copying'
  /\ UNCHANGED <<entries, objects, elem, listening, todo, moving>>

Insert ==
  /\ copying = {} /\ todo # <<>> /\ (Len(todo) > 1 => fresh # None)
  /\ within' = [within EXCEPT ![IF Len(todo) > 1 THEN fresh ELSE moving] = Head(todo)]
  /\ todo' = Tail(todo) /\ fresh' = None
  /\ moving' = IF Len(todo) > 1 THEN moving ELSE None
  /\ UNCHANGED <<made, entries, objects, elem, listening, copying, pairs>>

\* Calls about the data of a node, and about its place.
Store(n) ==
  \/ \E k \in Name : SetData(n, k) \/ RemoveData(n, {k})
  \/ GetData(n) \/ RemoveData(n, Name) \/ Keep(n) \/ GiveUp(n) \/ Unbind(n, Type)
  \/ \E t \in Type : Bind(n, t) \/ Unbind(n, {t})
Place(n) == remove(n) \/ detach(n) \/ empty(n) \/ \E m \in made : replaceWith(n, m)

User ==
  /\ Quiet /\ calls < MaxCalls
  /\ \E n \in made :
       \/ Store(n) /\ pairs' = {} /\ UNCHANGED <<nodes, todo, moving, fresh, copying>>
       \/ Place(n) /\ pairs' = {} /\ UNCHANGED <<todo, moving, fresh, copying>>
       \/ \E events, deep \in BOOLEAN : clone(n, events, deep)
       \/ \E s, t \in made : append(n, IF s = t THEN <<s>> ELSE <<s, t>>)
  /\ calls' = calls + 1

Next == User \/ ((CopyNext \/ CloneNext \/ Insert) /\ UNCHANGED calls)

Spec == Init /\ [][Next]_vars

-----------------------------------------------------------------------------
\* The types of the variables.
TypeOK ==
  /\ within \in [Node -> Node \union {None}] /\ made \subseteq Node
  /\ expando \in [Node -> Id \union {0}] /\ uuid \in 0..MaxId /\ cache \subseteq Id
  /\ pub \in [Id -> SUBSET Name] /\ priv \in [Id -> Id \union {0}]
  /\ objects \in [Id -> Object] /\ elem \in [Id -> Node \union {None}]
  /\ listening \in [Node -> SUBSET (Type \X Id)]
  /\ todo \in Seq(Node) /\ moving \in Node \union {None} /\ fresh \in Node \union {None}
  /\ copying \subseteq pairs /\ pairs \subseteq Node \X Node /\ calls \in 0..MaxCalls

\* Every entry belongs to one node that is there, and a node with a number has its entry, so
\* that nothing leaks and no number leads to another's entry or to none ("avoid false lookups in
\* the cache for entries that no longer exist", 1561-1562).
Owned ==
  /\ \A i \in cache : \E n \in made : expando[n] = i
  /\ \A n \in Node : expando[n] # 0 => expando[n] \in cache
  /\ \A m, n \in Node : expando[m] = expando[n] /\ expando[n] # 0 => m = n

\* The browser calls a node's own handle, and that one knows the node, for exactly the types that
\* the node has handlers for: also after it was cloned, moved or removed (5815-5831, 6156-6171).
Heard ==
  \A n \in Node :
    /\ listening[n] = {<<t, ObjectOf(n).handle>> : t \in ObjectOf(n).types}
    /\ ObjectOf(n).types # {} => elem[ObjectOf(n).handle] = n

\* No two nodes share what jQuery keeps about them ("Event data gets referenced instead of copied
\* if the expando gets copied too", 5887-5888).
Apart == \A m, n \in Node : Priv(m) # 0 /\ Priv(m) = Priv(n) => m = n

\* The clones of a call have what their nodes have (5811-5831, 5775-5784).
Alike ==
  \A p \in pairs \ copying :
    /\ Pub(p[2]) = Pub(p[1])
    /\ ObjectOf(p[2]).types = ObjectOf(p[1]).types /\ ObjectOf(p[2]).queue = ObjectOf(p[1]).queue

\* The cache is a store in which every node has its own (1408-1572, 5600-5800, 6142-6185).
S == INSTANCE NodeStore WITH kept <- [n \in Node |-> Pub(n)], handlers <- [n \in Node |-> ObjectOf(n).types]
IsStore == S!Spec
=============================================================================
