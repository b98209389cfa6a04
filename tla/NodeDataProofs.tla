--------------------------- MODULE NodeDataProofs ---------------------------
(***************************************************************************)
(* The data of nodes are their own, for any nodes, names, types and calls: *)
(* the cache implements NodeStore.                                         *)
(***************************************************************************)
EXTENDS NodeData, TLAPS

\* Numbers are given once, and objects and handles are those made for the number's node.
Refs ==
  /\ \A i \in cache : i <= uuid
  /\ \A i \in Id : /\ priv[i] \in {0, i} /\ objects[i].handle \in {0, i}
                   /\ objects[i].types = {} <=> objects[i].handle = 0

\* What clone and domManip are about is there, and the clones have no data yet.
Pending ==
  /\ \A n \in Node : expando[n] # 0 => n \in made
  /\ \A p \in copying : p[2] \in made /\ expando[p[2]] = 0
  /\ \A p, q \in copying : p[1] # q[2] /\ (p[2] = q[2] => p = q)
  /\ todo # <<>> => moving \in made

IInv == TypeOK /\ Owned /\ Refs /\ Heard /\ Pending

-----------------------------------------------------------------------------
(* Subtrees and twins.                                                     *)

\* A subtree is closed upwards, but for its top.
LEMMA SubtreeUp ==
  ASSUME NEW n \in made
  PROVE  /\ Subtree(n) \subseteq made /\ n \in Subtree(n)
         /\ \A m \in Subtree(n) \ {n} : within[m] \in Subtree(n)
<1>1. Subtree(n) \subseteq made /\ n \in Subtree(n)
  BY DEF Subtree
<1>2. ASSUME NEW m \in Subtree(n), m # n, within[m] \notin Subtree(n) PROVE FALSE
  <2> DEFINE T == Subtree(n) \ {m}
  <2>1. T \in SUBSET made /\ n \in T
    BY <1>1, <1>2
  <2>2. ASSUME NEW x \in made, within[x] \in T PROVE x \in T
    <3>1. x # m
      BY <1>2, <2>2
    <3>2. x \in Subtree(n)
      BY <2>2 DEF Subtree, Whole
    <3> QED BY <3>1, <3>2
  <2>3. Whole(T)
    BY <2>2 DEF Whole
  <2>4. m \in T
    BY <1>2, <2>1, <2>3 DEF Subtree
  <2> QED BY <2>4
<1> QED BY <1>1, <1>2

\* The twins of a subtree are new and differ.
LEMMA TwinsType ==
  ASSUME NEW n \in made, NEW twin \in Twins(n)
  PROVE  /\ twin \in [Subtree(n) -> Node \ made]
         /\ \A a, b \in Subtree(n) : twin[a] = twin[b] => a = b
BY DEF Twins, Injection, IsInjective

\* cloneNode changes the document only.
LEMMA CloneNodesType ==
  ASSUME TypeOK, NEW n \in made, NEW twin \in Twins(n), CloneNodes(n, twin)
  PROVE  /\ made \subseteq made' /\ made' \subseteq Node
         /\ \A m \in Subtree(n) : twin[m] \in made' /\ twin[m] \in Node \ made
         /\ within' \in [Node -> Node \union {None}]
<1>1. /\ twin \in [Subtree(n) -> Node \ made] /\ Range(twin) = {twin[m] : m \in Subtree(n)}
      /\ made \subseteq Node /\ within \in [Node -> Node \union {None}]
  BY TwinsType DEF Range, TypeOK
<1>2. made' = made \union {twin[m] : m \in Subtree(n)}
  BY <1>1 DEF CloneNodes
<1>3. ASSUME NEW c \in Node, c # twin[n], c \in Range(twin)
      PROVE  twin[within[CHOOSE m \in Subtree(n) : c = twin[m]]] \in Node
  <2>1. PICK m \in Subtree(n) : c = twin[m]
    BY <1>1, <1>3
  <2> DEFINE k == CHOOSE x \in Subtree(n) : c = twin[x]
  <2>2. k \in Subtree(n) /\ c = twin[k]
    BY <2>1
  <2>3. within[k] \in Subtree(n)
    BY <1>3, <2>2, SubtreeUp
  <2> QED BY <1>1, <2>3
<1>4. within' \in [Node -> Node \union {None}]
  BY <1>1, <1>3 DEF CloneNodes
<1> QED BY <1>1, <1>2, <1>4

-----------------------------------------------------------------------------
(* The cache.                                                              *)

\* What is found by way of a node's number is its own.
LEMMA OwnRefs ==
  ASSUME TypeOK, Owned, Refs, NEW n \in Node
  PROVE  /\ expando[n] \in Id \union {0} /\ (HasEntry(n) <=> expando[n] # 0)
         /\ Priv(n) \in {0, expando[n]} /\ Pub(n) \subseteq Name
         /\ ObjectOf(n) \in Object /\ ObjectOf(n).handle \in {0, Priv(n)}
         /\ ObjectOf(n).types = {} <=> ObjectOf(n).handle = 0
<1>1. expando[n] \in Id \union {0} /\ 0 \notin Id /\ cache \subseteq Id
  BY DEF TypeOK, Id
<1>2. HasEntry(n) <=> expando[n] # 0
  BY <1>1 DEF Owned, HasEntry
<1>3. Priv(n) \in {0, expando[n]} /\ Pub(n) \subseteq Name
  BY <1>1, <1>2 DEF Priv, Pub, Refs, TypeOK
<1>4. Blank \in Object /\ Blank.types = {} /\ Blank.handle = 0
  BY DEF Blank, Object
<1>5. CASE Priv(n) = 0
  BY <1>1, <1>2, <1>3, <1>4, <1>5 DEF ObjectOf
<1>6. CASE Priv(n) # 0
  BY <1>1, <1>2, <1>3, <1>6 DEF ObjectOf, Refs, TypeOK
<1> QED BY <1>1, <1>2, <1>3, <1>5, <1>6

\* data and _data change the entry of one node, and make it if there is none.
LEMMA EntryEffect ==
  ASSUME TypeOK, Owned, Refs, NEW n \in Node,
         NEW names \in SUBSET Name, NEW ref \in {0, IdOf(n)}, Entry(n, names, ref)
  PROVE  /\ expando' \in [Node -> Id \union {0}] /\ uuid' \in 0..MaxId /\ cache' \subseteq Id
         /\ pub' \in [Id -> SUBSET Name] /\ priv' \in [Id -> Id \union {0}]
         /\ IdOf(n) \in Id /\ \A m \in Node \ {n} : expando[m] # IdOf(n)
         /\ \A m \in Node : expando'[m] = IF m = n THEN IdOf(n) ELSE expando[m]
         /\ \A m \in Node : Pub(m)' = IF m = n THEN names ELSE Pub(m)
         /\ \A m \in Node : Priv(m)' = IF m = n THEN ref ELSE Priv(m)
         /\ (\A i \in cache' : i <= uuid') /\ (\A i \in Id : priv'[i] \in {0, i})
         /\ n \in made' /\ made \subseteq made' => Owned'
<1> DEFINE j == IdOf(n)
<1>1. /\ j \in Id /\ 0 \notin Id /\ uuid \in 0..MaxId /\ cache \subseteq Id
      /\ expando \in [Node -> Id \union {0}] /\ expando' = [expando EXCEPT ![n] = j]
      /\ pub' = [pub EXCEPT ![j] = names] /\ priv' = [priv EXCEPT ![j] = ref]
      /\ cache' = cache \union {j}
      /\ pub \in [Id -> SUBSET Name] /\ priv \in [Id -> Id \union {0}]
  BY DEF Entry, TypeOK, Id
<1>2. \A m \in Node \ {n} : expando[m] # j
  <2>1. CASE expando[n] = 0
    <3>1. j = uuid + 1
      BY <2>1 DEF IdOf
    <3>2. \A m \in Node : expando[m] # 0 => expando[m] <= uuid
      BY DEF Owned, Refs
    <3> QED BY <1>1, <3>1, <3>2 DEF Id
  <2>2. CASE expando[n] # 0
    BY <2>2 DEF Owned, IdOf
  <2> QED BY <2>1, <2>2
<1>3. uuid' \in 0..MaxId /\ \A i \in cache' : i <= uuid'
  <2>1. CASE expando[n] = 0
    <3>1. j = uuid + 1 /\ uuid' = uuid + 1
      BY <2>1 DEF IdOf, Entry
    <3>2. \A i \in cache : i <= uuid /\ i \in Nat
      BY <1>1 DEF Refs, Id
    <3>3. uuid + 1 \in 0..MaxId
      BY <1>1, <3>1 DEF Id
    <3> QED BY <1>1, <3>1, <3>2, <3>3
  <2>2. CASE expando[n] # 0
    <3>1. uuid' = uuid /\ j \in cache
      BY <2>2 DEF IdOf, Entry, Owned
    <3> QED BY <1>1, <3>1 DEF Refs
  <2> QED BY <2>1, <2>2
<1>4. \A m \in Node : expando'[m] = IF m = n THEN j ELSE expando[m]
  BY <1>1
<1>5. \A i \in Id : priv'[i] \in {0, i}
  BY <1>1 DEF Refs
<1> HIDE DEF j
<1>6. ASSUME NEW m \in Node
      PROVE  /\ Pub(m)' = IF m = n THEN names ELSE Pub(m)
             /\ Priv(m)' = IF m = n THEN ref ELSE Priv(m)
  <2>1. CASE m = n
    BY <1>1, <1>4, <2>1 DEF Pub, Priv, HasEntry
  <2>2. CASE m # n
    <3>1. expando'[m] = expando[m] /\ expando[m] # j
      BY <1>2, <1>4, <2>2
    <3>2. expando[m] \in cache' <=> expando[m] \in cache
      BY <1>1, <3>1
    <3>3. expando[m] \in cache => pub'[expando[m]] = pub[expando[m]] /\ priv'[expando[m]] = priv[expando[m]]
      BY <1>1, <3>1
    <3> QED BY <2>2, <3>1, <3>2, <3>3 DEF Pub, Priv, HasEntry
  <2> QED BY <2>1, <2>2
<1>7. ASSUME n \in made', made \subseteq made' PROVE Owned'
  <2>1. \A i \in cache' : \E m \in made' : expando'[m] = i
    <3>1. ASSUME NEW i \in cache, i # j PROVE \E m \in made' : expando'[m] = i
      <4>1. PICK m \in made : expando[m] = i
        BY DEF Owned
      <4>2. m \in Node
        BY DEF TypeOK
      <4>3. m # n
        BY <1>1, <3>1, <4>1 DEF IdOf, j
      <4> QED BY <1>4, <1>7, <4>1, <4>2, <4>3
    <3> QED BY <1>1, <1>4, <1>7, <3>1
  <2>2. \A m \in Node : expando'[m] # 0 => expando'[m] \in cache'
    BY <1>1, <1>4 DEF Owned
  <2>3. \A k, m \in Node : expando'[k] = expando'[m] /\ expando'[m] # 0 => k = m
    <3>1. \A k, m \in Node : expando[k] = expando[m] /\ expando[m] # 0 => k = m
      BY DEF Owned
    <3>2. ASSUME NEW k \in Node, NEW m \in Node, expando'[k] = expando'[m], expando'[m] # 0 PROVE k = m
      <4>1. CASE k = n
        BY <1>2, <1>4, <3>2, <4>1
      <4>2. CASE m = n
        BY <1>2, <1>4, <3>2, <4>2
      <4>3. CASE k # n /\ m # n
        BY <1>4, <3>1, <3>2, <4>3
      <4> QED BY <4>1, <4>2, <4>3
    <3> QED BY <3>2
  <2> QED BY <2>1, <2>2, <2>3 DEF Owned
<1>8. expando' \in [Node -> Id \union {0}] /\ cache' \subseteq Id /\ pub' \in [Id -> SUBSET Name] /\ priv' \in [Id -> Id \union {0}]
  <2>1. ref \in Id \union {0}
    BY <1>1 DEF j
  <2> QED BY <1>1, <2>1
<1> QED BY <1>1, <1>2, <1>3, <1>4, <1>5, <1>6, <1>7, <1>8 DEF j

\* removeData changes what is left of the entry of one node, or takes it away.
LEMMA LeaveEffect ==
  ASSUME TypeOK, Owned, Refs, NEW n \in Node, HasEntry(n),
         NEW names \in SUBSET Name, NEW ref \in {0, expando[n]}, Leave(n, names, ref)
  PROVE  /\ expando' \in [Node -> Id \union {0}] /\ uuid' \in 0..MaxId /\ cache' \subseteq Id
         /\ pub' \in [Id -> SUBSET Name] /\ priv' \in [Id -> Id \union {0}]
         /\ \A m \in Node : expando'[m] \in {0, expando[m]} /\ (m # n => expando'[m] = expando[m])
         /\ \A m \in Node : Pub(m)' = IF m = n THEN names ELSE Pub(m)
         /\ \A m \in Node : Priv(m)' = IF m = n THEN ref ELSE Priv(m)
         /\ (\A i \in cache' : i <= uuid') /\ (\A i \in Id : priv'[i] \in {0, i})
         /\ made' = made => Owned'
<1> DEFINE j == expando[n]
<1>1. /\ j \in Id /\ j \in cache /\ 0 \notin Id /\ cache \subseteq Id /\ uuid' = uuid
      /\ expando \in [Node -> Id \union {0}]
      /\ pub' = [pub EXCEPT ![j] = names] /\ priv' = [priv EXCEPT ![j] = ref]
      /\ pub \in [Id -> SUBSET Name] /\ priv \in [Id -> Id \union {0}]
  BY DEF Leave, TypeOK, Id, HasEntry
<1>2. \A m \in Node \ {n} : expando[m] # j
  BY <1>1 DEF Owned
<1>3. \/ cache' = cache \ {j} /\ expando' = [expando EXCEPT ![n] = 0] /\ names = {} /\ ref = 0
      \/ cache' = cache /\ expando' = expando
  BY DEF Leave
<1>4. \A m \in Node : expando'[m] \in {0, expando[m]} /\ (m # n => expando'[m] = expando[m])
  BY <1>1, <1>3
<1>5. \A i \in Id : priv'[i] \in {0, i}
  BY <1>1 DEF Refs
<1>6. ASSUME NEW m \in Node
      PROVE  /\ Pub(m)' = IF m = n THEN names ELSE Pub(m)
             /\ Priv(m)' = IF m = n THEN ref ELSE Priv(m)
  <2>1. CASE m = n
    BY <1>1, <1>3, <2>1 DEF Pub, Priv, HasEntry
  <2>2. CASE m # n
    <3>1. expando'[m] = expando[m] /\ expando[m] # j
      BY <1>2, <1>4, <2>2
    <3>2. expando[m] \in cache' <=> expando[m] \in cache
      BY <1>3, <3>1
    <3>3. expando[m] \in cache => pub'[expando[m]] = pub[expando[m]] /\ priv'[expando[m]] = priv[expando[m]]
      BY <1>1, <3>1
    <3> QED BY <2>2, <3>1, <3>2, <3>3 DEF Pub, Priv, HasEntry
  <2> QED BY <2>1, <2>2
<1>7. ASSUME made' = made PROVE Owned'
  <2>1. CASE cache' = cache /\ expando' = expando
    BY <1>7, <2>1 DEF Owned
  <2>2. CASE cache' = cache \ {j} /\ expando' = [expando EXCEPT ![n] = 0]
    <3>1. ASSUME NEW i \in cache' PROVE \E m \in made' : expando'[m] = i
      <4>1. PICK m \in made : expando[m] = i
        BY <2>2, <3>1 DEF Owned
      <4>2. m # n /\ m \in Node
        BY <2>2, <3>1, <4>1 DEF TypeOK
      <4> QED BY <1>4, <1>7, <4>1, <4>2
    <3>2. \A m \in Node : expando'[m] # 0 => m # n /\ expando'[m] = expando[m]
      BY <1>1, <2>2
    <3>3. \A m \in Node : expando'[m] # 0 => expando'[m] \in cache'
      BY <1>2, <2>2, <3>2 DEF Owned
    <3>4. \A k, m \in Node : expando'[k] = expando'[m] /\ expando'[m] # 0 => k = m
      BY <3>2 DEF Owned
    <3> QED BY <3>1, <3>3, <3>4 DEF Owned
  <2> QED BY <1>3, <2>1, <2>2
<1>8. expando' \in [Node -> Id \union {0}] /\ cache' \subseteq Id /\ pub' \in [Id -> SUBSET Name] /\ priv' \in [Id -> Id \union {0}]
  <2>1. ref \in Id \union {0} /\ names \in SUBSET Name
    BY <1>1
  <2>2. expando' \in [Node -> Id \union {0}] /\ cache' \subseteq Id
    BY <1>1, <1>3
  <2>3. pub' \in [Id -> SUBSET Name]
    BY <1>1, <2>1
  <2>4. priv' \in [Id -> Id \union {0}]
    BY <1>1, <2>1
  <2> QED BY <2>2, <2>3, <2>4
<1>9. uuid' \in 0..MaxId /\ \A i \in cache' : i <= uuid'
  <2>1. cache' \subseteq cache
    BY <1>3
  <2> QED BY <1>1, <2>1 DEF TypeOK, Refs
<1> QED BY <1>4, <1>5, <1>6, <1>7, <1>8, <1>9

-----------------------------------------------------------------------------
(* What a call about one node leaves behind.                               *)

TypeData ==
  /\ expando \in [Node -> Id \union {0}] /\ uuid \in 0..MaxId /\ cache \subseteq Id
  /\ pub \in [Id -> SUBSET Name] /\ priv \in [Id -> Id \union {0}]
  /\ objects \in [Id -> Object] /\ elem \in [Id -> Node \union {None}]
  /\ listening \in [Node -> SUBSET (Type \X Id)]

\* The object r, if any, becomes o, and with it what the browser knows of n; others with another
\* number than j are not concerned.
Rewired(n, j, r, o) ==
  /\ o \in Object /\ o.handle \in {0, j} /\ (o.types = {} <=> o.handle = 0)
  /\ objects' = IF r = 0 THEN objects ELSE [objects EXCEPT ![r] = o]
  /\ elem' \in [Id -> Node \union {None}] /\ listening' \in [Node -> SUBSET (Type \X Id)]
  /\ \A h \in Id \ {j} : elem'[h] = elem[h]
  /\ \A m \in Node \ {n} : listening'[m] = listening[m]
  /\ listening'[n] = {<<t, o.handle>> : t \in o.types}
  /\ o.types # {} => elem'[o.handle] = n

\* After it, n has the names and the object o, and the others have what they had.
Changed(n, names, o) ==
  /\ TypeData' /\ Owned' /\ Refs' /\ Heard'
  /\ \A m \in Node \ {n} : expando'[m] \in {0, expando[m]}
  /\ \A m \in Node : Pub(m)' = IF m = n THEN names ELSE Pub(m)
  /\ \A m \in Node : ObjectOf(m)' = IF m = n THEN o ELSE ObjectOf(m)

\* The object of one node changes alone.
LEMMA ObjectEffect ==
  ASSUME IInv, NEW n \in Node, NEW j \in Id, \A m \in Node \ {n} : expando[m] # j,
         NEW ref \in {0, j}, NEW r \in {0, j}, NEW o, Rewired(n, j, r, o),
         \A m \in Node : Priv(m)' = IF m = n THEN ref ELSE Priv(m),
         ref = 0 => o = Blank, ref # 0 => r = ref
  PROVE  /\ objects' \in [Id -> Object] /\ Heard'
         /\ \A i \in Id : objects'[i].handle \in {0, i} /\ (objects'[i].types = {} <=> objects'[i].handle = 0)
         /\ \A m \in Node : ObjectOf(m)' = IF m = n THEN o ELSE ObjectOf(m)
<1>1. /\ TypeOK /\ Owned /\ Refs /\ Heard /\ objects \in [Id -> Object] /\ 0 \notin Id
  BY DEF IInv, TypeOK, Id
<1>2. objects' \in [Id -> Object] /\ \A i \in Id : objects'[i] = IF i = r THEN o ELSE objects[i]
  BY <1>1 DEF Rewired
<1>3. \A i \in Id : objects'[i].handle \in {0, i} /\ (objects'[i].types = {} <=> objects'[i].handle = 0)
  BY <1>1, <1>2 DEF Rewired, Refs
<1>4. ASSUME NEW m \in Node PROVE ObjectOf(m)' = IF m = n THEN o ELSE ObjectOf(m)
  <2>1. CASE m = n
    BY <1>2, <2>1 DEF ObjectOf, Blank
  <2>2. CASE m # n
    <3>1. Priv(m) \in {0, expando[m]} /\ expando[m] \in Id \union {0}
      BY <1>1, OwnRefs
    <3>2. Priv(m)' = Priv(m) /\ Priv(m) \in Id \union {0} /\ (Priv(m) # 0 => Priv(m) # r)
      BY <2>2, <3>1
    <3>3. Priv(m) # 0 => objects'[Priv(m)] = objects[Priv(m)]
      BY <1>2, <3>2
    <3> QED BY <2>2, <3>2, <3>3 DEF ObjectOf, Blank
  <2> QED BY <2>1, <2>2
<1>5. ASSUME NEW m \in Node
      PROVE  /\ listening'[m] = {<<t, ObjectOf(m)'.handle>> : t \in ObjectOf(m)'.types}
             /\ ObjectOf(m)'.types # {} => elem'[ObjectOf(m)'.handle] = m
  <2>1. CASE m = n
    BY <1>4, <2>1 DEF Rewired
  <2>2. CASE m # n
    <3>1. ObjectOf(m)' = ObjectOf(m) /\ listening'[m] = listening[m]
      BY <1>4, <2>2 DEF Rewired
    <3>2. /\ Priv(m) \in {0, expando[m]} /\ ObjectOf(m).handle \in {0, Priv(m)} /\ expando[m] \in Id \union {0}
          /\ ObjectOf(m).types = {} <=> ObjectOf(m).handle = 0
      BY <1>1, OwnRefs
    <3>3. ObjectOf(m).types # {} => ObjectOf(m).handle \in Id \ {j}
      BY <2>2, <3>2
    <3>4. ObjectOf(m).types # {} => elem'[ObjectOf(m).handle] = elem[ObjectOf(m).handle]
      BY <3>3 DEF Rewired
    <3> QED BY <1>1, <3>1, <3>4 DEF Heard
  <2> QED BY <2>1, <2>2
<1>6. Heard'
  BY <1>5 DEF Heard
<1> QED BY <1>2, <1>3, <1>4, <1>6

\* A call that makes the entry if there is none.
LEMMA EntryKeeps ==
  ASSUME IInv, NEW n \in Node, NEW names \in SUBSET Name, NEW ref \in {0, IdOf(n)}, NEW o,
         Entry(n, names, ref), n \in made', made \subseteq made',
         Rewired(n, IdOf(n), ref, o), ref = 0 => o = Blank
  PROVE  Changed(n, names, o)
<1>1. TypeOK /\ Owned /\ Refs
  BY DEF IInv
<1>2. /\ expando' \in [Node -> Id \union {0}] /\ uuid' \in 0..MaxId /\ cache' \subseteq Id
      /\ pub' \in [Id -> SUBSET Name] /\ priv' \in [Id -> Id \union {0}]
      /\ IdOf(n) \in Id /\ \A m \in Node \ {n} : expando[m] # IdOf(n)
      /\ \A m \in Node : expando'[m] = IF m = n THEN IdOf(n) ELSE expando[m]
      /\ \A m \in Node : Pub(m)' = IF m = n THEN names ELSE Pub(m)
      /\ \A m \in Node : Priv(m)' = IF m = n THEN ref ELSE Priv(m)
      /\ (\A i \in cache' : i <= uuid') /\ (\A i \in Id : priv'[i] \in {0, i}) /\ Owned'
  BY <1>1, EntryEffect
<1>3. /\ objects' \in [Id -> Object] /\ Heard'
      /\ \A i \in Id : objects'[i].handle \in {0, i} /\ (objects'[i].types = {} <=> objects'[i].handle = 0)
      /\ \A m \in Node : ObjectOf(m)' = IF m = n THEN o ELSE ObjectOf(m)
  BY <1>2, ObjectEffect
<1>4. TypeData'
  BY <1>2, <1>3 DEF TypeData, Rewired
<1>5. Refs'
  BY <1>2, <1>3 DEF Refs
<1> QED BY <1>2, <1>3, <1>4, <1>5 DEF Changed

\* A call that leaves less of an entry, or takes it away.
LEMMA LeaveKeeps ==
  ASSUME IInv, NEW n \in Node, HasEntry(n), NEW names \in SUBSET Name, NEW ref \in {0, Priv(n)}, NEW o,
         Leave(n, names, ref), made' = made,
         Rewired(n, expando[n], Priv(n), o), ref = 0 => o = Blank
  PROVE  Changed(n, names, o)
<1>1. TypeOK /\ Owned /\ Refs
  BY DEF IInv
<1>2. /\ Priv(n) \in {0, expando[n]} /\ ref \in {0, expando[n]} /\ expando[n] \in Id
      /\ \A m \in Node \ {n} : expando[m] # expando[n]
  BY <1>1, OwnRefs DEF Owned
<1>3. /\ expando' \in [Node -> Id \union {0}] /\ uuid' \in 0..MaxId /\ cache' \subseteq Id
      /\ pub' \in [Id -> SUBSET Name] /\ priv' \in [Id -> Id \union {0}]
      /\ \A m \in Node : expando'[m] \in {0, expando[m]}
      /\ \A m \in Node : Pub(m)' = IF m = n THEN names ELSE Pub(m)
      /\ \A m \in Node : Priv(m)' = IF m = n THEN ref ELSE Priv(m)
      /\ (\A i \in cache' : i <= uuid') /\ (\A i \in Id : priv'[i] \in {0, i}) /\ Owned'
  BY <1>1, <1>2, LeaveEffect
<1>4. /\ objects' \in [Id -> Object] /\ Heard'
      /\ \A i \in Id : objects'[i].handle \in {0, i} /\ (objects'[i].types = {} <=> objects'[i].handle = 0)
      /\ \A m \in Node : ObjectOf(m)' = IF m = n THEN o ELSE ObjectOf(m)
  BY <1>2, <1>3, ObjectEffect
<1>5. TypeData'
  BY <1>3, <1>4 DEF TypeData, Rewired
<1>6. Refs'
  BY <1>3, <1>4 DEF Refs
<1> QED BY <1>3, <1>4, <1>5, <1>6 DEF Changed

\* A call that changes the object only.
LEMMA ObjectKeeps ==
  ASSUME IInv, NEW n \in Node, Priv(n) # 0, NEW o, UNCHANGED <<entries, made>>,
         Rewired(n, expando[n], Priv(n), o)
  PROVE  Changed(n, Pub(n), o)
<1>1. TypeOK /\ Owned /\ Refs
  BY DEF IInv
<1>2. /\ Priv(n) = expando[n] /\ expando[n] \in Id
      /\ \A m \in Node \ {n} : expando[m] # expando[n]
  BY <1>1, OwnRefs DEF Owned
<1>3. \A m \in Node : Pub(m)' = Pub(m) /\ Priv(m)' = Priv(m)
  BY DEF Pub, Priv, HasEntry, entries
<1>4. /\ objects' \in [Id -> Object] /\ Heard'
      /\ \A i \in Id : objects'[i].handle \in {0, i} /\ (objects'[i].types = {} <=> objects'[i].handle = 0)
      /\ \A m \in Node : ObjectOf(m)' = IF m = n THEN o ELSE ObjectOf(m)
  BY <1>2, <1>3, ObjectEffect
<1>5. TypeData'
  BY <1>1, <1>4 DEF TypeData, Rewired, TypeOK, entries
<1>6. Owned' /\ Refs'
  BY <1>1, <1>4 DEF Refs, Owned, entries
<1> QED BY <1>3, <1>4, <1>5, <1>6 DEF Changed, entries

-----------------------------------------------------------------------------
(* The calls about the data of a node.                                     *)

\* What a node has before a call, as far as those calls need it.
LEMMA Before ==
  ASSUME IInv, NEW n \in made
  PROVE  /\ n \in Node /\ Pub(n) \in SUBSET Name /\ ObjectOf(n) \in Object /\ 0 \notin Id
         /\ expando[n] \in Id \union {0} /\ (HasEntry(n) <=> expando[n] # 0) /\ (HasEntry(n) => IdOf(n) = expando[n])
         /\ Priv(n) \in {0, expando[n]} /\ Priv(n) \in {0, IdOf(n)} /\ ObjectOf(n).handle \in {0, Priv(n)}
         /\ ObjectOf(n).types = {} <=> ObjectOf(n).handle = 0
         /\ Priv(n) = 0 => ObjectOf(n) = Blank
         /\ Priv(n) # 0 => HasEntry(n) /\ ObjectOf(n) = objects[Priv(n)]
         /\ listening[n] = {<<t, ObjectOf(n).handle>> : t \in ObjectOf(n).types}
         /\ ObjectOf(n).types # {} => elem[ObjectOf(n).handle] = n
         /\ objects \in [Id -> Object] /\ elem \in [Id -> Node \union {None}]
         /\ listening \in [Node -> SUBSET (Type \X Id)]
<1>1. TypeOK /\ Owned /\ Refs /\ Heard /\ n \in Node /\ 0 \notin Id
  BY DEF IInv, TypeOK, Id
<1>2. /\ expando[n] \in Id \union {0} /\ (HasEntry(n) <=> expando[n] # 0)
      /\ Priv(n) \in {0, expando[n]} /\ Pub(n) \subseteq Name
      /\ ObjectOf(n) \in Object /\ ObjectOf(n).handle \in {0, Priv(n)}
      /\ ObjectOf(n).types = {} <=> ObjectOf(n).handle = 0
  BY <1>1, OwnRefs
<1>3. HasEntry(n) => IdOf(n) = expando[n]
  BY <1>2 DEF IdOf
<1>4. Priv(n) # 0 => HasEntry(n)
  BY <1>2
<1> QED BY <1>1, <1>2, <1>3, <1>4 DEF ObjectOf, Heard, TypeOK

\* The object and what the browser knows stay as they are.
LEMMA Same ==
  ASSUME IInv, NEW n \in made, UNCHANGED <<objects, elem, listening>>
  PROVE  Rewired(n, IdOf(n), Priv(n), ObjectOf(n)) /\ (HasEntry(n) => Rewired(n, expando[n], Priv(n), ObjectOf(n)))
<1>1. objects' = IF Priv(n) = 0 THEN objects ELSE [objects EXCEPT ![Priv(n)] = ObjectOf(n)]
  BY Before
<1> QED BY <1>1, Before DEF Rewired

LEMMA SetDataKeeps ==
  ASSUME IInv, NEW n \in made, UNCHANGED made, NEW names \in SUBSET Name, data(n, names), UNCHANGED <<elem, listening>>
  PROVE  Changed(n, Pub(n) \union names, ObjectOf(n))
<1>1. Entry(n, Pub(n) \union names, Priv(n)) /\ UNCHANGED objects
  BY DEF data
<1>2. Rewired(n, IdOf(n), Priv(n), ObjectOf(n))
  BY <1>1, Same
<1> QED BY <1>1, <1>2, Before, EntryKeeps

LEMMA RemoveDataKeeps ==
  ASSUME IInv, NEW n \in made, UNCHANGED made, NEW names \in SUBSET Name, RemoveData(n, names)
  PROVE  Changed(n, Pub(n) \ names, ObjectOf(n))
<1>1. HasEntry(n) /\ Leave(n, Pub(n) \ names, Priv(n)) /\ UNCHANGED <<objects, elem, listening>>
  BY DEF RemoveData
<1>2. Rewired(n, expando[n], Priv(n), ObjectOf(n))
  BY <1>1, Same
<1> QED BY <1>1, <1>2, Before, LeaveKeeps

LEMMA KeepKeeps ==
  ASSUME IInv, NEW n \in made, UNCHANGED made, Keep(n)
  PROVE  Changed(n, Pub(n), [ObjectOf(n) EXCEPT !.queue = TRUE])
<1> DEFINE o == [ObjectOf(n) EXCEPT !.queue = TRUE]
<1>1. o \in Object /\ o.handle = ObjectOf(n).handle /\ o.types = ObjectOf(n).types
  BY Before DEF Object
<1>2. Entry(n, Pub(n), RefOf(n)) /\ objects' = [objects EXCEPT ![RefOf(n)] = o] /\ UNCHANGED <<elem, listening>>
  BY DEF Keep, PrivateData
<1>3. RefOf(n) = IdOf(n) /\ IdOf(n) \in Id
  BY <1>2, Before DEF RefOf, Entry
<1>4. Rewired(n, IdOf(n), RefOf(n), o)
  BY <1>1, <1>2, <1>3, Before DEF Rewired
<1> QED BY <1>2, <1>3, <1>4, Before, EntryKeeps

\* removeData with pvt.
LEMMA LeavePrivateKeeps ==
  ASSUME IInv, NEW n \in made, UNCHANGED made, NEW o, LeavePrivate(n, o), Priv(n) # 0,
         Rewired(n, expando[n], Priv(n), o)
  PROVE  Changed(n, Pub(n), o)
<1>1. CASE o = Blank
  BY <1>1, Before, LeaveKeeps DEF LeavePrivate
<1>2. CASE o # Blank
  BY <1>2, Before, ObjectKeeps DEF LeavePrivate
<1> QED BY <1>1, <1>2

LEMMA GiveUpKeeps ==
  ASSUME IInv, NEW n \in made, UNCHANGED made, GiveUp(n)
  PROVE  Changed(n, Pub(n), [ObjectOf(n) EXCEPT !.queue = FALSE])
<1> DEFINE o == [ObjectOf(n) EXCEPT !.queue = FALSE]
<1>1. o \in Object /\ o.handle = ObjectOf(n).handle /\ o.types = ObjectOf(n).types
  BY Before DEF Object
<1>2. ObjectOf(n).queue /\ LeavePrivate(n, o) /\ UNCHANGED <<elem, listening>>
  BY DEF GiveUp
<1>3. Priv(n) # 0
  BY <1>2, Before DEF Blank
<1>4. Rewired(n, expando[n], Priv(n), o)
  BY <1>1, <1>2, <1>3, Before DEF Rewired, LeavePrivate
<1> QED BY <1>2, <1>3, <1>4, LeavePrivateKeeps

LEMMA BindKeeps ==
  ASSUME IInv, NEW n \in made, UNCHANGED made, NEW t \in Type, Bind(n, t)
  PROVE  \E o : Changed(n, Pub(n), o) /\ o.types = ObjectOf(n).types \union {t}
<1> DEFINE h == IF ObjectOf(n).handle = 0 THEN IdOf(n) ELSE ObjectOf(n).handle
<1> DEFINE o == [ObjectOf(n) EXCEPT !.types = @ \union {t}, !.handle = h]
<1>1. /\ Entry(n, Pub(n), RefOf(n)) /\ objects' = [objects EXCEPT ![RefOf(n)] = o]
      /\ elem' = [elem EXCEPT ![h] = n]
      /\ listening' = [listening EXCEPT ![n] = IF t \in ObjectOf(n).types THEN @ ELSE @ \union {<<t, h>>}]
  BY DEF Bind, PrivateData
<1>2. RefOf(n) = IdOf(n) /\ IdOf(n) \in Id /\ h = IdOf(n)
  BY <1>1, Before DEF RefOf, Entry
<1>3. o \in Object /\ o.handle = h /\ o.types = ObjectOf(n).types \union {t}
  <2>1. ObjectOf(n) \in Object
    BY Before
  <2> QED BY <1>2, <2>1 DEF Object
<1> HIDE DEF h, o
<1>4. ObjectOf(n).types # {} => ObjectOf(n).handle = h
  BY <1>2, Before DEF h
<1>5. listening'[n] = {<<x, o.handle>> : x \in o.types}
  <2>1. CASE ObjectOf(n).types = {}
    BY <1>1, <1>3, <2>1, Before
  <2>2. CASE ObjectOf(n).types # {}
    BY <1>1, <1>3, <1>4, <2>2, Before
  <2> QED BY <2>1, <2>2
<1>6. listening' \in [Node -> SUBSET (Type \X Id)]
  BY <1>1, <1>2, Before
<1>7. Rewired(n, IdOf(n), RefOf(n), o)
  BY <1>1, <1>2, <1>3, <1>5, <1>6, Before DEF Rewired
<1>8. Changed(n, Pub(n), o)
  BY <1>1, <1>2, <1>7, Before, EntryKeeps
<1> QED BY <1>3, <1>8

LEMMA UnbindKeeps ==
  ASSUME IInv, NEW n \in made, UNCHANGED made, NEW ts \in SUBSET Type, Unbind(n, ts)
  PROVE  \E o : Changed(n, Pub(n), o) /\ o.types = ObjectOf(n).types \ ts
<1> DEFINE o == ObjectOf(n)
<1>1. CASE o.types = {}
  <2>1. Entry(n, Pub(n), RefOf(n)) /\ objects' = [objects EXCEPT ![RefOf(n)] = o] /\ UNCHANGED <<elem, listening>>
    BY <1>1 DEF Unbind, PrivateData
  <2>2. RefOf(n) = IdOf(n) /\ IdOf(n) \in Id
    BY <2>1, Before DEF RefOf, Entry
  <2>3. Rewired(n, IdOf(n), RefOf(n), o)
    BY <2>1, <2>2, Before DEF Rewired
  <2>4. Changed(n, Pub(n), o)
    BY <2>1, <2>2, <2>3, Before, EntryKeeps
  <2> QED BY <1>1, <2>4
<1>2. CASE o.types # {}
  <2>1. Priv(n) \in Id /\ o.handle = Priv(n) /\ expando[n] = Priv(n) /\ HasEntry(n)
    BY <1>2, Before
  <2>2. listening' = [listening EXCEPT ![n] = @ \ {<<t, o.handle>> : t \in o.types \cap ts}]
    BY <1>2 DEF Unbind
  <2>3. /\ listening' \in [Node -> SUBSET (Type \X Id)] /\ \A m \in Node \ {n} : listening'[m] = listening[m]
        /\ listening'[n] = {<<t, o.handle>> : t \in o.types \ ts}
    BY <2>2, Before
  <2>4. CASE o.types \subseteq ts
    <3> DEFINE q == [o EXCEPT !.types = {}, !.handle = 0]
    <3>1. elem' = [elem EXCEPT ![o.handle] = None] /\ LeavePrivate(n, q)
      BY <1>2, <2>4 DEF Unbind
    <3>2. q \in Object /\ q.types = {} /\ q.handle = 0 /\ o.types \ ts = {}
      BY <2>4, Before DEF Object
    <3> HIDE DEF q
    <3>3. elem' \in [Id -> Node \union {None}] /\ \A h \in Id \ {expando[n]} : elem'[h] = elem[h]
      BY <2>1, <3>1, Before
    <3>4. Rewired(n, expando[n], Priv(n), q)
      <4>1. objects' = IF Priv(n) = 0 THEN objects ELSE [objects EXCEPT ![Priv(n)] = q]
        BY <2>1, <3>1, Before DEF LeavePrivate
      <4>2. listening'[n] = {<<t, q.handle>> : t \in q.types}
        BY <2>3, <3>2
      <4> QED BY <2>3, <3>2, <3>3, <4>1, <4>2 DEF Rewired
    <3>5. Changed(n, Pub(n), q)
      BY <2>1, <3>1, <3>4, LeavePrivateKeeps, Before
    <3> QED BY <3>2, <3>5
  <2>5. CASE ~(o.types \subseteq ts)
    <3> DEFINE q == [o EXCEPT !.types = @ \ ts]
    <3>1. objects' = [objects EXCEPT ![Priv(n)] = q] /\ UNCHANGED <<elem, entries>>
      BY <1>2, <2>5 DEF Unbind
    <3>2. q \in Object /\ q.types = o.types \ ts /\ q.handle = o.handle /\ q.types # {}
      BY <2>5, Before DEF Object
    <3> HIDE DEF q
    <3>3. Rewired(n, expando[n], Priv(n), q)
      <4>1. q.handle \in {0, expando[n]} /\ (q.types = {} <=> q.handle = 0)
        BY <2>1, <3>2, Before
      <4>2. listening'[n] = {<<t, q.handle>> : t \in q.types}
        BY <2>3, <3>2
      <4>3. q.types # {} => elem'[q.handle] = n
        BY <1>2, <3>1, <3>2, Before
      <4>4. elem' \in [Id -> Node \union {None}]
        BY <3>1, Before
      <4> QED BY <2>1, <2>3, <3>1, <3>2, <4>1, <4>2, <4>3, <4>4 DEF Rewired
    <3>4. Changed(n, Pub(n), q)
      BY <2>1, <3>1, <3>3, ObjectKeeps, Before
    <3> QED BY <3>2, <3>4
  <2> QED BY <2>4, <2>5
<1> QED BY <1>1, <1>2

\* A clone, which has nothing, is given what the node has.
LEMMA CopyKeeps ==
  ASSUME IInv, NEW p \in copying, UNCHANGED made, cloneCopyEvent(p[1], p[2]), hasData(p[1])
  PROVE  \E o : Changed(p[2], Pub(p[1]), o) /\ o.types = ObjectOf(p[1]).types /\ o.queue = ObjectOf(p[1]).queue
<1> DEFINE m == p[1]
           c == p[2]
           o == ObjectOf(m)
           h == IF o.types = {} THEN o.handle ELSE IdOf(c)
           q == [o EXCEPT !.handle = h]
           ref == IF Priv(m) = 0 THEN 0 ELSE IdOf(c)
<1>1. TypeOK /\ Owned /\ Refs /\ Heard /\ m \in Node /\ c \in made /\ c \in Node /\ expando[c] = 0
  BY DEF IInv, Pending, TypeOK
<1>2. Pub(c) = {} /\ Priv(c) = 0 /\ listening[c] = {}
  <2>1. ~HasEntry(c) /\ Priv(c) = 0
    BY <1>1, Before DEF Priv
  <2> QED BY <1>1, <2>1, Before DEF Pub, Blank
<1>3. /\ Entry(c, Pub(m), ref)
      /\ objects' = IF Priv(m) = 0 THEN objects ELSE [objects EXCEPT ![IdOf(c)] = q]
      /\ IF o.types = {} THEN UNCHANGED <<elem, listening>>
         ELSE /\ elem' = [elem EXCEPT ![h] = c]
              /\ listening' = [listening EXCEPT ![c] = @ \union {<<t, h>> : t \in o.types}]
  BY <1>2 DEF cloneCopyEvent
<1>4. IdOf(c) \in Id /\ 0 \notin Id
  BY <1>3 DEF Entry, Id
<1>5. /\ Pub(m) \subseteq Name /\ o \in Object /\ o.handle \in {0, Priv(m)} /\ (o.types = {} <=> o.handle = 0)
      /\ Priv(m) = 0 => o = Blank
  BY <1>1, OwnRefs DEF ObjectOf
<1>6. q \in Object /\ q.types = o.types /\ q.handle = h /\ q.queue = o.queue
  BY <1>4, <1>5 DEF Object
<1>7. h \in {0, IdOf(c)} /\ (q.types = {} <=> h = 0) /\ (o.types # {} => h = IdOf(c))
  BY <1>4, <1>5, <1>6
<1>8. ref = 0 => q = Blank
  BY <1>4, <1>5 DEF Blank
<1> HIDE DEF q, h, o
<1>9. listening' \in [Node -> SUBSET (Type \X Id)] /\ elem' \in [Id -> Node \union {None}]
  <2>1. elem \in [Id -> Node \union {None}] /\ listening \in [Node -> SUBSET (Type \X Id)] /\ o.types \subseteq Type
    BY <1>1, <1>5 DEF TypeOK, Object
  <2>2. CASE o.types = {}
    BY <1>3, <2>1, <2>2
  <2>3. CASE o.types # {}
    <3>1. h = IdOf(c) /\ h \in Id
      BY <1>4, <1>7, <2>3
    <3>2. elem' \in [Id -> Node \union {None}]
      BY <1>1, <1>3, <2>1, <2>3, <3>1
    <3>3. listening[c] \union {<<t, h>> : t \in o.types} \in SUBSET (Type \X Id)
      BY <1>1, <2>1, <3>1
    <3>4. listening' \in [Node -> SUBSET (Type \X Id)]
      BY <1>1, <1>3, <2>1, <2>3, <3>3
    <3> QED BY <3>2, <3>4
  <2> QED BY <2>2, <2>3
<1>10. listening'[c] = {<<t, q.handle>> : t \in q.types} /\ (q.types # {} => elem'[q.handle] = c)
  BY <1>1, <1>2, <1>3, <1>4, <1>6, <1>7 DEF TypeOK
<1>11. /\ \A i \in Id \ {IdOf(c)} : elem'[i] = elem[i]
       /\ \A n \in Node \ {c} : listening'[n] = listening[n]
  BY <1>1, <1>3, <1>7 DEF TypeOK
<1>12. objects' = IF ref = 0 THEN objects ELSE [objects EXCEPT ![ref] = q]
  BY <1>3, <1>4
<1>13. Rewired(c, IdOf(c), ref, q)
  BY <1>6, <1>7, <1>9, <1>10, <1>11, <1>12 DEF Rewired
<1>14. Changed(c, Pub(m), q)
  BY <1>1, <1>3, <1>5, <1>8, <1>13, EntryKeeps
<1> QED BY <1>6, <1>14 DEF o

-----------------------------------------------------------------------------
(* Nodes that are taken out of the document.                               *)

\* cleanData forgets the nodes of S and nothing else.
LEMMA CleanKeeps ==
  ASSUME IInv, NEW T \in SUBSET made, UNCHANGED made, cleanData(T)
  PROVE  /\ TypeData' /\ Owned' /\ Refs' /\ Heard'
         /\ \A n \in Node : expando'[n] \in {0, expando[n]}
         /\ \A n \in Node : Pub(n)' = IF n \in T THEN {} ELSE Pub(n)
         /\ \A n \in Node : ObjectOf(n)' = IF n \in T THEN Blank ELSE ObjectOf(n)
<1> DEFINE N == {expando[n] : n \in T}
           P == {Priv(n) : n \in T}
<1>1. TypeOK /\ Owned /\ Refs /\ Heard /\ T \subseteq Node /\ 0 \notin Id /\ cache \subseteq Id
  BY DEF IInv, TypeOK, Id
<1>2. /\ expando' = [n \in Node |-> IF n \in T THEN 0 ELSE expando[n]] /\ cache' = cache \ N /\ uuid' = uuid
      /\ pub' = [i \in Id |-> IF i \in N THEN {} ELSE pub[i]]
      /\ priv' = [i \in Id |-> IF i \in N THEN 0 ELSE priv[i]]
      /\ objects' = [i \in Id |-> IF i \in P THEN Blank ELSE objects[i]]
      /\ listening' = [n \in Node |-> IF n \in T THEN listening[n] \ {<<t, ObjectOf(n).handle>> : t \in ObjectOf(n).types}
                                      ELSE listening[n]]
      /\ elem' = [h \in Id |-> IF \E n \in T : ObjectOf(n).types # {} /\ ObjectOf(n).handle = h THEN None ELSE elem[h]]
  BY DEF cleanData
<1>3. Blank \in Object /\ Blank.types = {} /\ Blank.handle = 0
  BY DEF Blank, Object
<1>4. TypeData'
  <2>1. expando' \in [Node -> Id \union {0}] /\ uuid' \in 0..MaxId /\ cache' \subseteq Id
    BY <1>1, <1>2 DEF TypeOK
  <2>2. pub' \in [Id -> SUBSET Name] /\ priv' \in [Id -> Id \union {0}] /\ objects' \in [Id -> Object]
    BY <1>1, <1>2, <1>3 DEF TypeOK
  <2>3. elem' \in [Id -> Node \union {None}] /\ listening' \in [Node -> SUBSET (Type \X Id)]
    BY <1>1, <1>2 DEF TypeOK
  <2> QED BY <2>1, <2>2, <2>3 DEF TypeData
<1>5. ASSUME NEW n \in Node \ T, expando[n] # 0 PROVE expando[n] \notin N /\ expando[n] \in Id /\ expando[n] \in cache
  BY <1>1, <1>5 DEF Owned
<1>6. Owned'
  <2>1. ASSUME NEW i \in cache' PROVE \E n \in made' : expando'[n] = i
    <3>1. PICK n \in made : expando[n] = i
      BY <1>1, <1>2, <2>1 DEF Owned
    <3>2. n \in Node \ T
      BY <1>1, <1>2, <2>1, <3>1 DEF TypeOK
    <3> QED BY <1>2, <3>1, <3>2
  <2>2. ASSUME NEW n \in Node, expando'[n] # 0 PROVE n \in Node \ T /\ expando'[n] = expando[n]
    BY <1>2, <2>2
  <2>3. \A n \in Node : expando'[n] # 0 => expando'[n] \in cache'
    BY <1>2, <1>5, <2>2
  <2>4. \A m, n \in Node : expando'[m] = expando'[n] /\ expando'[n] # 0 => m = n
    BY <1>1, <2>2 DEF Owned
  <2> QED BY <2>1, <2>3, <2>4 DEF Owned
<1>7. Refs'
  <2>1. \A i \in cache' : i <= uuid'
    BY <1>1, <1>2 DEF Refs
  <2>2. \A i \in Id : priv'[i] \in {0, i}
    BY <1>1, <1>2 DEF Refs
  <2>3. \A i \in Id : objects'[i].handle \in {0, i} /\ (objects'[i].types = {} <=> objects'[i].handle = 0)
    BY <1>1, <1>2, <1>3 DEF Refs
  <2> QED BY <2>1, <2>2, <2>3 DEF Refs
<1>8. ASSUME NEW n \in T PROVE n \in Node /\ Pub(n)' = {} /\ ObjectOf(n)' = Blank
  <2>1. n \in Node /\ expando'[n] = 0 /\ 0 \notin cache'
    BY <1>1, <1>2
  <2> QED BY <2>1 DEF Pub, Priv, ObjectOf, HasEntry, Blank
<1>9. ASSUME NEW n \in Node \ T
      PROVE  /\ Pub(n)' = Pub(n) /\ ObjectOf(n)' = ObjectOf(n)
             /\ ObjectOf(n).types # {} => elem'[ObjectOf(n).handle] = elem[ObjectOf(n).handle]
  <2>1. expando'[n] = expando[n]
    BY <1>2
  <2>2. CASE expando[n] = 0
    <3>1. expando[n] \notin cache /\ expando'[n] \notin cache'
      BY <1>1, <1>2, <2>1, <2>2
    <3> QED BY <3>1 DEF Pub, Priv, ObjectOf, HasEntry, Blank
  <2>3. CASE expando[n] # 0
    <3>1. expando[n] \notin N /\ expando[n] \in Id /\ expando[n] \in cache /\ expando[n] \in cache'
      BY <1>2, <1>5, <2>3
    <3>2. Pub(n)' = Pub(n) /\ Priv(n)' = Priv(n)
      BY <1>2, <2>1, <3>1 DEF Pub, Priv, HasEntry
    <3>3. Priv(n) \in {0, expando[n]} /\ ObjectOf(n).handle \in {0, Priv(n)}
          /\ (ObjectOf(n).types = {} <=> ObjectOf(n).handle = 0)
      BY <1>1, OwnRefs
    <3>4. \A x \in T : Priv(x) \in {0, expando[x]} /\ ObjectOf(x).handle \in {0, Priv(x)}
                       /\ (ObjectOf(x).types = {} <=> ObjectOf(x).handle = 0)
      BY <1>1, OwnRefs
    <3>5. \A x \in T : expando[x] # expando[n]
      BY <3>1
    <3>6. Priv(n) # 0 => Priv(n) \notin P
      BY <2>3, <3>3, <3>4, <3>5
    <3>7. ObjectOf(n)' = ObjectOf(n)
      BY <1>2, <3>1, <3>2, <3>3, <3>6 DEF ObjectOf, Blank
    <3>8. ObjectOf(n).types # {} => ObjectOf(n).handle = expando[n]
      BY <3>3
    <3>9. \A x \in T : ObjectOf(x).types # {} => ObjectOf(x).handle # expando[n]
      BY <2>3, <3>4, <3>5
    <3> QED BY <1>2, <3>1, <3>2, <3>7, <3>8, <3>9
  <2> QED BY <2>2, <2>3
<1>10. Heard'
  <2>1. ASSUME NEW n \in Node
        PROVE  /\ listening'[n] = {<<t, ObjectOf(n)'.handle>> : t \in ObjectOf(n)'.types}
               /\ ObjectOf(n)'.types # {} => elem'[ObjectOf(n)'.handle] = n
    <3>1. CASE n \in T
      <4>1. listening'[n] = {}
        BY <1>1, <1>2, <3>1 DEF Heard
      <4> QED BY <1>3, <1>8, <3>1, <4>1
    <3>2. CASE n \notin T
      <4>1. listening'[n] = listening[n]
        BY <1>2, <3>2
      <4> QED BY <1>1, <1>9, <3>2, <4>1 DEF Heard
    <3> QED BY <3>1, <3>2
  <2> QED BY <2>1 DEF Heard
<1>11. \A n \in Node : expando'[n] \in {0, expando[n]}
  BY <1>2
<1> QED BY <1>4, <1>6, <1>7, <1>8, <1>9, <1>10, <1>11

-----------------------------------------------------------------------------
(* Every step keeps the invariant and is a step of the store.              *)

Kept == [n \in Node |-> Pub(n)]
Handlers == [n \in Node |-> ObjectOf(n).types]

\* Nothing of the store changes.
Idle == Kept' = Kept /\ Handlers' = Handlers

\* A step that changes what one node has, seen by the store.
LEMMA ChangedIs ==
  ASSUME NEW n \in Node, NEW names, NEW o, Changed(n, names, o)
  PROVE  Kept' = [Kept EXCEPT ![n] = names] /\ Handlers' = [Handlers EXCEPT ![n] = o.types]
BY DEF Changed, Kept, Handlers

\* The calls about data are those of the store.
LEMMA StoreStep ==
  ASSUME DataAssumption, IInv, NEW n \in made, UNCHANGED made, Store(n)
  PROVE  \E names, o : /\ Changed(n, names, o)
                       /\ \/ o.types = ObjectOf(n).types
                             /\ \/ \E k \in Name : names = Pub(n) \union {k}
                                \/ \E ks \in SUBSET Name : names = Pub(n) \ ks
                          \/ names = Pub(n)
                             /\ \/ \E t \in Type : o.types = ObjectOf(n).types \union {t}
                                \/ \E ts \in SUBSET Type : o.types = ObjectOf(n).types \ ts
<1>1. ASSUME NEW k \in Name, SetData(n, k) PROVE Changed(n, Pub(n) \union {camelCase[k]}, ObjectOf(n)) /\ camelCase[k] \in Name
  <2>1. camelCase[k] \in Name
    BY DEF DataAssumption
  <2> QED BY <1>1, <2>1, SetDataKeeps DEF SetData
<1>2. CASE GetData(n)
  <2>1. Changed(n, Pub(n) \union {}, ObjectOf(n))
    BY <1>2, SetDataKeeps DEF GetData
  <2>2. Pub(n) \union {} = Pub(n) \ {}
    OBVIOUS
  <2> QED BY <2>1, <2>2
<1>3. ASSUME NEW ks \in SUBSET Name, RemoveData(n, ks) PROVE Changed(n, Pub(n) \ ks, ObjectOf(n))
  BY <1>3, RemoveDataKeeps
<1>4. CASE Keep(n)
  <2>1. [ObjectOf(n) EXCEPT !.queue = TRUE].types = ObjectOf(n).types /\ Pub(n) = Pub(n) \ {}
    BY Before DEF Object
  <2> QED BY <1>4, <2>1, KeepKeeps
<1>5. CASE GiveUp(n)
  <2>1. [ObjectOf(n) EXCEPT !.queue = FALSE].types = ObjectOf(n).types /\ Pub(n) = Pub(n) \ {}
    BY Before DEF Object
  <2> QED BY <1>5, <2>1, GiveUpKeeps
<1>6. ASSUME NEW t \in Type, Bind(n, t)
      PROVE  \E o : Changed(n, Pub(n), o) /\ o.types = ObjectOf(n).types \union {t}
  BY <1>6, BindKeeps
<1>7. ASSUME NEW ts \in SUBSET Type, Unbind(n, ts)
      PROVE  \E o : Changed(n, Pub(n), o) /\ o.types = ObjectOf(n).types \ ts
  BY <1>7, UnbindKeeps
<1>8. \/ \E k \in Name : SetData(n, k)
      \/ \E ks \in SUBSET Name : RemoveData(n, ks)
      \/ GetData(n) \/ Keep(n) \/ GiveUp(n)
      \/ \E t \in Type : Bind(n, t)
      \/ \E ts \in SUBSET Type : Unbind(n, ts)
  BY DEF Store
<1>9. CASE \E k \in Name : SetData(n, k)
  BY <1>1, <1>9
<1>10. CASE \E ks \in SUBSET Name : RemoveData(n, ks)
  BY <1>3, <1>10
<1>11. CASE \E t \in Type : Bind(n, t)
  BY <1>6, <1>11
<1>12. CASE \E ts \in SUBSET Type : Unbind(n, ts)
  BY <1>7, <1>12
<1> QED BY <1>2, <1>4, <1>5, <1>8, <1>9, <1>10, <1>11, <1>12

LEMMA StoreIs ==
  ASSUME DataAssumption, IInv, NEW n \in made, UNCHANGED <<within, made>>, Store(n)
  PROVE  S!Next
<1>1. n \in Node /\ Kept[n] = Pub(n) /\ Handlers[n] = ObjectOf(n).types
  BY DEF IInv, TypeOK, Kept, Handlers
<1>2. PICK names, o :
        /\ Changed(n, names, o)
        /\ \/ o.types = ObjectOf(n).types
              /\ \/ \E k \in Name : names = Pub(n) \union {k}
                 \/ \E ks \in SUBSET Name : names = Pub(n) \ ks
           \/ names = Pub(n)
              /\ \/ \E t \in Type : o.types = ObjectOf(n).types \union {t}
                 \/ \E ts \in SUBSET Type : o.types = ObjectOf(n).types \ ts
  BY StoreStep
<1>3. Kept' = [Kept EXCEPT ![n] = names] /\ Handlers' = [Handlers EXCEPT ![n] = o.types]
  BY <1>1, <1>2, ChangedIs
<1>4. (o.types = ObjectOf(n).types => Handlers' = Handlers) /\ (names = Pub(n) => Kept' = Kept)
  BY <1>1, <1>3 DEF Kept, Handlers
<1>5. ASSUME NEW k \in Name, names = Pub(n) \union {k}, o.types = ObjectOf(n).types PROVE S!Next
  <2>1. S!Put(n, k)
    BY <1>1, <1>3, <1>4, <1>5 DEF S!Put, Kept, Handlers
  <2> QED BY <1>1, <2>1 DEF S!Next
<1>6. ASSUME NEW ks \in SUBSET Name, names = Pub(n) \ ks, o.types = ObjectOf(n).types PROVE S!Next
  <2>1. S!Take(n, ks)
    BY <1>1, <1>3, <1>4, <1>6 DEF S!Take, Kept, Handlers
  <2> QED BY <1>1, <2>1 DEF S!Next
<1>7. ASSUME NEW t \in Type, names = Pub(n), o.types = ObjectOf(n).types \union {t} PROVE S!Next
  <2>1. S!Bind(n, t)
    BY <1>1, <1>3, <1>4, <1>7 DEF S!Bind, Kept, Handlers
  <2> QED BY <1>1, <2>1 DEF S!Next
<1>8. ASSUME NEW ts \in SUBSET Type, names = Pub(n), o.types = ObjectOf(n).types \ ts PROVE S!Next
  <2>1. S!Unbind(n, ts)
    BY <1>1, <1>3, <1>4, <1>8 DEF S!Unbind, Kept, Handlers
  <2> QED BY <1>1, <2>1 DEF S!Next
<1> QED BY <1>2, <1>5, <1>6, <1>7, <1>8

\* A subtree is closed downwards.
LEMMA SubtreeDown ==
  ASSUME NEW n, NEW m \in made, within[m] \in Subtree(n)
  PROVE  m \in Subtree(n)
BY DEF Subtree, Whole

\* What moves and removes nodes cleans a set of them that is taken out of the document whole.
LEMMA PlaceCleans ==
  ASSUME IInv, NEW n \in made, Place(n)
  PROVE  /\ made' = made /\ within' \in [Node -> Node \union {None}]
         /\ \E T \in SUBSET made :
              /\ \A m \in T : within'[m] \in T \union {None}
              /\ cleanData(T) \/ (T = {} /\ UNCHANGED <<entries, objects, elem, listening>>)
<1>1. n \in Node /\ made \subseteq Node /\ within \in [Node -> Node \union {None}]
  BY DEF IInv, TypeOK
<1>2. /\ Subtree(n) \subseteq made /\ n \in Subtree(n)
      /\ \A m \in Subtree(n) \ {n} : within[m] \in Subtree(n)
  BY SubtreeUp
<1>3. CASE remove(n)
  <2>1. cleanData(Subtree(n)) /\ made' = made /\ within' = [within EXCEPT ![n] = None]
    BY <1>3 DEF remove
  <2>2. \A m \in Subtree(n) : within'[m] \in Subtree(n) \union {None}
    BY <1>1, <1>2, <2>1
  <2> QED BY <1>1, <1>2, <2>1, <2>2
<1>4. CASE detach(n)
  BY <1>1, <1>4 DEF detach
<1>5. CASE empty(n)
  <2>1. /\ cleanData(Subtree(n) \ {n}) /\ made' = made
        /\ within' = [m \in Node |-> IF within[m] = n THEN None ELSE within[m]]
    BY <1>5 DEF empty
  <2>2. \A m \in Subtree(n) \ {n} : within'[m] \in (Subtree(n) \ {n}) \union {None}
    BY <1>1, <1>2, <2>1
  <2> QED BY <1>1, <1>2, <2>1, <2>2
<1>6. ASSUME NEW m \in made, replaceWith(n, m)
      PROVE  /\ made' = made /\ within' \in [Node -> Node \union {None}]
             /\ \E T \in SUBSET made : cleanData(T) /\ \A x \in T : within'[x] \in T \union {None}
  <2> DEFINE T == Subtree(n) \ (IF m = n THEN {} ELSE Subtree(m))
  <2>1. /\ n \notin Subtree(m) \ {m} /\ cleanData(T) /\ made' = made
        /\ within' = IF m = n THEN [within EXCEPT ![n] = None] ELSE [within EXCEPT ![n] = None, ![m] = within[n]]
    BY <1>6 DEF replaceWith
  <2>2. m \in Node /\ m \in Subtree(m)
    BY <1>1, SubtreeUp
  <2>3. ASSUME NEW x \in T PROVE within'[x] \in T \union {None}
    <3>1. x \in Node /\ x \in Subtree(n) /\ (m # n => x # m)
      BY <1>1, <1>2, <2>2
    <3>2. CASE x = n
      BY <1>1, <2>1, <2>2, <3>2
    <3>3. CASE x # n
      <4>1. within'[x] = within[x] /\ within[x] \in Subtree(n)
        BY <1>1, <1>2, <2>1, <2>2, <3>1, <3>3
      <4>2. m # n => within[x] \notin Subtree(m)
        BY <1>2, <3>1, SubtreeDown
      <4> QED BY <4>1, <4>2
    <3> QED BY <3>2, <3>3
  <2>4. T \in SUBSET made /\ within' \in [Node -> Node \union {None}]
    BY <1>1, <1>2, <2>1, <2>2
  <2> HIDE DEF T
  <2> QED BY <2>1, <2>3, <2>4
<1> QED BY <1>3, <1>4, <1>5, <1>6 DEF Place

\* What the steps that move nodes leave behind, as far as data go.
LEMMA PlaceKeeps ==
  ASSUME IInv, NEW n \in made, Place(n)
  PROVE  /\ made' = made /\ within' \in [Node -> Node \union {None}]
         /\ TypeData' /\ Owned' /\ Refs' /\ Heard'
         /\ \A m \in Node : expando'[m] \in {0, expando[m]}
         /\ S!Next
<1>1. PICK T \in SUBSET made :
        /\ \A m \in T : within'[m] \in T \union {None}
        /\ cleanData(T) \/ (T = {} /\ UNCHANGED <<entries, objects, elem, listening>>)
  BY PlaceCleans
<1>2. made' = made /\ within' \in [Node -> Node \union {None}] /\ made \subseteq Node
  BY PlaceCleans DEF IInv, TypeOK
<1>3. CASE cleanData(T)
  <2>1. /\ TypeData' /\ Owned' /\ Refs' /\ Heard'
        /\ \A m \in Node : expando'[m] \in {0, expando[m]}
        /\ \A m \in Node : Pub(m)' = IF m \in T THEN {} ELSE Pub(m)
        /\ \A m \in Node : ObjectOf(m)' = IF m \in T THEN Blank ELSE ObjectOf(m)
    BY <1>2, <1>3, CleanKeeps
  <2>2. /\ Kept' = [m \in Node |-> IF m \in T THEN {} ELSE Kept[m]]
        /\ Handlers' = [m \in Node |-> IF m \in T THEN {} ELSE Handlers[m]]
    BY <2>1 DEF Kept, Handlers, Blank
  <2>3. S!Forget(T)
    BY <1>1, <2>2 DEF S!Forget, Kept, Handlers
  <2> QED BY <1>2, <2>1, <2>3 DEF S!Next
<1>4. CASE T = {} /\ UNCHANGED <<entries, objects, elem, listening>>
  <2>1. TypeData' /\ Owned' /\ Refs' /\ Heard' /\ \A m \in Node : expando'[m] \in {0, expando[m]}
    <3>1. TypeData' /\ Owned' /\ Refs' /\ expando' = expando
      BY <1>2, <1>4 DEF IInv, TypeOK, TypeData, Owned, Refs, entries
    <3>2. Heard'
      BY <1>4 DEF IInv, Heard, ObjectOf, Priv, HasEntry, entries
    <3> QED BY <3>1, <3>2
  <2>2. Kept' = Kept /\ Handlers' = Handlers
    BY <1>4 DEF Kept, Handlers, Pub, ObjectOf, Priv, HasEntry, entries
  <2>3. S!Forget({})
    BY <2>2 DEF S!Forget, Kept, Handlers
  <2> QED BY <1>2, <2>1, <2>3 DEF S!Next
<1> QED BY <1>1, <1>3, <1>4

\* Steps that leave the data as they are.
LEMMA IdleKeeps ==
  ASSUME IInv, made \subseteq made', UNCHANGED <<entries, objects, elem, listening>>
  PROVE  TypeData' /\ Owned' /\ Refs' /\ Heard' /\ S!Next
<1>1. TypeData' /\ Refs' /\ expando' = expando
  BY DEF IInv, TypeOK, TypeData, Refs, entries
<1>2. Owned'
  BY DEF IInv, Owned, entries
<1>3. Heard'
  BY DEF IInv, Heard, ObjectOf, Priv, HasEntry, entries
<1>4. Kept' = Kept /\ Handlers' = Handlers
  BY DEF Kept, Handlers, Pub, ObjectOf, Priv, HasEntry, entries
<1>5. S!Forget({})
  BY <1>4 DEF S!Forget, Kept, Handlers
<1> QED BY <1>1, <1>2, <1>3, <1>5 DEF S!Next

TypeWork ==
  /\ within \in [Node -> Node \union {None}] /\ made \subseteq Node
  /\ todo \in Seq(Node) /\ moving \in Node \union {None} /\ fresh \in Node \union {None}
  /\ copying \subseteq pairs /\ pairs \subseteq Node \X Node /\ calls \in 0..MaxCalls

\* The clones of a subtree are new, and different nodes have different ones.
LEMMA TwinPairs ==
  ASSUME IInv, NEW n \in made, NEW twin \in Twins(n), CloneNodes(n, twin),
         NEW M \in SUBSET Subtree(n), copying' = {<<m, twin[m]>> : m \in M}, expando' = expando
  PROVE  /\ copying' \subseteq Node \X Node
         /\ \A p \in copying' : p[2] \in made' /\ expando'[p[2]] = 0
         /\ \A p, q \in copying' : p[1] # q[2] /\ (p[2] = q[2] => p = q)
<1>1. TypeOK /\ made \subseteq Node /\ Subtree(n) \subseteq made /\ n \in Node
  BY SubtreeUp DEF IInv, TypeOK
<1>2. /\ twin \in [Subtree(n) -> Node \ made]
      /\ \A a, b \in Subtree(n) : twin[a] = twin[b] => a = b
  BY TwinsType
<1>3. \A m \in Subtree(n) : twin[m] \in made'
  BY <1>1, CloneNodesType
<1>4. \A m \in M : m \in made /\ twin[m] \in Node \ made /\ twin[m] \in made' /\ expando'[twin[m]] = 0
  BY <1>1, <1>2, <1>3 DEF IInv, Pending
<1>5. copying' \subseteq Node \X Node
  BY <1>1, <1>4
<1>6. \A p \in copying' : p[2] \in made' /\ expando'[p[2]] = 0
  BY <1>4
<1>7. ASSUME NEW p \in copying', NEW q \in copying' PROVE p[1] # q[2] /\ (p[2] = q[2] => p = q)
  <2>1. PICK a \in M : p = <<a, twin[a]>>
    OBVIOUS
  <2>2. PICK b \in M : q = <<b, twin[b]>>
    OBVIOUS
  <2> QED BY <1>2, <1>4, <2>1, <2>2
<1> QED BY <1>5, <1>6, <1>7

LEMMA CloneStep ==
  ASSUME IInv, NEW n \in made, NEW e \in BOOLEAN, NEW d \in BOOLEAN, Quiet, clone(n, e, d)
  PROVE  TypeData' /\ Owned' /\ Refs' /\ Heard' /\ Pending' /\ S!Next /\ (calls' \in 0..MaxCalls => TypeWork')
<1> DEFINE twin == CHOOSE f \in Twins(n) : TRUE
           M == {x \in Subtree(n) : e /\ (x = n \/ d)}
<1>1. /\ twin \in Twins(n) /\ CloneNodes(n, twin) /\ copying' = {<<m, twin[m]>> : m \in M} /\ pairs' = copying'
      /\ UNCHANGED <<entries, objects, elem, listening, todo, moving, fresh>>
  BY DEF clone
<1>2. M \in SUBSET Subtree(n)
  OBVIOUS
<1> HIDE DEF twin, M
<1>3. made \subseteq made' /\ made' \subseteq Node /\ within' \in [Node -> Node \union {None}]
  BY <1>1, CloneNodesType DEF IInv
<1>4. expando' = expando
  BY <1>1 DEF entries
<1>5. /\ copying' \subseteq Node \X Node
      /\ \A p \in copying' : p[2] \in made' /\ expando'[p[2]] = 0
      /\ \A p, q \in copying' : p[1] # q[2] /\ (p[2] = q[2] => p = q)
  BY <1>1, <1>2, <1>4, TwinPairs
<1>6. TypeData' /\ Owned' /\ Refs' /\ Heard' /\ S!Next
  BY <1>1, <1>3, IdleKeeps
<1>7. Pending'
  BY <1>1, <1>3, <1>4, <1>5 DEF IInv, Pending, Quiet
<1>8. calls' \in 0..MaxCalls => TypeWork'
  BY <1>1, <1>3, <1>5 DEF IInv, TypeOK, TypeWork
<1> QED BY <1>6, <1>7, <1>8

LEMMA CloneNextStep ==
  ASSUME IInv, CloneNext, UNCHANGED calls
  PROVE  TypeData' /\ Owned' /\ Refs' /\ Heard' /\ Pending' /\ S!Next /\ TypeWork'
<1> DEFINE twin == CHOOSE f \in Twins(moving) : TRUE
<1>1. /\ twin \in Twins(moving) /\ CloneNodes(moving, twin) /\ copying' = {<<m, twin[m]>> : m \in Subtree(moving)}
      /\ pairs' = pairs \union copying' /\ fresh' = twin[moving]
      /\ UNCHANGED <<entries, objects, elem, listening, todo, moving>>
  BY DEF CloneNext
<1>2. moving \in made
  <2>1. todo # <<>>
    BY DEF CloneNext
  <2> QED BY <2>1 DEF IInv, Pending
<1> HIDE DEF twin
<1>3. /\ made \subseteq made' /\ made' \subseteq Node /\ within' \in [Node -> Node \union {None}]
      /\ fresh' \in Node
  BY <1>1, <1>2, CloneNodesType, SubtreeUp DEF IInv
<1>4. expando' = expando
  BY <1>1 DEF entries
<1>5. /\ copying' \subseteq Node \X Node
      /\ \A p \in copying' : p[2] \in made' /\ expando'[p[2]] = 0
      /\ \A p, q \in copying' : p[1] # q[2] /\ (p[2] = q[2] => p = q)
  BY <1>1, <1>2, <1>4, TwinPairs
<1>6. TypeData' /\ Owned' /\ Refs' /\ Heard' /\ S!Next
  BY <1>1, <1>3, IdleKeeps
<1>7. Pending'
  BY <1>1, <1>2, <1>3, <1>4, <1>5 DEF IInv, Pending
<1>8. TypeWork'
  BY <1>1, <1>3, <1>5 DEF IInv, TypeOK, TypeWork
<1> QED BY <1>6, <1>7, <1>8

LEMMA AppendStep ==
  ASSUME IInv, NEW n \in made, NEW targets \in Seq(made), Quiet, append(n, targets)
  PROVE  TypeData' /\ Owned' /\ Refs' /\ Heard' /\ Pending' /\ S!Next /\ (calls' \in 0..MaxCalls => TypeWork')
<1>1. /\ within' = [within EXCEPT ![n] = None] /\ todo' = targets /\ moving' = n /\ pairs' = {}
      /\ UNCHANGED <<made, entries, objects, elem, listening, fresh, copying>>
  BY DEF append
<1>2. TypeData' /\ Owned' /\ Refs' /\ Heard' /\ S!Next
  BY <1>1, IdleKeeps
<1>3. Pending' /\ copying' = {}
  BY <1>1 DEF IInv, Pending, Quiet, entries
<1>4. made \subseteq Node
  BY DEF IInv, TypeOK
<1>5. targets \in Seq(Node)
  BY <1>4
<1>6. calls' \in 0..MaxCalls => TypeWork'
  BY <1>1, <1>3, <1>4, <1>5 DEF IInv, TypeOK, TypeWork
<1> QED BY <1>2, <1>3, <1>6

LEMMA InsertStep ==
  ASSUME IInv, Insert, UNCHANGED calls
  PROVE  TypeData' /\ Owned' /\ Refs' /\ Heard' /\ Pending' /\ S!Next /\ TypeWork'
<1>1. /\ todo # <<>> /\ within' = [within EXCEPT ![IF Len(todo) > 1 THEN fresh ELSE moving] = Head(todo)]
      /\ todo' = Tail(todo) /\ fresh' = None /\ moving' = IF Len(todo) > 1 THEN moving ELSE None
      /\ UNCHANGED <<made, entries, objects, elem, listening, copying, pairs>>
  BY DEF Insert
<1>2. TypeData' /\ Owned' /\ Refs' /\ Heard' /\ S!Next
  BY <1>1, IdleKeeps
<1>3. todo \in Seq(Node) /\ Head(todo) \in Node /\ Tail(todo) \in Seq(Node) /\ Len(Tail(todo)) = Len(todo) - 1
  BY <1>1 DEF IInv, TypeOK
<1>4. Tail(todo) # <<>> => Len(todo) > 1
  BY <1>3
<1>5. Pending'
  BY <1>1, <1>4 DEF IInv, Pending, entries
<1>6. TypeWork'
  BY <1>1, <1>3 DEF IInv, TypeOK, TypeWork
<1> QED BY <1>2, <1>5, <1>6

LEMMA CopyNextStep ==
  ASSUME IInv, CopyNext, UNCHANGED calls
  PROVE  TypeData' /\ Owned' /\ Refs' /\ Heard' /\ Pending' /\ S!Next /\ TypeWork'
<1>1. PICK p \in copying : /\ cloneCopyEvent(p[1], p[2]) /\ copying' = copying \ {p}
                           /\ UNCHANGED <<nodes, todo, moving, fresh, pairs>>
  BY DEF CopyNext
<1>2. p[1] \in Node /\ p[2] \in Node /\ p[2] \in made
  BY DEF IInv, TypeOK, Pending
<1>3. TypeWork' /\ made' = made /\ within' = within
  BY <1>1 DEF IInv, TypeOK, TypeWork, nodes
<1>4. CASE ~hasData(p[1])
  <2>1. UNCHANGED <<entries, objects, elem, listening>>
    BY <1>1, <1>4 DEF cloneCopyEvent
  <2>2. TypeData' /\ Owned' /\ Refs' /\ Heard' /\ S!Next
    BY <1>3, <2>1, IdleKeeps
  <2>3. Pending'
    BY <1>1, <1>3, <2>1 DEF IInv, Pending, entries
  <2> QED BY <1>3, <2>2, <2>3
<1>5. CASE hasData(p[1])
  <2>1. PICK o : Changed(p[2], Pub(p[1]), o) /\ o.types = ObjectOf(p[1]).types /\ o.queue = ObjectOf(p[1]).queue
    BY <1>1, <1>3, <1>5, CopyKeeps
  <2>2. TypeData' /\ Owned' /\ Refs' /\ Heard' /\ \A m \in Node \ {p[2]} : expando'[m] \in {0, expando[m]}
    BY <2>1 DEF Changed
  <2>3. ASSUME NEW q \in copying' PROVE q \in copying /\ q[2] \in Node \ {p[2]} /\ q[2] \in made /\ expando[q[2]] = 0
    BY <1>1 DEF IInv, Pending, TypeOK
  <2>4. \A q \in copying' : q[2] \in made' /\ expando'[q[2]] = 0
    BY <1>3, <2>2, <2>3
  <2>5. \A n \in Node : expando'[n] # 0 => n \in made'
    BY <1>2, <1>3, <2>2 DEF IInv, Pending
  <2>6. Pending'
    BY <1>1, <1>3, <2>4, <2>5 DEF IInv, Pending
  <2>7. Kept[p[2]] = {} /\ Handlers[p[2]] = {} /\ Kept[p[1]] = Pub(p[1]) /\ Handlers[p[1]] = ObjectOf(p[1]).types
    <3>1. expando[p[2]] = 0 /\ 0 \notin cache
      BY DEF IInv, Pending, TypeOK, Id
    <3> QED BY <1>2, <3>1 DEF Kept, Handlers, Pub, Priv, ObjectOf, HasEntry, Blank
  <2>8. Kept' = [Kept EXCEPT ![p[2]] = Kept[p[1]]] /\ Handlers' = [Handlers EXCEPT ![p[2]] = Handlers[p[1]]]
    BY <1>2, <2>1, <2>7, ChangedIs
  <2>9. S!Copy(p[1], p[2])
    BY <2>7, <2>8 DEF S!Copy, Kept, Handlers
  <2>10. S!Next
    BY <1>2, <1>3, <2>9 DEF S!Next
  <2> QED BY <1>3, <2>2, <2>6, <2>10
<1> QED BY <1>4, <1>5

LEMMA UserStep ==
  ASSUME DataAssumption, IInv, User
  PROVE  TypeData' /\ Owned' /\ Refs' /\ Heard' /\ Pending' /\ S!Next /\ TypeWork'
<1>1. Quiet /\ calls' \in 0..MaxCalls /\ made \subseteq Node /\ copying = {}
  BY DEF User, IInv, TypeOK, Quiet, DataAssumption
<1>2. PICK n \in made :
        \/ Store(n) /\ pairs' = {} /\ UNCHANGED <<nodes, todo, moving, fresh, copying>>
        \/ Place(n) /\ pairs' = {} /\ UNCHANGED <<todo, moving, fresh, copying>>
        \/ \E e, d \in BOOLEAN : clone(n, e, d)
        \/ \E s, t \in made : append(n, IF s = t THEN <<s>> ELSE <<s, t>>)
  BY DEF User
<1>3. CASE Store(n) /\ pairs' = {} /\ UNCHANGED <<nodes, todo, moving, fresh, copying>>
  <2>1. PICK names, o : Changed(n, names, o)
    BY <1>3, StoreStep DEF nodes
  <2>2. TypeData' /\ Owned' /\ Refs' /\ Heard' /\ \A m \in Node \ {n} : expando'[m] \in {0, expando[m]}
    BY <2>1 DEF Changed
  <2>3. Pending'
    BY <1>1, <1>3, <2>2 DEF IInv, Pending, Quiet, nodes
  <2>4. TypeWork'
    BY <1>1, <1>3 DEF IInv, TypeOK, TypeWork, nodes
  <2>5. S!Next
    BY <1>3, StoreIs DEF nodes
  <2> QED BY <2>2, <2>3, <2>4, <2>5
<1>4. CASE Place(n) /\ pairs' = {} /\ UNCHANGED <<todo, moving, fresh, copying>>
  <2>1. /\ made' = made /\ within' \in [Node -> Node \union {None}]
        /\ TypeData' /\ Owned' /\ Refs' /\ Heard' /\ S!Next
        /\ \A m \in Node : expando'[m] \in {0, expando[m]}
    BY <1>4, PlaceKeeps
  <2>2. Pending'
    BY <1>1, <1>4, <2>1 DEF IInv, Pending, Quiet
  <2>3. TypeWork'
    BY <1>1, <1>4, <2>1 DEF IInv, TypeOK, TypeWork
  <2> QED BY <2>1, <2>2, <2>3
<1>5. ASSUME NEW e \in BOOLEAN, NEW d \in BOOLEAN, clone(n, e, d)
      PROVE  TypeData' /\ Owned' /\ Refs' /\ Heard' /\ Pending' /\ S!Next /\ TypeWork'
  BY <1>1, <1>5, CloneStep
<1>6. ASSUME NEW s \in made, NEW t \in made, append(n, IF s = t THEN <<s>> ELSE <<s, t>>)
      PROVE  TypeData' /\ Owned' /\ Refs' /\ Heard' /\ Pending' /\ S!Next /\ TypeWork'
  <2>1. (IF s = t THEN <<s>> ELSE <<s, t>>) \in Seq(made)
    OBVIOUS
  <2> QED BY <1>1, <1>6, <2>1, AppendStep
<1> QED BY <1>2, <1>3, <1>4, <1>5, <1>6

LEMMA NextStep ==
  ASSUME DataAssumption, IInv, [Next]_vars
  PROVE  IInv' /\ [S!Next]_<<within, Kept, Handlers>>
<1>1. CASE Next
  <2>1. TypeData' /\ Owned' /\ Refs' /\ Heard' /\ Pending' /\ S!Next /\ TypeWork'
    BY <1>1, UserStep, CopyNextStep, CloneNextStep, InsertStep DEF Next
  <2> QED BY <2>1 DEF IInv, TypeOK, TypeData, TypeWork
<1>2. CASE UNCHANGED vars
  <2>1. UNCHANGED <<nodes, entries, objects, elem, listening, work, calls>>
    BY <1>2 DEF vars
  <2>2. /\ TypeOK' /\ Owned' /\ Refs' /\ Pending'
        /\ \A n \in Node : Pub(n)' = Pub(n) /\ ObjectOf(n)' = ObjectOf(n)
    BY <2>1 DEF IInv, TypeOK, Owned, Refs, Pending, Pub, ObjectOf, Priv, HasEntry, nodes, entries, work
  <2>3. Heard'
    BY <2>1, <2>2 DEF IInv, Heard
  <2> QED BY <2>1, <2>2, <2>3 DEF IInv, Kept, Handlers, nodes
<1> QED BY <1>1, <1>2

LEMMA InitKeeps ==
  ASSUME DataAssumption, Init
  PROVE  IInv /\ S!Init
<1>1. TypeOK
  <2>1. Blank \in Object /\ <<>> \in Seq(Node)
    BY DEF Blank, Object
  <2> QED BY <2>1 DEF Init, DataAssumption, TypeOK
<1>2. Owned /\ Refs /\ Pending
  BY DEF Init, Owned, Refs, Pending, Blank
<1>3. \A n \in Node : Pub(n) = {} /\ ObjectOf(n) = Blank
  BY DEF Init, Pub, Priv, ObjectOf, HasEntry
<1>4. Heard
  BY <1>3 DEF Init, Heard, Blank
<1>5. S!Init
  BY <1>3 DEF S!Init, Blank
<1> QED BY <1>1, <1>2, <1>4, <1>5 DEF IInv

-----------------------------------------------------------------------------
(* Clones.                                                                 *)

\* The clones of a call differ, and are not what was cloned.  domManip makes at most one, for the
\* first of two targets, so that the pairs are those of one subtree.
Cloned ==
  /\ \A p, q \in pairs : p[1] # q[2] /\ (p[2] = q[2] => p = q)
  /\ Len(todo) <= 2 /\ (fresh # None => Len(todo) = 2) /\ (Len(todo) = 2 /\ fresh = None => pairs = {})

\* What a step that gives no data leaves of the pairs.
LEMMA CloneNextPairs ==
  ASSUME DataAssumption, IInv, Cloned, CloneNext
  PROVE  Cloned' /\ Alike'
<1> DEFINE twin == CHOOSE f \in Twins(moving) : TRUE
<1>1. /\ twin \in Twins(moving) /\ CloneNodes(moving, twin) /\ copying' = {<<m, twin[m]>> : m \in Subtree(moving)}
      /\ pairs' = pairs \union copying' /\ fresh' = twin[moving] /\ Len(todo) > 1 /\ fresh = None
      /\ UNCHANGED <<entries, objects, elem, listening, todo, moving>>
  BY DEF CloneNext
<1>2. moving \in made /\ Len(todo) \in Nat
  <2>1. todo # <<>>
    BY DEF CloneNext
  <2> QED BY <2>1 DEF IInv, Pending, TypeOK
<1> HIDE DEF twin
<1>3. pairs' = copying' /\ Len(todo) = 2
  <2>1. Len(todo) > 1 /\ fresh = None /\ pairs' = pairs \union copying'
    BY <1>1
  <2>2. Len(todo) <= 2 /\ (Len(todo) = 2 /\ fresh = None => pairs = {})
    BY DEF Cloned
  <2>3. \A k \in Nat : k > 1 /\ k <= 2 => k = 2
    OBVIOUS
  <2>4. Len(todo) = 2
    BY <1>2, <2>1, <2>2, <2>3, Zenon
  <2> QED BY <2>1, <2>2, <2>4
<1>4. fresh' # None
  <2>1. twin \in [Subtree(moving) -> Node \ made] /\ moving \in Subtree(moving)
    BY <1>1, <1>2, TwinsType, SubtreeUp
  <2> QED BY <1>1, <2>1 DEF DataAssumption
<1>5. expando' = expando
  BY <1>1 DEF entries
<1>6. \A p, q \in copying' : p[1] # q[2] /\ (p[2] = q[2] => p = q)
  BY <1>1, <1>2, <1>5, TwinPairs
<1>7. Cloned'
  BY <1>1, <1>3, <1>4, <1>6 DEF Cloned
<1>8. Alike'
  BY <1>3 DEF Alike
<1> QED BY <1>7, <1>8

LEMMA ClonePairs ==
  ASSUME IInv, Cloned, NEW n \in made, NEW e \in BOOLEAN, NEW d \in BOOLEAN, Quiet, clone(n, e, d)
  PROVE  Cloned' /\ Alike'
<1> DEFINE twin == CHOOSE f \in Twins(n) : TRUE
           M == {x \in Subtree(n) : e /\ (x = n \/ d)}
<1>1. /\ twin \in Twins(n) /\ CloneNodes(n, twin) /\ copying' = {<<m, twin[m]>> : m \in M} /\ pairs' = copying'
      /\ UNCHANGED <<entries, objects, elem, listening, todo, moving, fresh>>
  BY DEF clone
<1>2. M \in SUBSET Subtree(n) /\ todo = <<>>
  BY DEF Quiet
<1> HIDE DEF twin, M
<1>3. expando' = expando
  BY <1>1 DEF entries
<1>4. \A p, q \in copying' : p[1] # q[2] /\ (p[2] = q[2] => p = q)
  BY <1>1, <1>2, <1>3, TwinPairs
<1>5. todo' = <<>> /\ fresh' = None /\ Len(<<>>) = 0
  BY <1>1, <1>2 DEF Cloned
<1>6. Cloned'
  BY <1>1, <1>4, <1>5 DEF Cloned
<1>7. Alike'
  BY <1>1 DEF Alike
<1> QED BY <1>6, <1>7

\* The next clone is given what its node has, and the others keep it.
LEMMA CopyNextPairs ==
  ASSUME IInv, Cloned, Alike, CopyNext
  PROVE  Cloned' /\ Alike'
<1>1. PICK p \in copying : /\ cloneCopyEvent(p[1], p[2]) /\ copying' = copying \ {p}
                           /\ UNCHANGED <<nodes, todo, moving, fresh, pairs>>
  BY DEF CopyNext
<1>2. /\ p \in pairs /\ p[1] \in Node /\ p[2] \in Node /\ made' = made /\ expando[p[2]] = 0
      /\ pairs \subseteq Node \X Node /\ copying \subseteq pairs
  BY <1>1 DEF IInv, TypeOK, Pending, nodes
<1>3. Cloned'
  BY <1>1 DEF Cloned
<1>4. \A q \in pairs : q # p => q[1] # p[2] /\ q[2] # p[2]
  BY <1>2 DEF Cloned
<1>5. p[1] # p[2]
  BY <1>2 DEF Cloned
<1>6. CASE ~hasData(p[1])
  <2>1. UNCHANGED <<expando, uuid, cache, pub, priv, objects>>
    BY <1>1, <1>6 DEF cloneCopyEvent, entries
  <2>2. \A m \in Node : Pub(m)' = Pub(m) /\ ObjectOf(m)' = ObjectOf(m)
    BY <2>1 DEF Pub, ObjectOf, Priv, HasEntry
  <2>3. Pub(p[1]) = {} /\ ObjectOf(p[1]) = Blank
    BY <1>6 DEF hasData, ObjectOf
  <2>4. Pub(p[2]) = {} /\ ObjectOf(p[2]) = Blank
    <3>1. 0 \notin cache
      BY DEF IInv, TypeOK, Id
    <3> QED BY <1>2, <3>1 DEF Pub, Priv, ObjectOf, HasEntry
  <2>5. ASSUME NEW q \in pairs', q \notin copying'
        PROVE  /\ Pub(q[2])' = Pub(q[1])'
               /\ ObjectOf(q[2])'.types = ObjectOf(q[1])'.types /\ ObjectOf(q[2])'.queue = ObjectOf(q[1])'.queue
    <3>1. q \in pairs /\ q[1] \in Node /\ q[2] \in Node
      BY <1>1, <1>2, <2>5
    <3>2. CASE q = p
      BY <1>2, <2>2, <2>3, <2>4, <3>2
    <3>3. CASE q # p
      <4>1. q \in pairs \ copying
        BY <1>1, <2>5, <3>1, <3>3
      <4> QED BY <2>2, <3>1, <4>1 DEF Alike
    <3> QED BY <3>2, <3>3
  <2> QED BY <1>3, <2>5 DEF Alike
<1>7. CASE hasData(p[1])
  <2>1. PICK o : Changed(p[2], Pub(p[1]), o) /\ o.types = ObjectOf(p[1]).types /\ o.queue = ObjectOf(p[1]).queue
    BY <1>1, <1>2, <1>7, CopyKeeps
  <2>2. /\ \A m \in Node : Pub(m)' = IF m = p[2] THEN Pub(p[1]) ELSE Pub(m)
        /\ \A m \in Node : ObjectOf(m)' = IF m = p[2] THEN o ELSE ObjectOf(m)
    BY <2>1 DEF Changed
  <2>3. ASSUME NEW q \in pairs', q \notin copying'
        PROVE  /\ Pub(q[2])' = Pub(q[1])'
               /\ ObjectOf(q[2])'.types = ObjectOf(q[1])'.types /\ ObjectOf(q[2])'.queue = ObjectOf(q[1])'.queue
    <3>1. q \in pairs /\ q[1] \in Node /\ q[2] \in Node
      BY <1>1, <1>2, <2>3
    <3>2. CASE q = p
      BY <1>2, <1>5, <2>1, <2>2, <3>2
    <3>3. CASE q # p
      <4>1. q \in pairs \ copying /\ q[1] # p[2] /\ q[2] # p[2]
        BY <1>1, <1>4, <2>3, <3>1, <3>3
      <4> QED BY <2>2, <3>1, <4>1 DEF Alike
    <3> QED BY <3>2, <3>3
  <2> QED BY <1>3, <2>3 DEF Alike
<1> QED BY <1>6, <1>7

LEMMA PairsStep ==
  ASSUME DataAssumption, IInv, Cloned, Alike, [Next]_vars
  PROVE  Cloned' /\ Alike'
<1>1. CASE User
  <2>1. PICK n \in made :
          \/ Store(n) /\ pairs' = {} /\ UNCHANGED <<nodes, todo, moving, fresh, copying>>
          \/ Place(n) /\ pairs' = {} /\ UNCHANGED <<todo, moving, fresh, copying>>
          \/ \E e, d \in BOOLEAN : clone(n, e, d)
          \/ \E s, t \in made : append(n, IF s = t THEN <<s>> ELSE <<s, t>>)
    BY <1>1 DEF User
  <2>2. CASE pairs' = {} /\ UNCHANGED <<todo, fresh>>
    BY <2>2 DEF Cloned, Alike
  <2>3. CASE \E e, d \in BOOLEAN : clone(n, e, d)
    BY <1>1, <2>3, ClonePairs DEF User
  <2>4. CASE \E s, t \in made : append(n, IF s = t THEN <<s>> ELSE <<s, t>>)
    <3>1. PICK s \in made, t \in made : append(n, IF s = t THEN <<s>> ELSE <<s, t>>)
      BY <2>4
    <3>2. pairs' = {} /\ fresh' = fresh /\ Len(todo') <= 2
      BY <3>1 DEF append
    <3>3. fresh = None
      BY <1>1 DEF User, Quiet, Cloned
    <3> QED BY <3>2, <3>3 DEF Cloned, Alike
  <2> QED BY <2>1, <2>2, <2>3, <2>4
<1>2. CASE CopyNext
  BY <1>2, CopyNextPairs
<1>3. CASE CloneNext
  BY <1>3, CloneNextPairs
<1>4. CASE Insert
  <2>1. /\ todo # <<>> /\ todo' = Tail(todo) /\ fresh' = None
        /\ UNCHANGED <<expando, uuid, cache, pub, priv, objects, copying, pairs>>
    BY <1>4 DEF Insert, entries
  <2>2. todo \in Seq(Node)
    BY DEF IInv, TypeOK
  <2>3. Len(todo') = Len(todo) - 1 /\ Len(todo) \in Nat
    BY <2>1, <2>2
  <2>4. Cloned'
    BY <2>1, <2>3 DEF Cloned
  <2>5. Alike'
    BY <2>1 DEF Alike, Pub, ObjectOf, Priv, HasEntry
  <2> QED BY <2>4, <2>5
<1>5. CASE UNCHANGED vars
  <2>1. UNCHANGED <<expando, uuid, cache, pub, priv, objects, todo, fresh, copying, pairs>>
    BY <1>5 DEF vars, entries, work
  <2> QED BY <2>1 DEF Cloned, Alike, Pub, ObjectOf, Priv, HasEntry
<1> QED BY <1>1, <1>2, <1>3, <1>4, <1>5 DEF Next

-----------------------------------------------------------------------------
\* Numbers, entries, objects and handles belong together at every moment of every history of calls.
THEOREM DataSound ==
  ASSUME DataAssumption
  PROVE  Spec => []IInv
<1>1. Init => IInv
  BY InitKeeps
<1>2. IInv /\ [Next]_vars => IInv'
  BY NextStep
<1> QED BY <1>1, <1>2, PTL DEF Spec

\* The values of the variables.
THEOREM TypeCorrect ==
  ASSUME DataAssumption
  PROVE  Spec => []TypeOK
<1>1. IInv => TypeOK
  BY DEF IInv
<1> QED BY <1>1, DataSound, PTL

\* Nothing leaks, and no number leads to another's entry (data and removeData, 1408-1572).
THEOREM OwnedHolds ==
  ASSUME DataAssumption
  PROVE  Spec => []Owned
<1>1. IInv => Owned
  BY DEF IInv
<1> QED BY <1>1, DataSound, PTL

\* The browser calls what is bound and nothing else (cloneCopyEvent, 5805; cleanData, 6142).
THEOREM HeardHolds ==
  ASSUME DataAssumption
  PROVE  Spec => []Heard
<1>1. IInv => Heard
  BY DEF IInv
<1> QED BY <1>1, DataSound, PTL

\* No two nodes share what jQuery keeps about them, whatever is cloned (5812-5829).
THEOREM ApartHolds ==
  ASSUME DataAssumption
  PROVE  Spec => []Apart
<1>1. IInv => Apart
  <2> SUFFICES ASSUME IInv, NEW m \in Node, NEW n \in Node, Priv(m) # 0, Priv(m) = Priv(n) PROVE m = n
    BY DEF Apart
  <2>1. Priv(m) \in {0, expando[m]} /\ Priv(n) \in {0, expando[n]}
    BY OwnRefs DEF IInv
  <2> QED BY <2>1 DEF IInv, Owned
<1> QED BY <1>1, DataSound, PTL

\* Clones are given all that their nodes have, and what is done next leaves both alone (5805-5832).
THEOREM AlikeHolds ==
  ASSUME DataAssumption
  PROVE  Spec => []Alike
<1>1. Init => Cloned /\ Alike
  BY DEF Init, Cloned, Alike
<1>2. IInv /\ (Cloned /\ Alike) /\ [Next]_vars => (Cloned /\ Alike)'
  BY PairsStep
<1> QED BY <1>1, <1>2, DataSound, PTL DEF Spec

\* The cache is a store in which every node has its own: whatever is done to one node, another
\* keeps its data and handlers, unless it is taken out of the document with it.
THEOREM DataIsStore ==
  ASSUME DataAssumption
  PROVE  Spec => IsStore
<1>1. Init => S!Init
  BY InitKeeps
<1>2. IInv /\ [Next]_vars => [S!Next]_<<within, Kept, Handlers>>
  BY NextStep
<1> QED BY <1>1, <1>2, DataSound, PTL DEF Spec, IsStore, S!Spec, Kept, Handlers
=============================================================================
