---------------------------- MODULE ElementFrames ----------------------------
(***************************************************************************)
(* The animations of Raphael (vendor.js of elasticSearch): one array for   *)
(* all papers, which the function animation goes through in every frame,   *)
(* and beside it a timer for each callback.                                *)
(*                                                                         *)
(* One thread runs the page's code, the frames and the callbacks one after *)
(* another; a frame runs the page's code within it, where it sets custom   *)
(* attributes and calls what was given to onAnimation.                     *)
(***************************************************************************)
EXTENDS Naturals, Sequences, FiniteSets, Sieve

CONSTANTS
  Element,
  Items,      \* the members of a set, a sequence of elements
  Anim,       \* the animations that are started, numbered from 1
  None

AnimAssumption ==
  /\ IsFiniteSet(Anim) /\ Anim = 1..Cardinality(Anim)
  /\ Items \in Seq(Element) \ {<<>>} /\ None \notin Nat \union Element

VARIABLES
  el,           \* of each animation, its element, or None before it is started
  entries,      \* animationElements
  over,         \* the animations whose time is up
  loops,        \* timers that will call animation
  at,           \* the frame under way: its place in the array, its entry, what it is doing
  late,         \* the animations whose time is up for the frame under way
  removed,      \* the elements that were removed
  timers,       \* the animations whose callback is still to be called
  ac,           \* _ac of each element: the timer it can clear
  waiting,      \* of a set's animation, the calls of the collector that are missing, or None
  members,      \* its animations, and how many items it called back or passed over at once
  heard,        \* how often the set's callback was called
  fate,         \* of each animation: "none", "runs", "ends" or "stopped"; "lost" when another ended for it
  called,       \* the animations whose callbacks were called
  thrown,       \* whether the page's code threw out of a frame
  meddled       \* whether the page's code stopped animations while a frame set attributes

array == <<el, entries, over, fate>>
calls == <<timers, ac, waiting, members, heard, called>>
vars == <<array, loops, at, late, removed, calls, thrown, meddled>>

Idle == [l |-> 0, anim |-> None, doing |-> "nothing"]

Init ==
  /\ el = [a \in Anim |-> None] /\ entries = <<>> /\ over = {} /\ fate = [a \in Anim |-> "none"]
  /\ loops = 0 /\ at = Idle /\ late = {} /\ removed = {}
  /\ timers = {} /\ ac = [e \in Element |-> None] /\ called = {}
  /\ waiting = None /\ members = {} /\ heard = 0
  /\ thrown = FALSE /\ meddled = FALSE

-----------------------------------------------------------------------------
Started == {a \in Anim : el[a] # None}
Fresh(n) == Cardinality(Started) + n \in Anim \union {0}
Id(n) == Cardinality(Started) + n

\* The page's code runs between frames, and within a frame while it sets attributes and after it.
PageRuns == at.doing \in {"nothing", "attr", "run"}

\* The end of animate: the array has new entries, and the first of all starts the loop.
Push(new) ==
  /\ entries' = entries \o new
  /\ loops' = IF entries = <<>> /\ new # <<>> THEN loops + 1 ELSE loops

\* Within a frame, animations that take no time, or whose start is that of others, are late at once:
\* the frame ends them if it gets to them.
LateAtOnce(new, atOnce) ==
  /\ atOnce => at # Idle
  /\ IF atOnce THEN over' = over \union new /\ late' = late \union new ELSE UNCHANGED <<over, late>>

\* animate, of an element that is there; a callback's timer takes the place of the last in _ac.
Animate(e, callback, atOnce) ==
  /\ PageRuns /\ Fresh(1) /\ e \notin removed
  /\ LET a == Id(1) IN
     /\ el' = [el EXCEPT ![a] = e] /\ fate' = [fate EXCEPT ![a] = "runs"]
     /\ Push(<<a>>) /\ LateAtOnce({a}, atOnce)
     /\ IF callback THEN timers' = timers \union {a} /\ ac' = [ac EXCEPT ![e] = a]
        ELSE UNCHANGED <<timers, ac>>
  /\ UNCHANGED <<at, removed, waiting, members, heard, called, thrown, meddled>>

\* The items of the set that are there, from the last to the first.
There == LET n == Len(Items) IN Sifted([k \in 1..n |-> Items[n + 1 - k]], Element \ removed)

\* Mutant: the collector waits for the items that are there.
LenThere == Len(There)

\* How many calls the collector waits for.
LenItems == Len(Items)

\* animate of a set, which gives all its items one start.  Its last item is called back at once
\* where it was removed, the others are passed over, and the collector still waits for them.
AnimateSet(atOnce) ==
  /\ PageRuns /\ waiting = None
  /\ LET there == There
         ids == [k \in 1..Len(there) |-> Id(k)]
         given == {ids[k] : k \in 1..Len(ids)}
         n == LenItems
         first == IF Items[Len(Items)] \in removed THEN 1 ELSE 0
     IN
     /\ Fresh(Len(there))
     /\ el' = [a \in Anim |-> IF a \in given THEN there[a - Id(0)] ELSE el[a]]
     /\ fate' = [a \in Anim |-> IF a \in given THEN "runs" ELSE fate[a]]
     /\ Push(ids) /\ LateAtOnce(given, atOnce)
     /\ timers' = timers \union given
     /\ ac' = [e \in Element |-> IF \E a \in given : el'[a] = e
                                 THEN CHOOSE a \in given : el'[a] = e /\ \A b \in given : el'[b] = e => b <= a
                                 ELSE ac[e]]
     /\ waiting' = n - first /\ members' = given
     /\ heard' = IF n = first THEN heard + 1 ELSE heard
  /\ UNCHANGED <<at, removed, called, thrown, meddled>>

\* stop compares ids, which are undefined in all elements that were removed.
Same(e, d) == d = e \/ {d, e} \subseteq removed

\* Mutant: the timer of the callback is left.
ClearedNot(e) == {}

\* The timer that stop clears, which a removed element has forgotten.
Cleared(e) == IF e \in removed THEN {} ELSE {ac[e]}

\* stop.
Stop(e) ==
  /\ PageRuns
  /\ entries' = Sifted(entries, {a \in Anim : ~Same(e, el[a])})
  /\ fate' = [a \in Anim |-> IF fate[a] = "runs" /\ Same(e, el[a]) THEN "stopped" ELSE fate[a]]
  /\ timers' = timers \ Cleared(e)
  /\ ac' = [ac EXCEPT ![e] = None]
  /\ meddled' = (meddled \/ (at.doing = "attr" /\ entries' # entries))
  /\ UNCHANGED <<el, over, loops, at, late, removed, waiting, members, heard, called, thrown>>

\* remove, which deletes all properties and so forgets the timer.
Remove(e) ==
  /\ PageRuns /\ e \notin removed
  /\ removed' = removed \union {e} /\ ac' = [ac EXCEPT ![e] = None]
  /\ UNCHANGED <<array, loops, at, late, timers, waiting, members, heard, called, thrown, meddled>>

-----------------------------------------------------------------------------
\* A timer calls animation, which reads the clock once.
FrameBegins ==
  /\ at = Idle /\ loops > 0
  /\ loops' = loops - 1 /\ late' = over /\ at' = [l |-> 1, anim |-> None, doing |-> "next"]
  /\ UNCHANGED <<array, removed, calls, thrown, meddled>>

\* The next entry: that of a removed element stays where it is.
FrameGoesOn ==
  /\ at.doing = "next" /\ at.l <= Len(entries)
  /\ at' = IF el[entries[at.l]] \in removed THEN [at EXCEPT !.l = @ + 1]
           ELSE [at EXCEPT !.anim = entries[at.l], !.doing = "attr"]
  /\ UNCHANGED <<array, loops, late, removed, calls, thrown, meddled>>

Out(s, l) == IF l > Len(s) THEN s ELSE [k \in 1..(Len(s) - 1) |-> IF k < l THEN s[k] ELSE s[k + 1]]

\* Mutant: the place is moved before it is used.
SplicedNext(l) == Out(entries, l + 1)

Spliced(l) == Out(entries, l)

\* attr returns.  At the end of the animation its place is taken out of the array, whatever is
\* there by now.
AttrReturns ==
  /\ at.doing = "attr" /\ el[at.anim] \notin removed
  /\ IF at.anim \in late
     THEN /\ at' = [at EXCEPT !.anim = None, !.doing = "next"]
          /\ entries' = Spliced(at.l)
          /\ fate' = [a \in Anim |-> IF a = at.anim /\ fate[a] = "runs" THEN "ends"
                                     ELSE IF at.l <= Len(entries) /\ a = entries[at.l] THEN "lost" ELSE fate[a]]
     ELSE at' = [at EXCEPT !.doing = "run"] /\ UNCHANGED <<entries, fate>>
  /\ UNCHANGED <<el, over, loops, late, removed, calls, thrown, meddled>>

\* What was given to onAnimation returns.
RunReturns ==
  /\ at.doing = "run"
  /\ at' = [l |-> at.l + 1, anim |-> None, doing |-> "next"]
  /\ UNCHANGED <<array, loops, late, removed, calls, thrown, meddled>>

\* Something throws out of the frame, and nothing requests another.
Throws ==
  /\ at' = Idle /\ thrown' = TRUE
  /\ UNCHANGED <<array, loops, late, removed, calls, meddled>>

\* The page's code does, or attr when its element is gone.
PageThrows == at.doing \in {"attr", "run"} /\ Throws
AttrThrows == at.doing = "attr" /\ el[at.anim] \in removed /\ Throws

\* Mutant: a single entry is not worth a frame.
FrameEndsAtLast ==
  /\ at.doing = "next" /\ at.l > Len(entries)
  /\ at' = Idle /\ late' = {} /\ loops' = IF Len(entries) > 1 THEN loops + 1 ELSE loops
  /\ UNCHANGED <<array, removed, calls, thrown, meddled>>

\* The end: with entries another frame is requested.
FrameEnds ==
  /\ at.doing = "next" /\ at.l > Len(entries)
  /\ at' = Idle /\ late' = {} /\ loops' = IF entries # <<>> THEN loops + 1 ELSE loops
  /\ UNCHANGED <<array, removed, calls, thrown, meddled>>

-----------------------------------------------------------------------------
\* Time passes.
TimeIsUp(a) ==
  /\ a \in Started \ over
  /\ over' = over \union {a}
  /\ UNCHANGED <<el, entries, fate, loops, at, late, removed, calls, thrown, meddled>>

\* A callback's timer, before the frame that ends the animation or after it.
CallBack(a) ==
  /\ at = Idle /\ a \in timers /\ a \in over
  /\ timers' = timers \ {a} /\ called' = called \union {a}
  /\ IF a \in members THEN waiting' = waiting - 1 /\ heard' = IF waiting = 1 THEN heard + 1 ELSE heard
     ELSE UNCHANGED <<waiting, heard>>
  /\ UNCHANGED <<array, loops, at, late, removed, ac, members, thrown, meddled>>

-----------------------------------------------------------------------------
Page ==
  \/ \E e \in Element, callback, atOnce \in BOOLEAN : Animate(e, callback, atOnce)
  \/ \E atOnce \in BOOLEAN : AnimateSet(atOnce)
  \/ \E e \in Element : Stop(e) \/ Remove(e)
  \/ PageThrows

Engine == FrameBegins \/ FrameGoesOn \/ AttrReturns \/ AttrThrows \/ RunReturns \/ FrameEnds

Next == Page \/ Engine \/ \E a \in Anim : TimeIsUp(a) \/ CallBack(a)

Spec == Init /\ [][Next]_vars

\* What runs comes to its end, and timers fire.
Fairness == WF_vars(Engine) /\ \A a \in Anim : WF_vars(TimeIsUp(a)) /\ SF_vars(CallBack(a))

FairSpec == Spec /\ Fairness
-----------------------------------------------------------------------------
\* The types of the variables.
TypeOK ==
  /\ el \in [Anim -> Element \union {None}] /\ entries \in Seq(Anim) /\ over \subseteq Started
  /\ fate \in [Anim -> {"none", "runs", "ends", "stopped", "lost"}]
  /\ loops \in Nat /\ late \subseteq over /\ removed \subseteq Element
  /\ at \in [l : Nat, anim : Anim \union {None}, doing : {"nothing", "next", "attr", "run"}]
  /\ timers \subseteq Started /\ called \subseteq Started /\ ac \in [Element -> Anim \union {None}]
  /\ waiting \in Nat \union {None} /\ members \subseteq Started /\ heard \in Nat
  /\ thrown \in BOOLEAN /\ meddled \in BOOLEAN

\* As long as nothing threw, there are frames while there are entries: the first entry starts
\* the loop, and a frame goes on when it leaves some, although the page's code empties the
\* array and fills it again within a frame and between two (animation, animate, 12320, 12580).
LoopRuns == (entries # <<>> /\ at = Idle /\ ~thrown) => loops > 0

\* Nobody stops or ends the animation of another: as long as no custom attribute stops one in a
\* frame, the array has those that run, each once; places are taken out of it while the frame
\* goes through it (12219-12316, 12584-12587).
OwnEnd ==
  ~meddled =>
    /\ \A a \in Anim : fate[a] = "runs" <=> \E k \in 1..Len(entries) : entries[k] = a
    /\ \A j, k \in 1..Len(entries) : entries[j] = entries[k] => j = k
    /\ \A a \in Anim : fate[a] # "lost"

\* A stopped animation does not call back, unless a later one of the element took its place in
\* _ac, or the element, being removed, had forgotten it (12577, 12593).
Silent ==
  \A a \in timers : fate[a] = "stopped" => el[a] \in removed \/ \E b \in Started : b > a /\ el[b] = el[a]

\* The callback of a set is called once, when all its items that were there have called the
\* collector (12657-12673).
Collected == heard <= 1 /\ (heard = 1 => members \subseteq called)

\* Every animation ends or is stopped, unless something throws or its element is removed.
AllEnd == \A a \in Anim : fate[a] = "runs" ~> (fate[a] # "runs" \/ el[a] \in removed \/ thrown)

\* The callback of a set that was all there is called, unless a timer of its items was cleared.
SetHears ==
  (waiting # None /\ Cardinality(members) = Len(Items)) ~> (heard = 1 \/ \E a \in members : a \notin timers \union called)
=============================================================================
