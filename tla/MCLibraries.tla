----------------------------- MODULE MCLibraries -----------------------------
(***************************************************************************)
(* Model checking of the parts of vendor.js that keep to themselves: the   *)
(* list of Raphael's elements, its animations, the selector engine and the *)
(* parser of date ranges.  They share no state, so a behaviour is one of a *)
(* page that uses one of them, and the others stay as they were.           *)
(***************************************************************************)
EXTENDS Libraries, Integers, TLC

CONSTANTS
  e1, e2, e3, e4,   \* elements
  g1                \* a set

VARIABLES
  part,                                                              \* the one that is used
  \* of Sizzle
  parent, label, context, selector, left, set, checkSet, results,
  \* of DateRange
  now, query, range

frameVars == <<el, entries, over, loops, at, late, removed, timers, ac, waiting, members, heard, fate, called, thrown, meddled>>
selectorVars == <<parent, label, context, selector, left, set, checkSet, results>>
dateVars == <<now, query, range>>

-----------------------------------------------------------------------------
MCItems == g1 :> <<e1, e2, e3>>
Pair == <<e1, e2>>

\* Up to three parts with any relations; the names are alike, so that the last part is fixed,
\* and the document element is called by the other.
Part(r, l) == [rel |-> r, part |-> l]
First == {"none", ">", "+", "~"}
Later == {"", ">", "+", "~"}
Asked ==
  {<<Part(r, "p")>> : r \in First}
  \union {<<Part(r, x), Part(q, "p")>> : r \in First, q \in Later, x \in {"p", "q"}}
  \union {<<Part("none", x), Part(q, IF x = "p" THEN "q" ELSE "p"), Part(r, "p")>> : q, r \in Later, x \in {"p", "q"}}

\* The first and the last instants of days about the ends of years and of Februaries, from 1968
\* to 1972.
Days == (-676..-669) \union (-3..3) \union (57..60) \union (363..367) \union (728..732) \union (787..792)
Instants == {24 * day + tick : day \in Days, tick \in {0, 23}}

Written(date, time) == [date |-> date, time |-> time]
Dates == {Written(<<1968>>, <<>>), Written(<<1969>>, <<>>), Written(<<1970, 2>>, <<>>), Written(<<1972, 2>>, <<>>),
          Written(<<1971, 12>>, <<>>), Written(<<1971, 13>>, <<>>), Written(<<1972, 2, 29>>, <<>>),
          Written(<<1970>>, <<1, 1>>), Written(<<1969, 12, 31>>, <<2, 1, 1>>), Written(<<>>, <<1>>)}
Word(w) == [kind |-> "word", word |-> w]
Amount(n) == [kind |-> "amount", n |-> n, unit |-> "day"]
Paired == {Word("now"), Word("lastmonth"), Amount(0), Amount(3)}

S == INSTANCE Sizzle WITH N <- 5, Label <- {"p", "q"}, Selectors <- Asked, Contexts <- {0, 2}
D == INSTANCE DateRange WITH Hours <- 3, Minutes <- 2, Seconds <- 2, Ticks <- 2, Clocks <- Instants, Amounts <- {0, 3}

ASSUME S!SelectorAssumption /\ D!DateAssumption

PageInit ==
  /\ part \in {"elements", "frames", "selectors", "dates"}
  /\ Init /\ F!Init /\ S!Init /\ D!Init
  /\ part # "elements" => vml
  /\ IF part = "selectors" THEN label[1] = "q" ELSE parent = [n \in 1..5 |-> n - 1] /\ label = [n \in 1..5 |-> "q"]
  /\ part # "dates" => now = 0

PageNext ==
  /\ \/ part = "elements" /\ Next /\ UNCHANGED frameVars /\ UNCHANGED selectorVars /\ UNCHANGED dateVars
     \/ part = "frames" /\ F!Next /\ UNCHANGED vars /\ UNCHANGED selectorVars /\ UNCHANGED dateVars
     \/ part = "selectors" /\ S!Next /\ UNCHANGED vars /\ UNCHANGED frameVars /\ UNCHANGED dateVars
     \/ part = "dates" /\ D!Next /\ UNCHANGED vars /\ UNCHANGED frameVars /\ UNCHANGED selectorVars
  /\ UNCHANGED part

PageSpec ==
  /\ PageInit /\ [][PageNext]_<<part, vars, frameVars, selectorVars, dateVars>>
  /\ F!Fairness

-----------------------------------------------------------------------------
\* The type invariants of the four.
LibraryTypes == TypeOK /\ F!TypeOK /\ S!TypeOK /\ D!TypeOK

\* A selector finds what it means, and all of it where the engine need not turn back (3811-4144,
\* 4988-5060); a range has the instants that its words, its fields or its amounts mean
\* (14323-14499).
RightAnswers ==
  /\ S!Meaningful /\ S!AllFound
  /\ D!RightPeriod /\ D!RightFields /\ D!FormsAgree

\* Animations end, and the callback of a set is called (12313-12321, 12657-12673).
AnimationsEnd == F!AllEnd /\ F!SetHears
=============================================================================
