------------------------------ MODULE DateRange ------------------------------
(***************************************************************************)
(* date-range-parser (vendor.js of elasticSearch): what a user writes in a *)
(* date field becomes the first and the last instant of a range, by        *)
(* arithmetic on arrays of calendar fields that need not be in range.      *)
(*                                                                         *)
(* An instant is a number of ticks since the epoch; the code's day has 24  *)
(* hours of 60 minutes of 60 seconds of 1000 ticks, here the lengths are   *)
(* constants.  What is written is given by its parts, not as text.         *)
(***************************************************************************)
EXTENDS Integers, Sequences, FiniteSets

CONSTANTS
  Hours, Minutes, Seconds, Ticks,   \* in a day, an hour, a minute, a second
  Clocks,                           \* the instants at which something is parsed
  Dates,                            \* dates and times that are written: see Date
  Amounts,                          \* numbers before a unit
  Paired,                           \* the terms that are written beside an operator
  None                              \* null, undefined and NaN, of which no arithmetic makes a number

Field == 0..6                       \* year, month, day, hour, minute, second, millisecond
Words == {"now", "today", "thisweek", "thismonth", "thisyear", "yesterday", "lastweek", "lastmonth",
          "lastyear", "tomorrow", "nextweek", "nextmonth", "nextyear"}

\* A date of up to three fields and a time of up to three: "2012-03 10:30".
Date(d) == /\ d.date \in Seq(Nat) /\ Len(d.date) <= 3
           /\ d.time \in Seq(Nat) /\ Len(d.time) <= 3
           /\ d.date # <<>> \/ d.time # <<>>

DateAssumption ==
  /\ {Hours, Minutes, Seconds, Ticks} \subseteq Nat \ {0} /\ Amounts \subseteq Nat
  /\ \A d \in Dates : Date(d)

VARIABLES
  now,      \* drp.now, or the time of the call
  query,    \* what was written, or None
  range     \* what parse returned: a record, or None for null

vars == <<now, query, range>>

-----------------------------------------------------------------------------
(* Date.UTC and the getUTC methods, between 1901 and 2099.                 *)

SecondTicks == Ticks
MinuteTicks == Seconds * SecondTicks
HourTicks == Minutes * MinuteTicks
DayTicks == Hours * HourTicks

\* The days before a year and before a month of it, since the epoch.
YearStart(y) == 365 * (y - 1970) + (y - 1969) \div 4
MonthStart(y, m) ==
  LET before == <<0, 31, 59, 90, 120, 151, 181, 212, 243, 273, 304, 334>>
  IN  YearStart(y) + before[m] + (IF y % 4 = 0 /\ m > 2 THEN 1 ELSE 0)

\* fromArray: fields out of their range run over into the next or the previous ones.
fromArray(a) ==
  LET y == a[0] + (a[1] - 1) \div 12
      m == ((a[1] - 1) % 12) + 1
  IN  (MonthStart(y, m) + a[2] - 1) * DayTicks + a[3] * HourTicks + a[4] * MinuteTicks + a[5] * SecondTicks + a[6]

DayOf(t) == t \div DayTicks
Weekday(t) == (DayOf(t) + 4) % 7         \* 0 for Sunday; the epoch was a Thursday
YearOf(t) == 1969 + (4 * (DayOf(t) - YearStart(1969)) + 3) \div 1461     \* every fourth year a leap year
MonthOf(t) == Cardinality({m \in 1..12 : MonthStart(YearOf(t), m) <= DayOf(t)})

makeArray(t) ==
  LET rest == t % DayTicks IN
  [i \in Field |->
    CASE i = 0 -> YearOf(t)
      [] i = 1 -> MonthOf(t)
      [] i = 2 -> DayOf(t) - MonthStart(YearOf(t), MonthOf(t)) + 1
      [] i = 3 -> rest \div HourTicks
      [] i = 4 -> (rest % HourTicks) \div MinuteTicks
      [] i = 5 -> (rest % MinuteTicks) \div SecondTicks
      [] i = 6 -> rest % SecondTicks]

-----------------------------------------------------------------------------
(* Terms.                                                                  *)

\* Mutant: the rest is zero, also the month and the day.
precArrayZero(t, p, offset) ==
  [i \in Field |-> IF i > p THEN 0 ELSE makeArray(t)[i] + IF i = p THEN offset ELSE 0]

\* The fields of an instant as far as p, that one moved by offset, and the first of the rest.
precArray(t, p, offset) ==
  [i \in Field |-> IF i > p THEN IF i < 3 THEN 1 ELSE 0
                   ELSE makeArray(t)[i] + IF i = p THEN offset ELSE 0]

\* Mutant: a unit is added to the instant, months having 31 days and years 365.
makePrecRangeUnits(dt, p, r) ==
  LET unit == <<365 * DayTicks, 31 * DayTicks, DayTicks, HourTicks, MinuteTicks, SecondTicks, 1>>
  IN  [start |-> fromArray(dt), end |-> fromArray(dt) + r * unit[p + 1]]

makePrecRange(dt, p, r) == [start |-> fromArray(dt), end |-> fromArray([dt EXCEPT ![p] = @ + r])]

\* dra, for a unit.
Period(p, offset) == makePrecRange(precArray(now, p, offset), p, 1)

\* Mutant: the weekday is that of the first of the month.
WeekOfMonth(offset) ==
  LET dt == precArray(now, 2, offset)
  IN  makePrecRange([dt EXCEPT ![2] = @ - Weekday(fromArray([dt EXCEPT ![2] = 1]))], 2, 7)

\* dra, for a week, which begins on a Sunday.
Week(offset) ==
  LET dt == precArray(now, 2, offset)
  IN  makePrecRange([dt EXCEPT ![2] = @ - Weekday(fromArray(dt))], 2, 7)

Offset(w) ==
  CASE w \in {"yesterday", "lastweek", "lastmonth", "lastyear"} -> -1
    [] w \in {"today", "thisweek", "thismonth", "thisyear"} -> 0
    [] w \in {"tomorrow", "nextweek", "nextmonth", "nextyear"} -> 1

Word(w) ==
  CASE w = "now" -> [start |-> now, end |-> now, now |-> now]
    [] w \in {"lastweek", "thisweek", "nextweek"} -> Week(7 * Offset(w))
    [] OTHER -> Period(CASE w \in {"lastyear", "thisyear", "nextyear"} -> 0
                         [] w \in {"lastmonth", "thismonth", "nextmonth"} -> 1
                         [] w \in {"yesterday", "today", "tomorrow"} -> 2, Offset(w))

\* What is written of a date, by field.  What is not written before it is that of now, and
\* what is not written within it or after it is the first.
Given(d, i) == i < Len(d.date) \/ (i >= 3 /\ i < 3 + Len(d.time))
Value(d, i) == IF i < 3 THEN d.date[i + 1] ELSE d.time[i - 2]
Precision(d) == CHOOSE i \in Field : Given(d, i) /\ \A j \in Field : j > i => ~Given(d, j)
Fields(d) ==
  [i \in Field |-> IF Given(d, i) THEN Value(d, i)
                   ELSE IF \E j \in Field : j < i /\ Given(d, j) THEN (IF i < 3 THEN 1 ELSE 0)
                   ELSE makeArray(now)[i]]

\* _relTokens, with an unknown unit.
relTokens(u) ==
  CASE u = "yr" -> 365 * DayTicks
    [] u = "mon" -> 31 * DayTicks
    [] u = "day" -> DayTicks
    [] u = "hr" -> HourTicks
    [] u = "min" -> MinuteTicks
    [] u = "sec" -> SecondTicks
Units == {"yr", "mon", "day", "hr", "min", "sec"}

\* The terms that can be written; the last stands for all that throws.
Terms ==
  {[kind |-> "word", word |-> w] : w \in Words}
  \union {[kind |-> "date", date |-> d] : d \in Dates}
  \union {[kind |-> "amount", n |-> n, unit |-> u] : n \in Amounts, u \in Units \union {"unknown"}}
Bad == [kind |-> "bad"]

procTerm(term) ==
  CASE term = None -> None
    [] term.kind = "word" -> Word(term.word)
    [] term.kind = "date" -> makePrecRange(Fields(term.date), Precision(term.date), 1)
    [] term.kind = "amount" -> [rel |-> IF term.unit = "unknown" THEN None ELSE term.n * relTokens(term.unit)]

-----------------------------------------------------------------------------
(* parse and its _parse.                                                      *)

Of(term, f) == IF f \in DOMAIN term THEN term[f] ELSE None
True(x) == x # None /\ x # 0
Plus(x, y) == IF x = None \/ y = None THEN None ELSE x + y
Minus(x, y) == IF x = None \/ y = None THEN None ELSE x - y
defaultRange == DayTicks
Between(s, e) == [start |-> s, end |-> e]

\* Mutant: the first term of a pair of relative ones is not looked at.
FromToSecond(t1, t2) ==
  IF t2 = None THEN (IF t1 = None THEN None ELSE Between(Of(t1, "start"), None))
  ELSE IF t1 = None THEN Between(None, Of(t2, "end"))
  ELSE IF True(Of(t2, "rel")) THEN Between(Of(t1, "end"), Plus(Of(t1, "start"), t2.rel))
  ELSE Between(Of(t1, "start"), Of(t2, "end"))

\* With < or -> between the terms.
FromTo(t1, t2) ==
  IF t2 = None THEN (IF t1 = None THEN None ELSE Between(Of(t1, "start"), None))
  ELSE IF t1 = None THEN Between(None, Of(t2, "end"))
  ELSE IF True(Of(t2, "rel")) THEN Between(Of(t1, "start"), Plus(Of(t1, "end"), t2.rel))
  ELSE IF True(Of(t1, "rel")) THEN Between(Minus(Of(t2, "start"), t1.rel), Of(t2, "end"))
  ELSE Between(Of(t1, "start"), Of(t2, "end"))

\* With <> after the first term.
Around(t1, t2) ==
  IF t1 = None THEN None
  ELSE IF t2 = None THEN Between(Minus(Of(t1, "start"), defaultRange), Plus(Of(t1, "end"), defaultRange))
  ELSE IF "rel" \in DOMAIN t2 THEN Between(Minus(Of(t1, "start"), t2.rel), Plus(Of(t1, "end"), t2.rel))
  ELSE None

\* With one term.
Alone(t1) ==
  IF True(Of(t1, "rel")) THEN Between(now - t1.rel, now + t1.rel)
  ELSE IF True(Of(t1, "now")) THEN Between(t1.now - defaultRange, t1.now + defaultRange)
  ELSE Between(Of(t1, "start"), Of(t1, "end"))

Joined(op, t1, t2) ==
  CASE op \in {"<", "->"} -> FromTo(t1, t2)
    [] op = "<>" -> Around(t1, t2)
    [] op = "" -> IF t1 = None THEN Between(None, None) ELSE Alone(t1)

\* The end is not part of a range, and so the last instant is the one before it, unless that is
\* the epoch.
Inclusive(r) == IF r = None THEN None ELSE Between(r.start, IF True(r.end) THEN r.end - 1 ELSE r.end)

\* What throws makes null.
parse(q) ==
  IF Bad \in {q.first, q.second} THEN None
  ELSE Inclusive(Joined(q.op, procTerm(q.first), procTerm(q.second)))

\* Mutant: months are counted from zero, as getUTCMonth does.
printMonth(t, p) ==
  LET da == makeArray(t) IN
  IF p = 6 THEN Bad
  ELSE [kind |-> "date",
        date |-> [date |-> [i \in 1..(IF p < 2 THEN p + 1 ELSE 3) |-> IF i = 2 THEN da[1] - 1 ELSE da[i - 1]],
                  time |-> [i \in 1..(IF p < 3 THEN 0 ELSE p - 2) |-> da[i + 2]]]]

\* print, down to field p; a fraction of a second is not understood by parse.
print(t, p) ==
  LET da == makeArray(t) IN
  IF p = 6 THEN Bad
  ELSE [kind |-> "date",
        date |-> [date |-> [i \in 1..(IF p < 2 THEN p + 1 ELSE 3) |-> da[i - 1]],
                  time |-> [i \in 1..(IF p < 3 THEN 0 ELSE p - 2) |-> da[i + 2]]]]

-----------------------------------------------------------------------------
Query(first, op, second) == [first |-> first, op |-> op, second |-> second]

Init == now \in Clocks /\ query = None /\ range = None

\* Something is written and parsed.
Ask(q) ==
  /\ query = None
  /\ query' = q /\ range' = parse(q)
  /\ UNCHANGED now

\* Also what print made of the present instant.
Next ==
  \/ \E s \in Terms \union {Bad, None} : Ask(Query(s, "", None))
  \/ \E s, t \in Paired \union {Bad, None}, op \in {"<", "->", "<>"} : Ask(Query(s, op, t))
  \/ \E p \in Field : Ask(Query(print(now, p), "", None))

Spec == Init /\ [][Next]_vars

-----------------------------------------------------------------------------
\* The types of the variables.
TypeOK ==
  /\ now \in Clocks
  /\ query # None => /\ query.op \in {"", "<", "->", "<>"}
                     /\ \A t \in {query.first, query.second} : t # None => t.kind \in {"word", "date", "amount", "bad"}
  /\ query = None => range = None
  /\ range # None => \A x \in {range.start, range.end} : x = None \/ x \in Int

IsAlone(kind) == query # None /\ query.op = "" /\ query.first # None /\ query.first.kind = kind

\* The years, months, weeks and days, numbered.
Index(unit, t) ==
  CASE unit = "year" -> YearOf(t)
    [] unit = "month" -> 12 * YearOf(t) + MonthOf(t)
    [] unit = "week" -> (DayOf(t) + 4) \div 7
    [] unit = "day" -> DayOf(t)

\* A range is what has In of its instants and not of those before and after it, but for one
\* that ends before the epoch, which has the epoch too.
Exactly(r, In(_)) ==
  /\ In(r.start) /\ ~In(r.start - 1)
  /\ IF r.end = 0 THEN In(-1) /\ ~In(0) ELSE In(r.end) /\ ~In(r.end + 1)

\* What the words mean: the whole year, month, week (from Sunday) or day of now, or the one
\* before it or after it, also where months and weeks run over the end of a year or of a
\* February (dra, 14395-14433).
RightPeriod ==
  (IsAlone("word") /\ query.first.word # "now") =>
    LET w == query.first.word
        unit == CASE w \in {"thisyear", "lastyear", "nextyear"} -> "year"
                  [] w \in {"thismonth", "lastmonth", "nextmonth"} -> "month"
                  [] w \in {"thisweek", "lastweek", "nextweek"} -> "week"
                  [] OTHER -> "day"
        k == Index(unit, now) + CASE w \in {"lastyear", "lastmonth", "lastweek", "yesterday"} -> -1
                                  [] w \in {"nextyear", "nextmonth", "nextweek", "tomorrow"} -> 1
                                  [] OTHER -> 0
        Whole(t) == Index(unit, t) = k
    IN  Exactly(range, Whole)

\* A date that exists stands for all the instants that agree with it as far as it is written,
\* a time without a date for one of today; and what print writes of an instant, down to a
\* field above the millisecond, is parsed to the instants that agree with it (14341-14349,
\* 14436-14450).
RightFields ==
  /\ IsAlone("date") =>
       LET dn == Fields(query.first.date)
           p == Precision(query.first.date)
           Agrees(t) == \A i \in 0..p : makeArray(t)[i] = dn[i]
       IN  makeArray(fromArray(dn)) = [i \in Field |-> IF i <= p THEN dn[i] ELSE IF i < 3 THEN 1 ELSE 0] =>
             Exactly(range, Agrees)
  /\ \A p \in 0..5 :
       (query # None /\ query = Query(print(now, p), "", None)) =>
         LET AsNow(t) == \A i \in 0..p : makeArray(t)[i] = makeArray(now)[i]
         IN  Exactly(range, AsNow)

\* The forms agree: an amount alone is that much around now, from that much before now to that
\* much after it; and now alone is a day around now, except at the epoch (14468-14496).
FormsAgree ==
  LET Now == [kind |-> "word", word |-> "now"]
      \* How the same is written that has this end of the range.
      Same(end) ==
        IF IsAlone("amount") /\ query.first.unit \in Units /\ query.first.n > 0
        THEN {Query(Now, "<>", query.first),
              IF end = "start" THEN Query(query.first, "->", Now) ELSE Query(Now, "->", query.first)}
        ELSE IF IsAlone("word") /\ query.first.word = "now" /\ now # 0 THEN {Query(Now, "<>", None)}
        ELSE {}
  IN  \A end \in {"start", "end"} : \A q \in Same(end) : range[end] = parse(q)[end]
=============================================================================
