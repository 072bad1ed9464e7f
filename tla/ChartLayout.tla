----------------------------- MODULE ChartLayout -----------------------------
(***************************************************************************)
(* charts.js: where a chart puts its texts.  Annotation labels are placed  *)
(* in rows above the plot by a bounded backtracking search (lane), which   *)
(* is modelled step by step; the ticks of the value axis, the labels of    *)
(* the x axis and the heads of a row of days are computed at once.         *)
(* Left out: measuring (a text has a width), drawing, and the place of the *)
(* labels inside the plot.                                                 *)
(***************************************************************************)
EXTENDS Integers, Sequences, FiniteSets, SequencesExt

CONSTANTS Notes,      \* the lists of annotations a chart may be given
          Width,      \* of the chart
          Rows,       \* of labels above the plot (3 in the code)
          MaxSteps,   \* of one search (20000)
          Bounds,     \* smallest and largest values of a chart, in hundredths
          Spans, Lengths, Starts, ClockSteps, \* of x axes: pixels, labels; minutes of clock labels
          Days        \* most days of a row

VARIABLES chart,    \* what is laid out
          attempt,  \* of the search: full labels, with short forms, with drops
          laid,     \* the places of the first labels, as indices of their options
          next,     \* the option to try for the label after them
          steps, cut, \* of this attempt; whether an attempt was cut off
          done

\* A note is a caption at a fixed place, spans x to x1, or marks x, most with a leader line there;
\* short = 0: no short form.
Annotations ==
  [kind : {"fixed", "span", "mark", "peak"}, x : Int, x1 : Int, width : Nat, short : Nat, leader : BOOLEAN]

\* The powers of ten in ticks cover these ranges, in hundredths.  A plot is 70 pixels wide or
\* more, since frame makes a chart of 240 and the labels of a value axis take less than 170.
InRange(d) == 40 <= d /\ d <= 400000
ASSUME ChartAssumption ==
  /\ Notes \subseteq Seq(Annotations) /\ Width \in Nat /\ Rows \in Nat /\ MaxSteps \in Nat \ {0}
  /\ Bounds \subseteq Int /\ \A a, b \in Bounds : a < b => InRange(b - a)
  /\ Spans \subseteq Nat /\ \A span \in Spans : span >= 70
  /\ Lengths \subseteq Nat \ {0} /\ Starts \subseteq Nat /\ ClockSteps \subseteq Nat \ {0} /\ Days \in Nat

chartVars == <<chart, attempt, laid, next, steps, cut, done>>

Gap == 6          \* between two labels of a row
Clearance == 3    \* between a label and the leader line of another
Clock == 5        \* characters of a clock label
Lesser(a, b) == IF a < b THEN a ELSE b
Greater(a, b) == IF a < b THEN b ELSE a

Charts ==
  [kind : {"notes"}, items : Notes]
  \cup [kind : {"axis"}, min : Bounds, max : Bounds]
  \cup [kind : {"labels"}, n : Lengths, span : Spans, start : Starts, step : ClockSteps \cup {0}]
  \cup {c \in [kind : {"days"}, n : 1 .. Days, k : 1 .. Days, today : 0 .. Days] : c.today <= c.n}

\* A search stands at some option of some label.
ChartTypeOK ==
  /\ chart \in Charts
  /\ attempt \in 1 .. 3 /\ steps \in 1 .. MaxSteps
  /\ cut \in BOOLEAN /\ done \in BOOLEAN
  /\ chart.kind = "notes" => Len(laid) <= Len(chart.items)

ChartInit ==
  /\ chart \in {c \in Charts : c.kind = "axis" => c.min <= c.max}
  /\ attempt = 1 /\ laid = <<>> /\ next = 1 /\ steps = 1 /\ cut = FALSE
  /\ done = (chart.kind # "notes")

-------------------------------------------------------------------------------

\* Fixed captions, spans, markers, each from left to right; the sort is stable.
Rank(it) == CASE it.kind = "fixed" -> 0 [] it.kind = "span" -> 1 [] OTHER -> 2
SortsBefore(items, n, m) ==
  LET a == items[n] b == items[m] IN
    \/ Rank(a) < Rank(b)
    \/ Rank(a) = Rank(b) /\ (a.x < b.x \/ (a.x = b.x /\ n < m))
Ahead(items, n) == {m \in DOMAIN items : SortsBefore(items, m, n)}
Order(items) ==
  [n \in DOMAIN items |-> items[CHOOSE m \in DOMAIN items : Cardinality(Ahead(items, m)) = n - 1]]

Lefts(it, width) ==
  CASE it.kind = "fixed" -> <<it.x>>
    [] it.kind = "span"  -> <<(it.x + it.x1 - width) \div 2, it.x, it.x1 - width>>
    [] OTHER             -> <<it.x + 4, it.x - 4 - width>>

\* The places of one text: the rows from the plot upwards, in each the right side first.
PlacesOf(it, width, isShort) ==
  LET lefts == Lefts(it, width) IN
    [n \in 1 .. Rows * Len(lefts) |->
       LET x0 == lefts[((n - 1) % Len(lefts)) + 1] IN
         [row |-> (n - 1) \div Len(lefts) + 1, x0 |-> x0, x1 |-> x0 + width,
          leader |-> it.leader, at |-> it.x, isShort |-> isShort, dropped |-> FALSE]]
Options(it) == PlacesOf(it, it.width, FALSE) \o (IF it.short = 0 THEN <<>> ELSE PlacesOf(it, it.short, TRUE))

\* An option outside the chart is none: the search passes over it.
Inside(p) == p.x0 >= 0 /\ p.x1 <= Width

\* Dropped: the index after the last option.
Dropping(it) == [dropped |-> TRUE, isShort |-> FALSE]
Place(it, n) == IF n > Len(Options(it)) THEN Dropping(it) ELSE Options(it)[n]

Ordered == Order(chart.items)
Placed == [n \in DOMAIN laid |-> Place(Ordered[n], laid[n])]

\* The leader of p runs from its row down to the plot.
Crosses(p, c) == p.leader /\ p.row >= c.row /\ p.at > c.x0 - Clearance /\ p.at < c.x1 + Clearance
Overlaps(p, c) == p.row = c.row /\ c.x0 < p.x1 + Gap /\ c.x1 > p.x0 - Gap

\* Mutant: only the lines of the labels placed before are kept clear of.
IsFree_Before(c, placed) == \A n \in DOMAIN placed : placed[n].dropped \/ ~(Overlaps(placed[n], c) \/ Crosses(placed[n], c))
IsFree(c, placed) ==
  \A n \in DOMAIN placed : LET p == placed[n] IN p.dropped \/ ~(Overlaps(p, c) \/ Crosses(p, c) \/ Crosses(c, p))

AllowShort == attempt > 1
AllowDrop == attempt > 2

\* One option of the label after the laid: it is taken if it is free, and the search goes on with
\* the next label unless it has run too long.
TryOption ==
  /\ ~done /\ Len(laid) < Len(Ordered)
  /\ LET c == Options(Ordered[Len(laid) + 1]) IN
       /\ next <= Len(c)
       /\ IF Inside(c[next]) /\ (~c[next].isShort \/ AllowShort) /\ IsFree(c[next], Placed)
          THEN IF steps + 1 > MaxSteps THEN next' = next + 1 /\ cut' = TRUE /\ UNCHANGED <<laid, steps>>
               ELSE laid' = Append(laid, next) /\ next' = 1 /\ steps' = steps + 1 /\ UNCHANGED cut
          ELSE next' = next + 1 /\ UNCHANGED <<laid, steps, cut>>
  /\ UNCHANGED <<chart, attempt, done>>

\* No option is left: the label is dropped, if this attempt may drop any and is not cut off.
AfterOptions == ~done /\ Len(laid) < Len(Ordered) /\ next > Len(Options(Ordered[Len(laid) + 1]))
AtDrop == AllowDrop /\ next = Len(Options(Ordered[Len(laid) + 1])) + 1
MayDrop == AtDrop /\ steps < MaxSteps
DropLabel ==
  /\ AfterOptions /\ MayDrop
  /\ laid' = Append(laid, next) /\ next' = 1 /\ steps' = steps + 1
  /\ UNCHANGED <<chart, attempt, cut, done>>

\* The label before gets its next option; with no label before, the next attempt begins.
Backtrack ==
  /\ AfterOptions /\ ~MayDrop /\ laid # <<>>
  /\ laid' = Front(laid) /\ next' = Last(laid) + 1 /\ cut' = (cut \/ AtDrop)
  /\ UNCHANGED <<chart, attempt, steps, done>>
\* Mutant: short forms are dropped before they are tried.
NextAttempt_Skips == attempt + 2
NextAttempt == attempt + 1
GiveUp ==
  /\ AfterOptions /\ ~MayDrop /\ laid = <<>>
  /\ IF attempt < 3 THEN attempt' = Lesser(3, NextAttempt) /\ next' = 1 /\ steps' = 1 /\ UNCHANGED done
     ELSE done' = TRUE /\ UNCHANGED <<attempt, next, steps>>
  /\ cut' = (cut \/ AtDrop)
  /\ UNCHANGED <<chart, laid>>

Found ==
  /\ ~done /\ Len(laid) = Len(Ordered)
  /\ done' = TRUE
  /\ UNCHANGED <<chart, attempt, laid, next, steps, cut>>

ChartNext == TryOption \/ DropLabel \/ Backtrack \/ GiveUp \/ Found
ChartSpec == ChartInit /\ [][ChartNext]_chartVars

-------------------------------------------------------------------------------

\* ticks: round steps of 1, 2, 2.5, 5 or 10 times a power of ten; one line more if the top of the
\* grid would be the largest value.
PowersOfTen == {10, 100, 1000, 10000}
LeastOf(S) == CHOOSE x \in S : \A y \in S : x <= y
MostOf(S) == CHOOSE x \in S : \A y \in S : x >= y
CeilDiv(a, b) == -((-a) \div b)

Top(min, max) == IF max = min THEN min + 100 ELSE max
TickStep(min, max) ==
  LET mag == MostOf({p \in PowersOfTen : 4 * p <= max - min})
  IN LeastOf({s \in {mag, 2 * mag, (5 * mag) \div 2, 5 * mag, 10 * mag} : 4 * s >= max - min})
\* Mutant: the largest value may lie on the last line.
HighTick_Ceil(max, step) == CeilDiv(max, step) * step
HighTick(max, step) == IF CeilDiv(max, step) * step <= max THEN CeilDiv(max, step) * step + step
                       ELSE CeilDiv(max, step) * step
Ticks(min, max) ==
  LET step == TickStep(min, Top(min, max))
      lo   == (min \div step) * step
  IN [lo |-> lo, step |-> step, lines |-> (HighTick(Top(min, max), step) - lo) \div step + 1]

\* xPicks, for n labels: every k-th from the s-th on, counted from 0.
Cap(span) == Greater(2, Lesser(8, span \div (Clock * 7 + 18)))
IsClock(c) == c.step > 0
Minute(c, i) == c.start + i * c.step
FirstOn(c, m) == {i \in 0 .. c.n - 1 : Minute(c, i) % m = 0}
StartAt(c, k) ==
  IF ~IsClock(c) THEN 0
  ELSE IF FirstOn(c, Greater(60, k * c.step)) # {} THEN LeastOf(FirstOn(c, Greater(60, k * c.step)))
  ELSE IF FirstOn(c, 60) # {} THEN LeastOf(FirstOn(c, 60)) ELSE 0
WholeStep(c, k) ==
  LET m == k * c.step IN
    ~IsClock(c) \/ IF m >= 60 THEN m \in {60, 120, 180, 240, 360, 720} ELSE 60 % m = 0

\* Mutant: the label the step starts from is not counted.
PickCount_Steps(c, k) == (c.n - 1 - StartAt(c, k)) \div k
PickCount(c, k) == (c.n - 1 - StartAt(c, k)) \div k + 1

\* The least step whose labels are few enough, or the least that lands on the last label if that
\* gives enough of them.
PickStep(c) ==
  LET cap   == Cap(c.span)
      ks    == {k \in 1 .. c.n - 1 : WholeStep(c, k) /\ PickCount(c, k) <= cap}
      lands == {k \in ks : (c.n - 1 - StartAt(c, k)) % k = 0}
  IN IF lands # {} /\ PickCount(c, LeastOf(lands)) >= Greater(3, CeilDiv(cap * 6, 10)) THEN LeastOf(lands)
     ELSE IF ks # {} THEN LeastOf(ks) ELSE c.n - 1
Picks(c) ==
  IF c.n <= Cap(c.span) THEN 0 .. c.n - 1
  ELSE LET ks == {k \in 1 .. c.n - 1 : WholeStep(c, k) /\ PickCount(c, k) <= Cap(c.span)}
           s  == IF ks = {} THEN 0 ELSE StartAt(c, PickStep(c))
       IN {i \in s .. c.n - 1 : (i - s) % PickStep(c) = 0}

\* dayHeads: every k-th day, and today (0: none) without its neighbours.
Heads_All(c) == {i \in 1 .. c.n : i = c.today \/ (i - 1) % c.k = 0}
Heads(c) ==
  {i \in 1 .. c.n : \/ i = c.today
                    \/ /\ (i - 1) % c.k = 0
                       /\ ~(c.today # 0 /\ c.k > 1 /\ i - c.today < c.k /\ c.today - i < c.k)}

-------------------------------------------------------------------------------

\* "Labels never collide": in the layout that is found no two labels of a row come close to each
\* other, and no leader line runs through another's label, whichever was placed first.
LabelsClear ==
  done /\ chart.kind = "notes" =>
    \A n, m \in DOMAIN Placed :
      LET p == Placed[n] c == Placed[m] IN
        n = m \/ p.dropped \/ c.dropped \/
          /\ p.row = c.row => p.x1 + Gap <= c.x0 \/ c.x1 + Gap <= p.x0
          /\ p.leader /\ p.row >= c.row => p.at <= c.x0 - Clearance \/ p.at >= c.x1 + Clearance

\* The layouts of all labels, found by looking at every combination of places.
Layouts(shorts) ==
  {f \in [DOMAIN Ordered -> 1 .. 6 * Rows] :
     \A n \in DOMAIN f :
       /\ f[n] <= Len(Options(Ordered[n])) /\ Inside(Place(Ordered[n], f[n]))
       /\ shorts \/ ~Place(Ordered[n], f[n]).isShort
       /\ IsFree(Place(Ordered[n], f[n]), [m \in 1 .. n - 1 |-> Place(Ordered[m], f[m])])}

\* A label is shortened only if there is no layout of the full ones, and dropped only if there is
\* none at all, unless a search was cut off: the backtracking misses no layout.
DroppedOnlyIfNoRoom ==
  done /\ chart.kind = "notes" /\ ~cut =>
    /\ Len(laid) < Len(Ordered) \/ (\E n \in DOMAIN Placed : Placed[n].dropped) => Layouts(TRUE) = {}
    /\ (\E n \in DOMAIN Placed : Placed[n].isShort) => Layouts(FALSE) = {}

\* The lines of the value axis enclose the values, the top one above the largest, and are few.
TicksCover ==
  chart.kind = "axis" =>
    LET t == Ticks(chart.min, chart.max) IN
      /\ t.lo <= chart.min /\ chart.min < t.lo + t.step
      /\ t.lo + (t.lines - 1) * t.step > chart.max
      /\ t.lines \in 2 .. 7

\* Pixels between two picked labels, times n - 1, and the width of a label.
Apart(c, i, j) == (j - i) * c.span
LabelWidth == Clock * 7

\* The labels of an x axis are as few as fit, and on an axis that is labelled from its first label
\* on they keep clear of each other.
PicksFit ==
  chart.kind = "labels" =>
    /\ Cardinality(Picks(chart)) \in 1 .. Cap(chart.span)
    /\ 0 \in Picks(chart) =>
         \A i, j \in Picks(chart) : i < j => Apart(chart, i, j) >= LabelWidth * (chart.n - 1)

\* No two day heads touch, and today's is always there.
HeadsApart ==
  chart.kind = "days" =>
    /\ chart.today # 0 => chart.today \in Heads(chart)
    /\ \A i, j \in Heads(chart) : i < j => j - i >= chart.k
===============================================================================
