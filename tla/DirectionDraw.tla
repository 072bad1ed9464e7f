---------------------------- MODULE DirectionDraw ----------------------------
(***************************************************************************)
(* draw.mjs and lib/app-draw.mjs: a direction, or the style of an app      *)
(* screen, is dealt at random from what fits the brief and was not dealt   *)
(* recently; the sheet of the project is saved, and the draw enters the    *)
(* user's history.  A run may be killed while it saves either.             *)
(***************************************************************************)
EXTENDS Integers, Sequences, FiniteSets, SequencesExt

CONSTANTS Directions, Sectors,   \* Sectors: the directions each sector allows
          Styles,                \* of app screens
          HistoryKept,           \* entries the history keeps (24 in the code)
          Recent,                \* draws a direction stays recent (5)
          RecentApps             \* app draws a style stays recent (3)

ASSUME DrawAssumption == /\ IsFiniteSet(Directions) /\ Sectors \subseteq SUBSET Directions
                         /\ HistoryKept \in Nat \ {0} /\ Recent \in Nat \ {0} /\ RecentApps \in Nat \ {0}

VARIABLES hist,      \* the user's history, latest first
          sheet,     \* direction.json
          options,   \* a deal of options in progress: how many, the rest to pick from, the dealt
          rejected   \* history: directions redrawn away from this sheet

drawVars == <<hist, sheet, options, rejected>>

PageSheets == [kind : {"page"}, dealt : Directions, sector : Sectors, avoid : SUBSET Directions]
AppSheets == [kind : {"app"}, dealt : Styles]
NoSheet == [kind |-> "none"]
Torn == [kind |-> "torn"]    \* cut short: it does not parse, and draw.mjs stops at it
NoOptions == [want |-> 0]

\* The sheet and the history are of dealt directions and styles.
DrawTypeOK ==
  /\ Len(hist) <= HistoryKept
  /\ \A n \in DOMAIN hist : hist[n] \in [kind : {"page"}, dealt : Directions]
                                        \cup [kind : {"app"}, dealt : Styles]
  /\ sheet \in PageSheets \cup AppSheets \cup {NoSheet, Torn}
  /\ rejected \subseteq Directions
  /\ options # NoOptions => /\ options.pool \subseteq Directions /\ options.rest \subseteq options.pool
                            /\ options.out \in Seq(options.pool)

DrawInit == hist = <<>> /\ sheet = NoSheet /\ options = NoOptions /\ rejected = {}

-------------------------------------------------------------------------------

\* fresh: items not used recently, without ever emptying the pool.
Fresh(pool, recent) == IF pool \ recent = {} THEN pool ELSE pool \ recent

\* slice(0, n), which for a negative n leaves out the last entries.
FirstEntries(n) == SubSeq(hist, 1, IF n < 0 THEN Len(hist) + n ELSE IF n < Len(hist) THEN n ELSE Len(hist))
Dealt(entries, kind) == {entry.dealt : entry \in {e \in ToSet(entries) : e.kind = kind}}
AtMost(a, b) == IF a < b THEN a ELSE b

RecentDirections(n) == Dealt(FirstEntries(AtMost(Recent, n)), "page")
RecentStyles == LET apps == SelectSeq(hist, LAMBDA entry : entry.kind = "app") IN
                  {apps[n].dealt : n \in 1 .. AtMost(RecentApps, Len(apps))}

\* directionPool: what suits the sector and is not avoided, or else whatever is not avoided.
DirectionPool(sector, avoid) == IF sector \ avoid = {} THEN Directions \ avoid ELSE sector \ avoid

\* Mutant: as many draws are recent as the pool has directions.
Candidates_All(pool) == Fresh(pool, RecentDirections(Cardinality(pool)))
Candidates(pool) == Fresh(pool, RecentDirections(Cardinality(pool) - 1))

\* writeHist: a history that does not parse is read as empty.
Remember(kind, dealt) == SubSeq(<<[kind |-> kind, dealt |-> dealt]>> \o hist, 1,
                                AtMost(HistoryKept, Len(hist) + 1))

\* The sheet is saved, then the history; a kill leaves a torn sheet, no entry or a torn history.
Save(new, entered) ==
  \/ sheet' = new /\ hist' = IF entered THEN Remember(new.kind, new.dealt) ELSE hist
  \/ sheet' = Torn /\ UNCHANGED hist
  \/ sheet' = new /\ entered /\ hist' \in {hist, <<>>}

Able == sheet # Torn /\ options = NoOptions

Draw(sector) ==
  /\ Able
  /\ \E dealt \in Candidates(DirectionPool(sector, {})) :
       Save([kind |-> "page", dealt |-> dealt, sector |-> sector, avoid |-> {}], TRUE)
  /\ rejected' = {}
  /\ UNCHANGED options

\* --direction: the direction the user names, whatever the pool and the history.
DrawChosen(sector, dealt) ==
  /\ Able
  /\ Save([kind |-> "page", dealt |-> dealt, sector |-> sector, avoid |-> {}], TRUE)
  /\ rejected' = {}
  /\ UNCHANGED options

\* --redraw direction: the directions left behind are avoided, all of them; with none left the
\* script fails before it writes.
Avoided_Last(page) == {page.dealt}
Avoided(page) == page.avoid \cup {page.dealt}
RedrawDirection ==
  /\ Able /\ sheet.kind = "page"
  /\ LET avoid == Avoided(sheet) IN
       \E dealt \in Candidates(DirectionPool(sheet.sector, avoid)) :
         Save([sheet EXCEPT !.dealt = dealt, !.avoid = avoid], TRUE)
  /\ rejected' = rejected \cup {sheet.dealt}
  /\ UNCHANGED options

\* draw.mjs --app, and its --redraw style, which is not entered in the history.
DrawApp ==
  /\ Able
  /\ \E style \in Fresh(Styles, RecentStyles) : Save([kind |-> "app", dealt |-> style], TRUE)
  /\ rejected' = {}
  /\ UNCHANGED options
RedrawStyle ==
  /\ Able /\ sheet.kind = "app"
  /\ LET others == Styles \ {sheet.dealt} IN
       \E style \in Fresh(IF others = {} THEN Styles ELSE others, RecentStyles) :
         Save([kind |-> "app", dealt |-> style], FALSE)
  /\ UNCHANGED <<options, rejected>>

\* dealOptions: what is not recent first, then the rest of the pool; nothing is written.
DealOptions(sector, n) ==
  /\ Able
  /\ LET pool == DirectionPool(sector, {}) IN
       options' = [want |-> n, pool |-> pool, out |-> <<>>,
                   rest |-> Fresh(pool, RecentDirections(Cardinality(pool) - n))]
  /\ UNCHANGED <<hist, sheet, rejected>>

\* Mutant: the rest is not filled up.
Rest_Once == options.rest
Rest == IF options.rest = {} THEN options.pool \ ToSet(options.out) ELSE options.rest
MoreOptions == Len(options.out) < options.want /\ Len(options.out) < Cardinality(options.pool)
PickOption ==
  /\ options # NoOptions /\ MoreOptions
  /\ \E d \in Rest : options' = [options EXCEPT !.out = Append(@, d), !.rest = Rest \ {d}]
  /\ UNCHANGED <<hist, sheet, rejected>>
ShowOptions ==
  /\ options # NoOptions /\ (~MoreOptions \/ Rest = {})
  /\ options' = NoOptions
  /\ UNCHANGED <<hist, sheet, rejected>>

\* The user removes a sheet the scripts cannot read, or starts another project.
RemoveSheet ==
  /\ options = NoOptions
  /\ sheet' = NoSheet /\ rejected' = {}
  /\ UNCHANGED <<hist, options>>

DrawNext ==
  \/ \E sector \in Sectors : \/ Draw(sector)
                             \/ \E dealt \in Directions : DrawChosen(sector, dealt)
                             \/ \E n \in 2 .. 3 : DealOptions(sector, n)
  \/ RedrawDirection \/ DrawApp \/ RedrawStyle \/ PickOption \/ ShowOptions \/ RemoveSheet

DrawSpec == DrawInit /\ [][DrawNext]_drawVars

-------------------------------------------------------------------------------

\* Consecutive projects do not look alike: a dealt direction differs from that of the draw just
\* before, if the pool has another.
NotTwiceInARow ==
  [][\A sector \in Sectors :
       LET last == Dealt(FirstEntries(1), "page") IN
         Draw(sector) /\ sheet'.kind = "page" /\ sheet'.dealt \in last =>
           DirectionPool(sector, {}) = last]_drawVars

\* A direction the user has redrawn away does not come back to the sheet, however often it is redrawn.
RejectedStaysAway == sheet.kind = "page" => sheet.dealt \notin rejected

\* Options that are shown are distinct, and as many as were asked for or the pool has, even
\* when nearly all of it was dealt recently.
OptionsSuffice ==
  options # NoOptions =>
    /\ IsInjective(options.out)
    /\ Rest = {} => ~MoreOptions
===============================================================================
