----------------------------- MODULE AssetSources -----------------------------
(***************************************************************************)
(* How one source of assets.mjs is asked.  Openverse is asked for large    *)
(* pictures first, and once more if they are too few.  The museums and the *)
(* film libraries return a list, and the objects on it are fetched a few   *)
(* at a time.  An item of the film archive holds several files; the copy   *)
(* of the first film nearest to the size wanted is taken.                  *)
(***************************************************************************)
EXTENDS Naturals, Sequences, FiniteSets, SequencesExt

CONSTANTS SourceIds,     \* what a source may return
          FineIds,       \* those wide enough, or on the subject
          Enough,        \* wide pictures that make the second question unnecessary
          MaxRows,       \* rows of a list that are fetched
          Fetches,       \* objects fetched at the same time
          ArchiveItems,  \* sequences of files of the archive: [film, original, playable, side]
          Res            \* the size wanted

Infinity == 100000    \* larger than any picture or clip
\* The files of an item come in an order, each with its size, 0 if it is not known.
ASSUME SourcesAssumption ==
  /\ MaxRows \in Nat /\ Res \in 0 .. Infinity - 1
  /\ \A files \in ArchiveItems : DOMAIN files \subseteq Nat /\ \A n \in DOMAIN files : files[n].side \in 0 .. Infinity - 1

Outlets == {"openverse", "museum", "archive"}

VARIABLES outlet,    \* the source asked
          item,      \* the files of every item of the archive
          asking,    \* where its search is
          rows,      \* the ids it returned, in its order
          nextRow,   \* rows taken up by mapLimit
          inHand,    \* rows being fetched
          out,       \* row |-> what the fetch gave
          shownIds   \* place |-> the id shown there; a place is empty if its row is dropped

sourceVars == <<outlet, item, asking, rows, nextRow, inHand, out, shownIds>>

Lists(n) == UNION {{l \in [1 .. k -> SourceIds] : IsInjective(l)} : k \in 0 .. n}

\* The search of a source goes forward and holds ids.
SourcesTypeOK ==
  /\ outlet \in Outlets /\ item \in ArchiveItems
  /\ asking \in {"first", "rest", "objects", "ended", "failed"}
  /\ rows \in Seq(SourceIds) /\ DOMAIN shownIds \subseteq 1 .. 2 * MaxRows
  /\ \A k \in DOMAIN shownIds : shownIds[k] \in SourceIds
  /\ nextRow \in 0 .. Len(rows) /\ inHand \subseteq 1 .. nextRow
  /\ out \in Seq({"missing", "null", "object"})

SourcesInit ==
  /\ outlet \in Outlets /\ item \in ArchiveItems
  /\ asking = "first" /\ rows = <<>> /\ nextRow = 0 /\ inHand = {} /\ out = <<>> /\ shownIds = <<>>

-------------------------------------------------------------------------------

\* The files of an archive item: the first original's film and what is named like it.
Originals(files) == {n \in DOMAIN files : files[n].original}
FirstFilm(files) == files[CHOOSE n \in Originals(files) : \A m \in Originals(files) : n <= m].film
Family_All(files) == ToSet(files)
Family(files) ==
  IF Originals(files) = {} THEN ToSet(files)
  ELSE {f \in ToSet(files) : IsPrefix(FirstFilm(files), f.film)}
Renditions(files) == {f \in Family(files) : f.playable}

\* A rendition of unknown size is larger than any other.
Side_Zero(f) == f.side
Side(f) == IF f.side = 0 THEN Infinity ELSE f.side

\* The largest that is at most the size wanted; if all are larger, the smallest.
\* Of two as large either may be taken (the code takes the lighter).
PickRendition(files) ==
  LET fit == {f \in Renditions(files) : Side(f) <= Res} IN
    IF fit # {} THEN CHOOSE f \in fit : \A g \in fit : Side(g) <= Side(f)
    ELSE CHOOSE f \in Renditions(files) : \A g \in Renditions(files) : Side(f) <= Side(g)

-------------------------------------------------------------------------------

\* The question fails; the source shows nothing.
FailFirst ==
  /\ asking = "first" /\ asking' = "failed"
  /\ UNCHANGED <<outlet, item, rows, nextRow, inHand, out, shownIds>>

Wide(list) == {k \in DOMAIN list : list[k] \in FineIds}

\* Openverse answers the question for large pictures; with enough of them that is all.
AnswerLarge ==
  /\ asking = "first" /\ outlet = "openverse"
  /\ rows' \in Lists(MaxRows)
  /\ IF Cardinality(Wide(rows')) < Enough
     THEN asking' = "rest" /\ UNCHANGED shownIds
     ELSE asking' = "ended" /\ shownIds' = rows'
  /\ UNCHANGED <<outlet, item, nextRow, inHand, out>>

\* The other pictures fill up, without those that are there; if the question fails nothing is lost.
FilledUp(rest, new) ==
  [p \in DOMAIN rows \cup {Len(rows) + k : k \in new} |-> IF p \in DOMAIN rows THEN rows[p] ELSE rest[p - Len(rows)]]
Fill_All(rest) == FilledUp(rest, DOMAIN rest)
Fill(rest) == FilledUp(rest, {k \in DOMAIN rest : rest[k] \notin ToSet(rows)})
AnswerRest ==
  /\ asking = "rest" /\ asking' = "ended"
  /\ shownIds' \in {rows} \cup {Fill(rest) : rest \in Lists(MaxRows)}
  /\ UNCHANGED <<outlet, item, rows, nextRow, inHand, out>>

\* A list is cut, after the rows without an allowed licence or off the subject are dropped.
AnswerList ==
  /\ asking = "first" /\ outlet # "openverse"
  /\ rows' \in Lists(MaxRows)
  /\ out' = [k \in DOMAIN rows' |-> "missing"]
  /\ asking' = "objects"
  /\ UNCHANGED <<outlet, item, nextRow, inHand, shownIds>>

\* mapLimit: a free worker takes the next row.
TakeRow ==
  /\ asking = "objects" /\ Cardinality(inHand) < Fetches /\ nextRow < Len(rows)
  /\ nextRow' = nextRow + 1 /\ inHand' = inHand \cup {nextRow + 1}
  /\ UNCHANGED <<outlet, item, asking, rows, out, shownIds>>

\* The answer goes to the place of its row.
Put_Next(k, answer) ==
  [out EXCEPT ![CHOOSE j \in DOMAIN out : out[j] = "missing" /\ \A i \in 1 .. j - 1 : out[i] # "missing"] = answer]
Put(k, answer) == [out EXCEPT ![k] = answer]

\* An object comes and is wanted, or it is off the subject, has no file that plays or does not come.
Fetch ==
  /\ \E k \in inHand, answer \in {"null", "object"} :
       /\ answer = "object" /\ outlet = "archive" => Renditions(item) # {}
       /\ answer = "object" /\ outlet = "museum" => rows[k] \in FineIds
       /\ out' = Put(k, answer)
       /\ inHand' = inHand \ {k}
  /\ UNCHANGED <<outlet, item, asking, rows, nextRow, shownIds>>

\* Everything has come: the objects wanted, in the order of the list.
EndObjects ==
  /\ asking = "objects" /\ nextRow = Len(rows) /\ inHand = {}
  /\ shownIds' = Restrict(rows, {k \in DOMAIN rows : out[k] = "object"})
  /\ asking' = "ended"
  /\ UNCHANGED <<outlet, item, rows, nextRow, inHand, out>>

SourcesNext ==
  FailFirst \/ AnswerLarge \/ AnswerRest \/ AnswerList \/ TakeRow \/ Fetch \/ EndObjects

SourcesSpec == SourcesInit /\ [][SourcesNext]_sourceVars

-------------------------------------------------------------------------------

\* The second answer of Openverse repeats much of the first; still no picture is shown twice.
NoRowTwice == IsInjective(shownIds)

\* Objects come in any order and some do not come; a museum's object that is shown is the one
\* whose answer was wanted, not that of a neighbour.
AnswersAtTheirRows ==
  asking = "ended" /\ outlet = "museum" => \A k \in DOMAIN shownIds : shownIds[k] \in FineIds

\* What plays of an item is a copy of its first film, unless the name of another film of the item
\* begins with the name of the first.
FirstFilmPlays ==
  LET films == {f.film : f \in ToSet(item)}
      first == FirstFilm(item) IN
    outlet = "archive" /\ asking = "ended" /\ DOMAIN shownIds # {} /\ Originals(item) # {}
      /\ (\A film \in films : IsPrefix(first, film) => film = first)
    => PickRendition(item).film = first

\* A clip of unknown or too large a size is taken only if no clip of the film is known to fit,
\* and one of unknown size only if no size is known.
FitsIfAnyFits ==
  outlet = "archive" /\ asking = "ended" /\ DOMAIN shownIds # {} =>
    LET pick == PickRendition(item) IN
      \/ pick.side \in 1 .. Res
      \/ \A f \in Renditions(item) : f.side \notin 1 .. Res /\ (pick.side = 0 => f.side = 0)
===============================================================================
