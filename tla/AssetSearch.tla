------------------------------ MODULE AssetSearch ------------------------------
(***************************************************************************)
(* assets.mjs "<query>": every source is asked at once and given 45        *)
(* seconds; what comes back is filtered and freed of duplicates, the files *)
(* are fetched a few at a time for 30 seconds to see whether they load,    *)
(* and what is left is shown.                                              *)
(***************************************************************************)
EXTENDS Naturals, Sequences, FiniteSets, SequencesExt

CONSTANTS Sources,    \* the sources asked, in order
          Keys,       \* pictures, as keyOf tells them apart
          Checks,     \* files checked at the same time
          PerSource, Spares   \* pictures shown per source, and spares kept for the check

ASSUME SearchAssumption == Sources \in Seq(STRING)

Returned == 2    \* bound: the pictures of one source

\* What a source says of a picture: its width, which may be missing, and whether that is the width
\* of an original of which the file served is a rendition.
Items == {item \in [key : Keys, licensed : BOOLEAN, width : {"wide", "narrow", "unknown"}, rendition : BOOLEAN] :
            item.width = "unknown" => ~item.rendition}
\* Bound: a source says of an unlicensed picture that it is wide.
SourceAnswers == {<<>>} \cup {<<x>> : x \in {y \in Items : y.licensed}}
           \cup {<<x, y>> : x, y \in {z \in Items : z.licensed \/ (z.width = "wide" /\ ~z.rendition)}}
PairAnswers == {a \in SourceAnswers : Len(a) = 2 => a[1].key # a[2].key}

VARIABLES phase,     \* searching, checking or shown
          source,    \* of each source: the attempt it is at, or how it ended
          results,   \* of each source: place |-> its picture; a place is empty once the picture is dropped
          turn,      \* pictures taken up by the workers of mapLimit
          busy,      \* pictures being checked
          check      \* picture |-> what its check said

searchVars == <<phase, source, results, turn, busy, check>>

Slots == (DOMAIN Sources) \X (1 .. Returned)
Filled == {slot \in Slots : slot[2] \in DOMAIN results[slot[1]]}
Item(slot) == results[slot[1]][slot[2]]

\* Sources are running or have ended, and only pictures that came back are checked.
SearchTypeOK ==
  /\ phase \in {"searching", "checking", "shown"}
  /\ source \in [DOMAIN Sources -> {"first", "second", "answered", "failed"}]
  /\ \A slot \in Filled : Item(slot) \in Items
  /\ busy \subseteq Slots /\ DOMAIN check \subseteq Slots
  /\ \A slot \in DOMAIN check : check[slot] \in {"wide", "narrow", "unknown", "dead"}

SearchInit ==
  /\ phase = "searching"
  /\ source = [s \in DOMAIN Sources |-> "first"]
  /\ results = [s \in DOMAIN Sources |-> <<>>]
  /\ turn = {} /\ busy = {} /\ check = <<>>

-------------------------------------------------------------------------------

Asking(s) == source[s] \in {"first", "second"}

\* getJson: a lost connection or a gateway error is tried once more, everything else is final.
RetrySource(s) ==
  /\ phase = "searching" /\ source[s] = "first"
  /\ source' = [source EXCEPT ![s] = "second"]
  /\ UNCHANGED <<phase, results, turn, busy, check>>

\* The source fails, or its 45 seconds pass.
FailSource(s) ==
  /\ phase = "searching" /\ Asking(s)
  /\ source' = [source EXCEPT ![s] = "failed"]
  /\ UNCHANGED <<phase, results, turn, busy, check>>

AnswerSearch(s) ==
  /\ phase = "searching" /\ Asking(s)
  /\ source' = [source EXCEPT ![s] = "answered"]
  /\ \E answer \in PairAnswers : results' = [results EXCEPT ![s] = answer]
  /\ UNCHANGED <<phase, turn, busy, check>>

\* fits: a picture of unknown size is given the benefit of the doubt.
Fits(width) == width # "narrow"

\* One picture after the other, source after source: a picture seen before is dropped, and one
\* that does not fit counts as seen.
Earlier(s, n) == {slot \in Filled : slot[1] < s \/ (slot[1] = s /\ slot[2] < n)}
SeenPicture_InSource(s, n) == {results[s][m].key : m \in {m \in DOMAIN results[s] : m < n /\ results[s][m].licensed}}
SeenPicture(s, n) == {Item(slot).key : slot \in {x \in Earlier(s, n) : Item(x).licensed}}
Kept(s) == {n \in DOMAIN results[s] : /\ results[s][n].licensed
                                     /\ results[s][n].key \notin SeenPicture(s, n)
                                     /\ Fits(results[s][n].width)}
\* The first n places.
Cut(places, n) == {p \in places : Cardinality({q \in places : q <= p}) <= n}

\* All sources have ended: what they returned is filtered and cut, with a few spares.
Filter ==
  /\ phase = "searching" /\ \A s \in DOMAIN Sources : ~Asking(s)
  /\ results' = [s \in DOMAIN Sources |-> Restrict(results[s], Cut(Kept(s), PerSource + Spares))]
  /\ phase' = "checking"
  /\ UNCHANGED <<source, turn, busy, check>>

\* mapLimit: a worker that is free takes the next picture.
Take ==
  /\ phase = "checking" /\ Cardinality(busy) < Checks
  /\ LET left == Filled \ turn IN
       \E slot \in left :
         /\ \A other \in left : slot[1] < other[1] \/ (slot[1] = other[1] /\ slot[2] <= other[2])
         /\ turn' = turn \cup {slot} /\ busy' = busy \cup {slot}
  /\ UNCHANGED <<phase, source, results, check>>

\* probe, with its one retry: whether the file loads, and its true size if the head shows it.
Probe ==
  /\ phase = "checking"
  /\ \E slot \in busy, found \in {"wide", "narrow", "unknown", "dead"} :
       /\ check' = [s \in DOMAIN check \cup {slot} |-> IF s = slot THEN found ELSE check[s]]
       /\ busy' = busy \ {slot}
  /\ UNCHANGED <<phase, source, results, turn>>

\* The width known after the check: that of the file, unless the source gave the width of an
\* original of which the file is a rendition, or the head of the file does not show it.
WidthKnown(slot) ==
  IF Item(slot).rendition \/ check[slot] = "unknown" THEN Item(slot).width ELSE check[slot]

\* After the check a picture stays if its file loaded and it fits by the width known then.
Stays_Loaded(slot) == slot \in DOMAIN check /\ check[slot] # "dead"
Stays(slot) == slot \in DOMAIN check /\ check[slot] # "dead" /\ Fits(WidthKnown(slot))

\* Everything is checked, or 30 seconds have passed and what is not checked does not count.
Show ==
  /\ phase = "checking"
  /\ results' = [s \in DOMAIN Sources |->
       [n \in Cut({n \in DOMAIN results[s] : Stays(<<s, n>>)}, PerSource) |->
          [results[s][n] EXCEPT !.width = WidthKnown(<<s, n>>)]]]
  /\ phase' = "shown"
  /\ UNCHANGED <<source, turn, busy, check>>

SearchNext ==
  \/ \E s \in DOMAIN Sources : RetrySource(s) \/ FailSource(s) \/ AnswerSearch(s)
  \/ Filter \/ Take \/ Probe \/ Show

SearchSpec == SearchInit /\ [][SearchNext]_searchVars

-------------------------------------------------------------------------------

\* However late its file is, a picture that is shown has an allowed licence and a file that was
\* seen to load.  Too narrow it is neither by what its source says nor by its file, except that the
\* file may be a narrow rendition of an original its source calls wide.
ShownAreUsable ==
  phase = "shown" => \A slot \in Filled :
    /\ Item(slot).licensed /\ Item(slot).width # "narrow"
    /\ slot \in DOMAIN check /\ check[slot] # "dead"
    /\ check[slot] = "narrow" => Item(slot).rendition

\* No picture is shown twice, not even when two sources have it.
NoPictureTwice ==
  phase = "shown" => \A a, b \in Filled : Item(a).key = Item(b).key => a = b
===============================================================================
