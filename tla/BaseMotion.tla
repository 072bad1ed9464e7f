------------------------------ MODULE BaseMotion ------------------------------
(***************************************************************************)
(* base.js of a page: elements appear as they come into view, and a fixed  *)
(* header takes the ink of the chapter under it.  The browser compares the *)
(* view with the last frame's, queues an entry for every element that came *)
(* or went, and hands the entries over later; the reader scrolls meanwhile.*)
(* Browsers without an IntersectionObserver show everything at once and    *)
(* are left out.                                                           *)
(***************************************************************************)
EXTENDS Naturals, Sequences, FiniteSets

CONSTANTS Reveals,   \* the elements with data-reveal: [top, height]
          Chapters,  \* the tops of the chapters with data-ink, one below the other
          View,      \* height of the window, a multiple of 25
          Stops,     \* bound: where the reader may stop scrolling
          MaxInks    \* bound: a frame is drawn while the chapters of at most this many frames wait

Nowhere == 10000

\* The first chapter begins at the top of the page.
ASSUME MotionAssumption ==
  /\ View \in Nat /\ MaxInks \in Nat /\ Stops \subseteq 0 .. Nowhere - 1 /\ 0 \in Stops
  /\ Chapters \in Seq(Nat) /\ Chapters # <<>> /\ Chapters[1] = 0
  /\ \A c, d \in DOMAIN Chapters : c < d => Chapters[c] < Chapters[d]

VARIABLES offset,    \* how far the page is scrolled
          backed,    \* whether the reader ever scrolled back
          drawnAt,   \* where the page was at the last frame
          observed,  \* elements still observed
          was,       \* element |-> whether it was in view at the last frame
          entries,   \* entries of elements not handed over yet
          revealed,  \* elements that are-in
          net,       \* whether the safety net has run
          under,     \* chapters under the header at the last frame
          inks,      \* the chapters that came under the header, frame by frame, not handed over yet
          ink        \* the chapter whose ink the header has, or 0

motionVars == <<offset, backed, drawnAt, observed, was, entries, revealed, net, under, inks, ink>>

\* The browser and the two callbacks hold places, elements and chapters.
MotionTypeOK ==
  /\ offset \in Stops /\ drawnAt \in Stops \cup {Nowhere} /\ backed \in BOOLEAN /\ net \in BOOLEAN
  /\ observed \subseteq DOMAIN Reveals /\ revealed \subseteq DOMAIN Reveals
  /\ was \in [DOMAIN Reveals -> {"unknown", "out", "in"}]
  /\ entries \subseteq (DOMAIN Reveals) \X {"out", "in"}
  /\ under \subseteq DOMAIN Chapters /\ inks \in Seq(SUBSET DOMAIN Chapters)
  /\ ink \in 0 .. Len(Chapters)

MotionInit ==
  /\ offset = 0 /\ backed = FALSE /\ drawnAt = Nowhere /\ net = FALSE
  /\ observed = DOMAIN Reveals /\ revealed = {} /\ was = [e \in DOMAIN Reveals |-> "unknown"]
  /\ entries = {} /\ under = {} /\ inks = <<>> /\ ink = 0

-------------------------------------------------------------------------------

Bottom(e) == Reveals[e].top + Reveals[e].height

\* A tenth of the element is above the lowest 12 % of the window.
InView(e) ==
  LET above == IF Reveals[e].top > offset THEN Reveals[e].top ELSE offset
      floor == offset + View - (12 * View) \div 100
      below == IF Bottom(e) < floor THEN Bottom(e) ELSE floor IN
    below >= above /\ 10 * (below - above) >= Reveals[e].height
ViewOf(e) == IF InView(e) THEN "in" ELSE "out"

\* The chapter touches the highest 8 % of the window; the last chapter has no end.
UnderHeader(c) ==
  /\ Chapters[c] <= offset + (8 * View) \div 100
  /\ c = Len(Chapters) \/ Chapters[c + 1] >= offset

ScrollTo ==
  /\ offset' \in Stops \ {offset}
  /\ backed' = (backed \/ offset' < offset)
  /\ UNCHANGED <<drawnAt, observed, was, entries, revealed, net, under, inks, ink>>

\* What the browser does at a frame.
DrawFrame ==
  /\ Len(inks) <= MaxInks
  /\ drawnAt' = offset
  /\ was' = [e \in DOMAIN Reveals |-> IF e \in observed THEN ViewOf(e) ELSE was[e]]
  /\ entries' = entries \cup {<<e, ViewOf(e)>> : e \in {o \in observed : was[o] # ViewOf(o)}}
  /\ under' = {c \in DOMAIN Chapters : UnderHeader(c)}
  /\ inks' = IF under' \ under = {} THEN inks ELSE Append(inks, under' \ under)
  /\ UNCHANGED <<offset, backed, observed, revealed, net, ink>>

\* An entry that came into view shows its element and ends its observation.
Shows(batch) == {e \in DOMAIN Reveals : <<e, "in">> \in batch}
Unobserves_Always(batch) == {e \in DOMAIN Reveals : \E v \in {"in", "out"} : <<e, v>> \in batch}
Unobserves(batch) == Shows(batch)

\* Every chapter that came under the header sets its ink, frame by frame, in the order of the page.
LowestOf(some) == CHOOSE c \in some : \A d \in some : d <= c
InkAfter_First(came) == LowestOf(came[1])
InkAfter(came) == LowestOf(came[Len(came)])

\* The entries are handed to both callbacks.
Notify ==
  /\ entries # {} \/ inks # <<>>
  /\ revealed' = revealed \cup Shows(entries)
  /\ observed' = observed \ Unobserves(entries)
  /\ ink' = IF inks = <<>> THEN ink ELSE InkAfter(inks)
  /\ entries' = {} /\ inks' = <<>>
  /\ UNCHANGED <<offset, backed, drawnAt, was, net, under>>

\* 2.5 seconds after the page has loaded, what is in the window is shown.
SafetyNet ==
  /\ ~net /\ net' = TRUE
  /\ revealed' = revealed \cup {e \in DOMAIN Reveals : Reveals[e].top < offset + View /\ Bottom(e) > offset}
  /\ UNCHANGED <<offset, backed, drawnAt, observed, was, entries, under, inks, ink>>

MotionNext == ScrollTo \/ DrawFrame \/ Notify \/ SafetyNet

MotionSpec == MotionInit /\ [][MotionNext]_motionVars

-------------------------------------------------------------------------------

\* The frame of where the page is has been drawn and everything has been handed over.
AtRest == drawnAt = offset /\ entries = {} /\ inks = <<>>

\* However the reader scrolled while entries were on their way, once the page rests nothing of
\* which a tenth is above the lowest 12 % of the window is hidden.
InViewIsShown == AtRest => \A e \in DOMAIN Reveals : InView(e) => e \in revealed

\* A reader who never scrolled back sees the header in the ink of the lowest chapter under it.
InkFollows ==
  AtRest /\ ~backed => UnderHeader(ink) /\ \A c \in DOMAIN Chapters : UnderHeader(c) => c <= ink
===============================================================================
