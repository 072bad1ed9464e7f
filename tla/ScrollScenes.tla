----------------------------- MODULE ScrollScenes -----------------------------
(***************************************************************************)
(* The scroll scenes of a page and the script that judges them.            *)
(* assets/scenes/stage.js: Stage.init starts the scenes one after another; *)
(* gsap.matchMedia runs a scene's callback for the media that match, and   *)
(* when they change runs its cleanup and then the callback again.  A build *)
(* may throw, and takes the scenes after it along.  scripts/scenes.mjs     *)
(* visits the page on a desktop and on a phone and goes by the class each  *)
(* scene has and by the exceptions of the page.                            *)
(***************************************************************************)
EXTENDS Naturals, FiniteSets

CONSTANT Scenes    \* the scenes of the page are 1 .. Scenes
ASSUME ScenesAssumption == Scenes \in Nat

VARIABLES visit,    \* who has the page open: "reader", or "desktop" and "phone" of the script; "over"
          gsap,     \* GSAP and ScrollTrigger have loaded
          media,    \* the media queries that match
          plans,    \* scene |-> what a phone gets, and whether building it throws
          classes,  \* scene |-> its classes
          started,  \* how many scenes Stage.init has begun with
          thrown,   \* an exception reached the page's console
          problems, \* what the script holds against the page, as <<visit, what>>
          exitCode      \* the script's exit code, or 9 while it runs

sceneVars == <<visit, gsap, media, plans, classes, started, thrown, problems, exitCode>>

Media == {"motion", "phone"}
Plans == [phone : {"same", "rest"}, throws : BOOLEAN]
NoCode == 9

ScenesTypeOK ==
  /\ visit \in {"reader", "desktop", "phone", "over"}
  /\ gsap \in BOOLEAN /\ media \subseteq Media
  /\ plans \in [1 .. Scenes -> Plans]
  /\ classes \in [1 .. Scenes -> SUBSET {"is-live", "is-rest"}]
  /\ started \in 0 .. Scenes + 1 /\ thrown \in BOOLEAN
  /\ problems \subseteq {"desktop", "phone"} \X {"never", "rest", "console"}
  /\ exitCode \in {0, 1, NoCode}

\* The media of the script's two windows: Chrome has no preference about motion.
MediaOf == [desktop |-> {"motion"}, phone |-> Media]

\* A page as it loads; the scripts of a CDN may fail on any visit.
Loads(m) ==
  /\ gsap' \in BOOLEAN /\ media' = m
  /\ classes' = [s \in 1 .. Scenes |-> {}]
  /\ started' = 0 /\ thrown' = FALSE

ScenesInit ==
  /\ visit \in {"reader", "desktop"}
  /\ gsap \in BOOLEAN
  /\ media \in IF visit = "reader" THEN SUBSET Media ELSE {MediaOf.desktop}
  /\ plans \in [1 .. Scenes -> Plans]
  /\ classes = [s \in 1 .. Scenes |-> {}]
  /\ started = 0 /\ thrown = FALSE
  /\ problems = {} /\ exitCode = NoCode

-------------------------------------------------------------------------------

\* The class a scene's callback gives: at rest without motion or without a plan for a
\* phone, and otherwise live before it is built.  No callback runs when no query matches.
ClassGiven(s, m) ==
  IF m = {} THEN {}
  ELSE IF "motion" \notin m \/ ("phone" \in m /\ plans[s].phone = "rest") THEN {"is-rest"}
  ELSE {"is-live"}
Throws(s, m) == ClassGiven(s, m) = {"is-live"} /\ plans[s].throws

Loaded == started >= Scenes

\* Stage.init begins with the next scene; one that throws ends the loop.
StartScene ==
  LET s == started + 1 IN
  /\ visit # "over" /\ ~Loaded
  /\ classes' = [classes EXCEPT ![s] = IF gsap THEN ClassGiven(s, media) ELSE {"is-rest"}]
  /\ IF gsap /\ Throws(s, media)
       THEN started' = Scenes + 1 /\ thrown' = TRUE
       ELSE started' = s /\ thrown' = thrown
  /\ UNCHANGED <<visit, gsap, media, plans, problems, exitCode>>

\* The scenes gsap.matchMedia watches: those Stage.init got to.
Watched(s) == gsap /\ (classes[s] # {} \/ started = Scenes)

\* What a scene has after its cleanup and its callback for the new media.  The callback that
\* threw returned no cleanup; the classes its next run takes away are those of the other kind.
\* Mutant: the cleanup of a live scene leaves the class.
After_KeepsLive(s, m) == IF ClassGiven(s, m) # {} THEN ClassGiven(s, m) ELSE classes[s] \ {"is-rest"}
After(s, m) ==
  IF ClassGiven(s, m) # {} THEN ClassGiven(s, m)
  ELSE IF Throws(s, media) THEN classes[s]
  ELSE {}

\* A reader turns the phone, or asks the system for less motion.
MediaChange ==
  /\ visit = "reader" /\ Loaded
  /\ media' \in SUBSET Media \ {media}
  /\ classes' = [s \in 1 .. Scenes |-> IF Watched(s) THEN After(s, media') ELSE classes[s]]
  /\ thrown' = (thrown \/ \E s \in 1 .. Scenes : Watched(s) /\ Throws(s, media'))
  /\ UNCHANGED <<visit, gsap, plans, started, problems, exitCode>>

-------------------------------------------------------------------------------

\* What run(label) notes of the page it sees.
\* Mutant: only the classes count.
PageProblems_Classes ==
  {<<visit, "never">> : s \in {t \in 1 .. Scenes : classes[t] = {}}}
    \cup {<<visit, "rest">> : s \in {t \in 1 .. Scenes : visit = "desktop" /\ "is-rest" \in classes[t]}}
PageProblems == PageProblems_Classes \cup (IF thrown THEN {<<visit, "console">>} ELSE {})

\* The desktop has been photographed: the phone is next.
Photographed ==
  /\ visit = "desktop" /\ Loaded
  /\ problems' = problems \cup PageProblems
  /\ visit' = "phone" /\ Loads(MediaOf.phone)
  /\ UNCHANGED <<plans, exitCode>>

\* The phone has been photographed: the script prints its result.
Result ==
  /\ visit = "phone" /\ Loaded
  /\ problems' = problems \cup PageProblems
  /\ exitCode' = IF problems' = {} THEN 0 ELSE 1
  /\ visit' = "over"
  /\ UNCHANGED <<gsap, media, plans, classes, started, thrown>>

ScenesNext == StartScene \/ MediaChange \/ Photographed \/ Result

ScenesSpec == ScenesInit /\ [][ScenesNext]_sceneVars

-------------------------------------------------------------------------------

\* A scene whose build returned runs only while motion is allowed: whatever media changes a
\* reader makes, the cleanup takes the scene out of its scrubbed state (reduced motion).
MotionIsAsked == \A s \in 1 .. Scenes :
  "is-live" \in classes[s] => "motion" \in media \/ plans[s].throws

\* Exit code 0 means that every scene ran on the desktop and none of them threw on either
\* screen: a scene that throws looks live, and only the console tells.
ZeroMeansRan == exitCode = 0 =>
  \A s \in 1 .. Scenes : ~plans[s].throws
===============================================================================
