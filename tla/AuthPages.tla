------------------------------- MODULE AuthPages -------------------------------
(***************************************************************************)
(* The hosted pages of backend/src/pages.ts in one browser tab: the        *)
(* consent page, whose three buttons share the pending flag and wait for   *)
(* the client's metadata, and the form pages, of which the login page also *)
(* resumes a session of the browser by itself.  Answers arrive in any      *)
(* order, fail, or are lost after they took effect; a page that has begun  *)
(* to leave still runs until the browser replaces it.                      *)
(***************************************************************************)
EXTENDS Naturals, Sequences

VARIABLES path,      \* the page shown, or "none"
          query,     \* the sign-in continuation that readOAuthQuery found
          badLink,   \* the page was opened by a link with an error parameter
          flight,    \* the requests under way
          verified, pending,  \* of the consent page
          working,   \* the submit button is disabled
          leaving,   \* where location.assign has sent the tab
          session    \* the browser is signed in at the issuer

tab == <<path, query, badLink>>
pageVars == <<tab, flight, verified, pending, working, leaving, session>>

Forms == {"login", "register", "reset", "verify"}
Pages == Forms \cup {"consent"}
\* The callback of a continuation: one of the program, a hosted page, or another address.
Queries == {"none", "registered", "hosted", "odd", "ambiguous"}
Decisions == {"accept", "deny"}
PageRequests == Decisions \cup {"metadata", "sign-out", "submit", "continue", "get-session", "resume"}
Destinations == Pages \cup {"authorize", "callback", "foreign"}

PagesTypeOK ==
  /\ path \in Pages \cup {"none"}
  /\ query \in Queries
  /\ flight \subseteq PageRequests
  /\ {badLink, verified, pending, working, session} \subseteq BOOLEAN
  /\ leaving \in Destinations \cup {"stay", "switched"}

PagesInit ==
  /\ path = "none" /\ query = "none" /\ badLink = FALSE
  /\ flight = {} /\ verified = FALSE /\ pending = FALSE /\ working = FALSE
  /\ leaving = "stay" /\ session = FALSE

-------------------------------------------------------------------------------

\* The search of a URL: how often it wraps a continuation, and the continuation of a
\* direct authorization request.
ReadOAuthQuery(wrapped, direct) ==
  IF Len(wrapped) > 1 \/ (Len(wrapped) = 1 /\ direct # "none") THEN "ambiguous"
  ELSE IF Len(wrapped) = 1 THEN wrapped[1]
  ELSE direct

\* Mutant: the links of a page lose the continuation.
Continued_Dropped(q) == "none"

\* What the next page reads from the URL that authContinuationUrl makes.
Continued(q) == IF q = "none" THEN ReadOAuthQuery(<<>>, "none") ELSE ReadOAuthQuery(<<q>>, "none")

\* Mutant: any loopback address will do.
Safe_AnyCallback(destination) == destination # "foreign"

\* safeAuthDestination: a hosted page, the authorization endpoint, or the callback that the
\* continuation names, when that is one of the three of the program.
Safe(destination) ==
  \/ destination \in Pages \cup {"authorize"}
  \/ destination = "callback" /\ query = "registered"

\* A page runs its script: the consent page asks for the client, the login page for the
\* session of the browser.
Load(p, q, failed) ==
  /\ path' = p
  /\ query' = q
  /\ badLink' = failed
  /\ flight' = IF q = "ambiguous" THEN {}
               ELSE IF p = "consent" THEN {"metadata"}
               ELSE IF p = "login" /\ q # "none" /\ ~failed THEN {"get-session"} ELSE {}
  /\ verified' = FALSE /\ pending' = FALSE /\ working' = FALSE
  /\ leaving' = "stay"

\* The desktop program or an e-mail opens a page; the browser may have a session.
OpenPage(p, wrapped, direct, failed) ==
  /\ path = "none"
  /\ Load(p, ReadOAuthQuery(wrapped, direct), failed)
  /\ session' \in BOOLEAN

\* A link of the form pages.
Follow(p) ==
  /\ path \in Forms /\ query # "ambiguous"
  /\ Load(p, Continued(query), FALSE)
  /\ UNCHANGED session

\* The browser replaces the page that assigned another location; the pages that the issuer
\* names continue the same authorization.
Unload ==
  /\ leaving # "stay"
  /\ IF leaving \in Pages \cup {"switched"}
       THEN Load(IF leaving = "switched" THEN "login" ELSE leaving, Continued(query), FALSE)
       ELSE Load("none", "none", FALSE)
  /\ UNCHANGED session

\* The client's metadata: verified when it names the client of the continuation and the
\* callback is safe.
Metadata(matches) ==
  /\ "metadata" \in flight
  /\ flight' = flight \ {"metadata"}
  /\ verified' = (matches /\ (query = "hosted" \/ Safe("callback")))
  /\ UNCHANGED <<tab, pending, working, leaving, session>>

\* Mutant: the flag is not looked at.
Decide_Again(decision) ==
  /\ path = "consent" /\ query # "ambiguous"
  /\ decision = "accept" => verified
  /\ pending' = TRUE
  /\ flight' = flight \cup {decision}
  /\ UNCHANGED <<tab, verified, working, leaving, session>>

\* Mutant: the accept button is believed to be disabled.
Decide_Unverified(decision) ==
  /\ path = "consent" /\ query # "ambiguous" /\ ~pending
  /\ pending' = TRUE
  /\ flight' = flight \cup {decision}
  /\ UNCHANGED <<tab, verified, working, leaving, session>>

Decide(decision) ==
  /\ path = "consent" /\ query # "ambiguous" /\ ~pending
  /\ decision = "accept" => verified
  /\ pending' = TRUE
  /\ flight' = flight \cup {decision}
  /\ UNCHANGED <<tab, verified, working, leaving, session>>

\* go: an unsafe destination throws, and the page says so.
Go(destination) == leaving' = IF Safe(destination) THEN destination ELSE leaving

Decided(decision) ==
  /\ decision \in flight
  /\ flight' = flight \ {decision}
  /\ pending' = FALSE
  /\ (\E d \in Destinations : Go(d)) \/ UNCHANGED leaving
  /\ UNCHANGED <<tab, verified, working, session>>

SwitchAccount ==
  /\ path = "consent" /\ query # "ambiguous" /\ ~pending
  /\ pending' = TRUE
  /\ flight' = flight \cup {"sign-out"}
  /\ UNCHANGED <<tab, verified, working, leaving, session>>

\* Mutant: the page goes on to the login whatever the sign-out said.
SignedOut_Anyway ==
  /\ "sign-out" \in flight
  /\ flight' = flight \ {"sign-out"}
  /\ pending' = FALSE
  /\ session' \in {FALSE, session}
  /\ leaving' = "switched"
  /\ UNCHANGED <<tab, verified, working>>

SignedOut ==
  /\ "sign-out" \in flight
  /\ flight' = flight \ {"sign-out"}
  /\ pending' = FALSE
  /\ \/ session' = FALSE /\ leaving' = "switched"
     \/ session' \in {FALSE, session} /\ UNCHANGED leaving
  /\ UNCHANGED <<tab, verified, working>>

Submit ==
  /\ path \in Forms /\ query # "ambiguous" /\ ~working
  /\ working' = TRUE
  /\ flight' = flight \cup {"submit"}
  /\ UNCHANGED <<tab, verified, pending, leaving, session>>

\* The answer to a form.  A sign-in without a destination continues the authorization;
\* an answer that fails may have signed in all the same.
Submitted ==
  /\ "submit" \in flight
  /\ \/ /\ path = "login"
        /\ session' = TRUE
        /\ \/ /\ \E d \in Destinations : Go(d)
              /\ flight' = flight \ {"submit"}
              /\ working' = FALSE
           \/ /\ query # "none"
              /\ flight' = (flight \ {"submit"}) \cup {"continue"}
              /\ UNCHANGED <<working, leaving>>
     \/ /\ flight' = flight \ {"submit"}
        /\ working' = FALSE
        /\ session' \in IF path = "login" THEN {session, TRUE} ELSE {session}
        /\ UNCHANGED leaving
  /\ UNCHANGED <<tab, verified, pending>>

\* The login page finds a session and continues without the form.
GetSession ==
  /\ "get-session" \in flight
  /\ flight' = (flight \ {"get-session"}) \cup (IF session THEN {"resume"} ELSE {})
  /\ UNCHANGED <<tab, verified, pending, working, leaving, session>>

Continue(request) ==
  /\ request \in flight \cap {"continue", "resume"}
  /\ flight' = flight \ {request}
  /\ working' = IF request = "continue" THEN FALSE ELSE working
  /\ (\E d \in Destinations : Go(d)) \/ UNCHANGED leaving
  /\ UNCHANGED <<tab, verified, pending, session>>

PagesNext ==
  \/ \E p \in Pages, wrapped \in {<<>>, <<"registered">>, <<"hosted">>, <<"odd">>,
                          <<"odd", "registered">>},
        direct \in Queries \ {"ambiguous"}, failed \in BOOLEAN : OpenPage(p, wrapped, direct, failed)
  \/ \E p \in Forms : Follow(p)
  \/ \E matches \in BOOLEAN : Metadata(matches)
  \/ \E decision \in Decisions : Decide(decision) \/ Decided(decision)
  \/ \E request \in PageRequests : Continue(request)
  \/ Unload \/ SwitchAccount \/ SignedOut \/ Submit \/ Submitted \/ GetSession

PagesSpec == PagesInit /\ [][PagesNext]_pageVars

-------------------------------------------------------------------------------

\* The three buttons of the consent page send one request at a time, and come back when
\* it is over, however it ended and whenever the client's metadata arrives.
OneDecisionAtATime ==
  /\ pending <=> (Decisions \cup {"sign-out"}) \cap flight # {}
  /\ \A a, b \in (Decisions \cup {"sign-out"}) \cap flight : a = b

\* Access is granted only to the client of this continuation, with a callback that is safe.
AllowedKnowingly == "accept" \in flight => verified /\ query \in {"registered", "hosted"}

\* No answer of the issuer sends the tab anywhere but to the hosted pages, the
\* authorization endpoint or the program's own callback.
LeavesSafely == leaving # "foreign" /\ (leaving = "callback" => query = "registered")

\* The login page that "Use another account" leads to never resumes the session it was to end.
SwitchSignsOut == leaving = "switched" => ~session

\* A pending authorization survives every way from one hosted page to another.
ContinuationKept == [][path # "none" /\ path' # "none" => query' = query]_pageVars

\* What the hosted pages keep, however the answers of the issuer and the user's clicks are
\* interleaved: consent is asked once, knowingly, and leads only where it should.
ConsentSafe == OneDecisionAtATime /\ AllowedKnowingly /\ LeavesSafely /\ SwitchSignsOut
===============================================================================
