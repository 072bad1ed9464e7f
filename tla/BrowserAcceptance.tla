--------------------------- MODULE BrowserAcceptance ---------------------------
(***************************************************************************)
(* The two acceptance helpers around one synthetic user of staging:        *)
(* create-native-fixture.mjs makes the user and revokes the session of the *)
(* sign-up; test-browser-oauth.mjs waits on a loopback port for the        *)
(* callback of a browser, at most five minutes, and exchanges, uses and    *)
(* revokes the credential it brings.                                       *)
(***************************************************************************)
EXTENDS Naturals

CONSTANT Callbacks   \* requests a browser sends to the loopback port

VARIABLES fixture,   \* the run of create-native-fixture: step, and whether it claims success
          bootstrap, \* the session of the sign-up, at the service
          listener,  \* [timer, listening, finishing, exit] of test-browser-oauth
          request,   \* each request to the port: its step, what it carries
          code,      \* exchanges of the authorization code the service has granted
          credential,\* the refresh credential: at the service, and in the script
          browserEvidence   \* the evidence: in memory, and as it was written

fixtureVars == <<fixture, bootstrap>>
browserVars == <<listener, request, code, credential, browserEvidence>>
acceptanceVars == <<fixtureVars, browserVars>>

Contents == {"other", "invalid", "code"}
NoEvidence == [exchanged |-> FALSE, account |-> FALSE, revoked |-> FALSE, passed |-> FALSE,
               written |-> FALSE]

AcceptanceTypeOK ==
  /\ fixture \in [step : {"new", "signup", "signout", "check", "done", "failed"}, claims : BOOLEAN]
  /\ bootstrap \in {"none", "active", "revoked"}
  /\ listener \in [timer : {"set", "fired", "cleared"}, listening : BOOLEAN,
                   finishing : BOOLEAN, exit : 0 .. 1]
  /\ request \in [Callbacks -> [step : {"none", "exchange", "account", "revoke", "finally", "retry",
                                       "write", "answered"},
                               status : {0, 200, 400, 404, 409}]]
  /\ code \in Nat
  /\ credential \in [service : {"none", "live", "revoked"}, known : BOOLEAN]
  /\ browserEvidence \in [exchanged : BOOLEAN, account : BOOLEAN, revoked : BOOLEAN, passed : BOOLEAN,
                   written : BOOLEAN]

AcceptanceInit ==
  /\ fixture = [step |-> "new", claims |-> FALSE]
  /\ bootstrap = "none"
  /\ listener = [timer |-> "set", listening |-> TRUE, finishing |-> FALSE, exit |-> 0]
  /\ request = [r \in Callbacks |-> [step |-> "none", status |-> 0]]
  /\ code = 0
  /\ credential = [service |-> "none", known |-> FALSE]
  /\ browserEvidence = NoEvidence

-------------------------------------------------------------------------------
\* create-native-fixture: an answer that is lost, refused or incomplete ends the run, and
\* the service may have done what was asked all the same.

SignUp(confirmed) ==
  /\ fixture.step = "new"
  /\ fixture' = [fixture EXCEPT !.step = IF confirmed THEN "signup" ELSE "failed"]
  /\ UNCHANGED <<bootstrap, browserVars>>

FixtureFails ==
  /\ fixture.step \in {"signup", "signout", "check"}
  /\ fixture' = [fixture EXCEPT !.step = "failed"]
  /\ bootstrap' \in CASE fixture.step = "signup" -> {"none", "active"}
                      [] fixture.step = "signout" -> {bootstrap, "revoked"}
                      [] OTHER -> {bootstrap}
  /\ UNCHANGED browserVars

SignedUp ==
  /\ fixture.step = "signup"
  /\ bootstrap' = "active"
  /\ fixture' = [fixture EXCEPT !.step = "signout"]
  /\ UNCHANGED browserVars

\* The service accepts the sign-out; whether the session is gone, only get-session tells.
SignOut ==
  /\ fixture.step = "signout"
  /\ bootstrap' \in {bootstrap, "revoked"}
  /\ fixture' = [fixture EXCEPT !.step = "check"]
  /\ UNCHANGED browserVars

\* Mutant: the accepted sign-out is taken for the revocation.
CheckSession_Trusts ==
  /\ fixture.step = "check"
  /\ fixture' = [step |-> "done", claims |-> TRUE]
  /\ UNCHANGED <<bootstrap, browserVars>>

CheckSession ==
  /\ fixture.step = "check"
  /\ fixture' = IF bootstrap = "active" THEN [fixture EXCEPT !.step = "failed"]
                ELSE [step |-> "done", claims |-> TRUE]
  /\ UNCHANGED <<bootstrap, browserVars>>

-------------------------------------------------------------------------------
\* test-browser-oauth.

AnswerCallback(r, step, status) == request' = [request EXCEPT ![r] = [step |-> step, status |-> status]]

\* Mutant: a second callback is handled like the first.
Arrive_Twice(r, content) ==
  /\ request[r].step = "none"
  /\ listener.listening
  /\ IF content = "other"
       THEN AnswerCallback(r, "answered", 404) /\ UNCHANGED listener
       ELSE /\ listener' = [listener EXCEPT !.finishing = TRUE]
            /\ AnswerCallback(r, IF content = "code" THEN "exchange" ELSE "finally",
                      IF content = "code" THEN 0 ELSE 400)
  /\ UNCHANGED <<code, credential, browserEvidence, fixtureVars>>

\* A request: 409 once a callback is being handled, 404 unless it is the callback.
Arrive(r, content) ==
  /\ request[r].step = "none"
  /\ listener.listening
  /\ CASE listener.finishing -> AnswerCallback(r, "answered", 409) /\ UNCHANGED listener
       [] ~listener.finishing /\ content = "other" -> AnswerCallback(r, "answered", 404) /\ UNCHANGED listener
       [] OTHER -> /\ listener' = [listener EXCEPT !.finishing = TRUE]
                   /\ AnswerCallback(r, IF content = "code" THEN "exchange" ELSE "finally",
                             IF content = "code" THEN 0 ELSE 400)
  /\ UNCHANGED <<code, credential, browserEvidence, fixtureVars>>

\* The exchange; it may take effect and its answer be lost, or be refused.
Exchange(r) ==
  /\ request[r].step = "exchange"
  /\ \/ /\ code' = code + 1
        /\ \/ /\ credential' = [service |-> "live", known |-> TRUE]
              /\ browserEvidence' = [browserEvidence EXCEPT !.exchanged = TRUE]
              /\ AnswerCallback(r, "account", 0)
           \/ /\ credential' = [credential EXCEPT !.service = "live"]
              /\ UNCHANGED browserEvidence
              /\ AnswerCallback(r, "finally", 400)
     \/ AnswerCallback(r, "finally", 400) /\ UNCHANGED <<code, credential, browserEvidence>>
  /\ UNCHANGED <<listener, fixtureVars>>

UseAccount(r) ==
  /\ request[r].step = "account"
  /\ \/ browserEvidence' = [browserEvidence EXCEPT !.account = TRUE] /\ AnswerCallback(r, "revoke", 0)
     \/ UNCHANGED browserEvidence /\ AnswerCallback(r, "finally", 400)
  /\ UNCHANGED <<listener, code, credential, fixtureVars>>

\* A revocation answers that it was done, answers that it was not, or its answer is lost.
Revoked == credential' = [credential EXCEPT !.service = "revoked"]
NotRevoked == credential' \in {credential, [credential EXCEPT !.service = "revoked"]}

\* Mutant: the answer to the revocation is not looked at.
Revoke_AnyAnswer(r) ==
  /\ request[r].step = "revoke"
  /\ Revoked \/ NotRevoked
  /\ browserEvidence' = [browserEvidence EXCEPT !.revoked = TRUE, !.passed = TRUE]
  /\ AnswerCallback(r, "finally", 200)
  /\ UNCHANGED <<listener, code, fixtureVars>>

Revoke(r) ==
  /\ request[r].step = "revoke"
  /\ \/ Revoked /\ browserEvidence' = [browserEvidence EXCEPT !.revoked = TRUE, !.passed = TRUE] /\ AnswerCallback(r, "finally", 200)
     \/ NotRevoked /\ UNCHANGED browserEvidence /\ \E status \in {200, 400} : AnswerCallback(r, "finally", status)
  /\ UNCHANGED <<listener, code, fixtureVars>>

\* The finally block: no timeout any more, and one more revocation if it is needed.
Finally(r) ==
  /\ request[r].step = "finally"
  /\ listener' = [listener EXCEPT !.timer = IF @ = "set" THEN "cleared" ELSE @]
  /\ AnswerCallback(r, IF credential.known /\ ~browserEvidence.revoked THEN "retry" ELSE "write", request[r].status)
  /\ UNCHANGED <<code, credential, browserEvidence, fixtureVars>>

RetryExchange(r) ==
  /\ request[r].step = "retry"
  /\ \/ Revoked /\ browserEvidence' = [browserEvidence EXCEPT !.revoked = TRUE]
     \/ NotRevoked /\ UNCHANGED browserEvidence
  /\ AnswerCallback(r, "write", request[r].status)
  /\ UNCHANGED <<listener, code, fixtureVars>>

\* Mutant: the exit code follows the answer the browser was given.
WriteEvidence_ByStatus(r) ==
  /\ request[r].step = "write"
  /\ browserEvidence' = [browserEvidence EXCEPT !.written = TRUE]
  /\ listener' = [listener EXCEPT !.listening = FALSE, !.exit = IF request[r].status = 200 THEN @ ELSE 1]
  /\ AnswerCallback(r, "answered", request[r].status)
  /\ UNCHANGED <<code, credential, fixtureVars>>

WriteEvidence(r) ==
  /\ request[r].step = "write"
  /\ browserEvidence' = [browserEvidence EXCEPT !.written = TRUE]
  /\ listener' = [listener EXCEPT !.listening = FALSE, !.exit = IF browserEvidence.passed THEN @ ELSE 1]
  /\ AnswerCallback(r, "answered", request[r].status)
  /\ UNCHANGED <<code, credential, fixtureVars>>

\* Five minutes are over, a callback being handled or not.
TimedOut ==
  /\ listener.timer = "set"
  /\ listener' = [listener EXCEPT !.timer = "fired", !.listening = FALSE, !.exit = 1]
  /\ UNCHANGED <<request, code, credential, browserEvidence, fixtureVars>>

AcceptanceNext ==
  \/ \E confirmed \in BOOLEAN : SignUp(confirmed)
  \/ FixtureFails \/ SignedUp \/ SignOut \/ CheckSession
  \/ \E r \in Callbacks :
       \/ \E content \in Contents : Arrive(r, content)
       \/ Exchange(r) \/ UseAccount(r) \/ Revoke(r) \/ Finally(r) \/ RetryExchange(r) \/ WriteEvidence(r)
  \/ TimedOut

AcceptanceSpec == AcceptanceInit /\ [][AcceptanceNext]_acceptanceVars

-------------------------------------------------------------------------------

\* create-native-fixture: success is claimed only of a user whose bootstrap session the
\* service no longer holds, whatever the service answers to the sign-out.
ClaimedMeansRevoked == fixture.claims => bootstrap = "revoked"

\* test-browser-oauth: of two callbacks at once only one exchanges the code; the second
\* exchange would void the credential of the first and fail a correct sign-in.
ExchangedOnce == code <= 1

\* test-browser-oauth: evidence that says the credential is revoked is true of the
\* service, after lost answers and the second attempt.
RevokedMeansRevoked == browserEvidence.revoked => credential.service = "revoked"

\* test-browser-oauth: the process has ended (nothing listens, nothing is handled) with
\* exit code 0 only when passing evidence was written: five minutes over and a callback
\* at the same moment end in a failure, never in a success without evidence.
Ended == ~listener.listening /\ \A r \in Callbacks : request[r].step \in {"none", "answered"}
ZeroMeansPassed == Ended /\ listener.exit = 0 => browserEvidence.passed /\ browserEvidence.written /\ browserEvidence.revoked
===============================================================================
