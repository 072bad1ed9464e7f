---------------------------- MODULE OAuthAcceptance ----------------------------
(***************************************************************************)
(* test-oauth.mjs: one run of the protocol acceptance against staging.     *)
(* Every step is a request whose answer is checked; a request may be lost, *)
(* before or after the service acted on it, and an answer may differ from  *)
(* what the check expects.  Either ends the run, and the finally block     *)
(* revokes the credentials and ends the sessions the run knows of.  Some   *)
(* checks accept answers that say nothing of what they ask for.            *)
(***************************************************************************)
EXTENDS Naturals, Sequences

CONSTANTS A, B    \* the two synthetic users, each with an address of its own

ASSUME OAuthAssumption == A # B

VARIABLES at,        \* the step of main the run has reached
          users,     \* users the service created
          signedIn,  \* users whose browser session is active at the service
          live,      \* refresh credentials the service honours
          cleanup,   \* what the script will undo: cleanupUsers, cleanupRefreshTokens
          failed,    \* requests of the cleanup that the service did not act on
          vague,     \* ghost: what a check passed for although it was alive at the service
          evidence   \* [passed, checks, retained, written]

oauthVars == <<at, users, signedIn, live, cleanup, failed, vague, evidence>>

Credentials == {"tokenA", "rotatedA", "tokenB"}

\* The requests of main in their order: the effect on the service, and the user.
Step(does, user) == [does |-> does, user |-> user]
OAuthSteps == <<Step("discover", A), Step("signup", A), Step("signin", A), Step("session", A),
           Step("rejected", A), Step("rejected", A), Step("authorize", A), Step("login", A),
           Step("client", A), Step("consent", A), Step("exchange", A), Step("profile", A), Step("update", A),
           Step("signup", B), Step("signin", B), Step("session", B), Step("authorize", B),
           Step("login", B), Step("client", B), Step("consent", B), Step("exchange", B),
           Step("profile", B), Step("forge", B), Step("unchanged", B), Step("rotate", A),
           Step("profile", A), Step("revoke", A), Step("refused", A), Step("reused", A),
           Step("revokeUnchecked", B), Step("signout", A), Step("gone", A), Step("signout", B),
           Step("gone", B)>>
CleanupAt == Len(OAuthSteps) + 1
Written == CleanupAt + 1

OAuthTypeOK ==
  /\ at \in 1 .. Written
  /\ users \subseteq {A, B} /\ signedIn \subseteq users
  /\ live \subseteq Credentials
  /\ cleanup \in [users : SUBSET {A, B}, tokens : SUBSET Credentials]
  /\ failed \subseteq {A, B} \cup Credentials /\ vague \subseteq {A, B} \cup Credentials
  /\ evidence \in [passed : BOOLEAN, checks : 0 .. Len(OAuthSteps), retained : 0 .. 2, written : BOOLEAN]

OAuthInit ==
  /\ at = 1
  /\ users = {} /\ signedIn = {} /\ live = {} /\ failed = {} /\ vague = {}
  /\ cleanup = [users |-> {}, tokens |-> {}]
  /\ evidence = [passed |-> FALSE, checks |-> 0, retained |-> 0, written |-> FALSE]

Current(user) == IF user = B THEN "tokenB" ELSE IF "rotatedA" \in cleanup.tokens THEN "rotatedA" ELSE "tokenA"
Obtained(s) == IF s.does = "rotate" THEN "rotatedA" ELSE IF s.user = A THEN "tokenA" ELSE "tokenB"

\* What the service does for a request: an account and its session, a credential (the
\* rotated one replaces the first), a revocation, the end of a session.
Served(s) ==
  CASE s.does = "signup" -> users' = users \cup {s.user} /\ signedIn' = signedIn \cup {s.user} /\ UNCHANGED live
    [] s.does \in {"signin", "login"} -> signedIn' = signedIn \cup {s.user} /\ UNCHANGED <<users, live>>
    [] s.does = "exchange" -> live' = live \cup {Obtained(s)} /\ UNCHANGED <<users, signedIn>>
    [] s.does = "rotate" -> live' = (live \ {"tokenA"}) \cup {"rotatedA"} /\ UNCHANGED <<users, signedIn>>
    [] s.does \in {"revoke", "revokeUnchecked"} -> live' = live \ {Current(s.user)} /\ UNCHANGED <<users, signedIn>>
    [] s.does = "signout" -> signedIn' = signedIn \ {s.user} /\ UNCHANGED <<users, live>>
    [] OTHER -> UNCHANGED <<users, signedIn, live>>

\* Mutant: a credential is noted for the cleanup only once the steps that use it passed.
Noted_Late(s) ==
  CASE s.does = "signup" -> [cleanup EXCEPT !.users = @ \cup {s.user}]
    [] s.does = "profile" -> [cleanup EXCEPT !.tokens = @ \cup {IF s.user = A THEN "tokenA" ELSE "tokenB"}]
    [] s.does = "rotate" -> [cleanup EXCEPT !.tokens = @ \cup {Obtained(s)}]
    [] OTHER -> cleanup

\* What a checked answer adds to the cleanup, before the next request.
Noted(s) ==
  CASE s.does = "signup" -> [cleanup EXCEPT !.users = @ \cup {s.user}]
    [] s.does \in {"exchange", "rotate"} -> [cleanup EXCEPT !.tokens = @ \cup {Obtained(s)}]
    [] OTHER -> cleanup

\* Mutant: the rotated credential is not asked about.
Unproved_NoRefresh(s) == IF s.does = "gone" THEN {s.user} \cap signedIn ELSE {}

\* What is still alive though its check passes: get-session proves nothing once the cookie is gone or
\* on an error, and any status from 400 on is taken for a refused credential.
Unproved(s) ==
  CASE s.does = "gone" -> {s.user} \cap signedIn
    [] s.does = "refused" -> {Current(s.user)} \cap live
    [] OTHER -> {}

\* The answers that pass although the service did nothing: a revocation or a sign-out that was only
\* accepted, and the exchange of the second user, whose refresh credential is not looked at.
MayBeIdle(s) == s.does \in {"signout", "revoke", "revokeUnchecked"} \/ (s.does = "exchange" /\ s.user = B)

Answered ==
  /\ at <= Len(OAuthSteps)
  /\ LET s == OAuthSteps[at] IN
       /\ Served(s) \/ (MayBeIdle(s) /\ UNCHANGED <<users, signedIn, live>>)
       /\ cleanup' = Noted(s)
       /\ vague' = vague \cup Unproved(s)
       /\ evidence' = [evidence EXCEPT !.checks = IF s.does = "revokeUnchecked" THEN @ ELSE @ + 1,
                                       !.retained = IF s.does = "signup" THEN @ + 1 ELSE @,
                                       !.passed = at = Len(OAuthSteps)]
  /\ at' = at + 1
  /\ UNCHANGED failed

\* The request fails or its answer fails the check; the service may have acted.
StepThrows ==
  /\ at <= Len(OAuthSteps)
  /\ Served(OAuthSteps[at]) \/ UNCHANGED <<users, signedIn, live>>
  /\ at' = CleanupAt
  /\ UNCHANGED <<cleanup, failed, vague, evidence>>

Known == cleanup.tokens \cup cleanup.users
Undoes(some) == live' = live \ some /\ signedIn' = signedIn \ some

\* The finally block: each credential and each session on its own, whatever became of the
\* others and whatever it is answered, and then the evidence.
CleanUp ==
  /\ at = CleanupAt
  /\ \E undone \in SUBSET Known : Undoes(undone) /\ failed' = Known \ undone
  /\ evidence' = [evidence EXCEPT !.written = TRUE]
  /\ at' = Written
  /\ UNCHANGED <<users, cleanup, vague>>

\* The run is killed within the cleanup, or the evidence cannot be written.
CutShort ==
  /\ at = CleanupAt
  /\ \E undone \in SUBSET Known : Undoes(undone)
  /\ at' = Written
  /\ UNCHANGED <<users, cleanup, failed, vague, evidence>>

OAuthNext == Answered \/ StepThrows \/ CleanUp \/ CutShort

OAuthSpec == OAuthInit /\ [][OAuthNext]_oauthVars

-------------------------------------------------------------------------------

\* What the script test-oauth.mjs was ever given (a credential in a checked answer, a session of a
\* user it knows) is alive after a run that wrote its evidence only if the request of the cleanup
\* that is its own failed.
Given == {t \in Credentials \cap live :
            \E i \in 1 .. evidence.checks : /\ OAuthSteps[i].does \in {"exchange", "rotate"}
                                            /\ Obtained(OAuthSteps[i]) = t}
KnownIsUndone ==
  evidence.written => Given \cup (signedIn \cap cleanup.users) \subseteq failed

\* A run of test-oauth.mjs that passes has asked the service about every session and about the
\* rotated credential, after the last request that could bring one back: what is alive of the first
\* user's credentials and of the sessions had an answer that passed and proved nothing.
PassedMeansClean ==
  evidence.passed => signedIn \cup (live \ {"tokenB"}) \subseteq vague
===============================================================================
