---------------------------- MODULE AccountSession ----------------------------
(***************************************************************************)
(* The optional account on the desktop: AuthenticationService (the gate,   *)
(* the access token in memory, refresh-token rotation), AccountService     *)
(* (the cached profile), the commands of AccountViewModel, the startup     *)
(* synchronization and the exit of ApplicationHost, against a sign-in      *)
(* server that rotates refresh tokens and an API that may fail.            *)
(*                                                                         *)
(* Each command runs on pool threads after its first await, so the four    *)
(* commands and the synchronization interleave at every await.  Code that  *)
(* runs under the gate without an await is part of the step that takes the *)
(* gate.  The store is the session file of the active storage mode; a      *)
(* build without a registered client has none of this and is left out.     *)
(***************************************************************************)
EXTENDS Naturals, Sequences, FiniteSets

CONSTANTS Accounts,     \* who may sign in at the browser
          NoAccount,    \* no profile
          MaxGrants,    \* bound: interactive sign-ins the server grants
          MaxRotations, \* bound: rotations of one grant's refresh token
          MaxAtOnce     \* bound: commands and synchronization under way at once

ASSUME AccountAssumption ==
  /\ NoAccount \notin Accounts
  /\ MaxGrants \in Nat \ {0}
  /\ MaxRotations \in Nat
  /\ MaxAtOnce \in Nat

Commands == {"signIn", "signOut", "refresh", "save"}
Tasks == Commands \cup {"sync"}
Free == "free"

\* Where a task is.  "enter", "gate" and "leave" wait for the gate on behalf of
\* SignInAsync, GetAccessTokenAsync and SignOutAsync; "browser", the
\* two checks of new tokens with the API, "refreshing" and "revoking" hold it.
Waits == {"enter", "gate", "leave"}
Checks == {"verifyNew", "verify"}
Holds == Checks \cup {"browser", "refreshing", "revoking"}
Network == Checks \cup {"browser", "refreshing", "profile"}
Places == Waits \cup Holds \cup {"idle", "profile", "forget", "apply"}

\* A refresh token: the interactive grant it descends from, and its rotation.
NoToken == [grant |-> 0, n |-> 0]
Bearer(grant) == [grant |-> grant, n |-> 0]
Tokens == [grant : 1 .. MaxGrants, n : 0 .. MaxRotations] \cup {NoToken}
Statuses == {"Signed out", "Waiting", "Connected", "Offline", "Connection error"}

VARIABLES
  life,      \* the process: "down", "running" or "closing"
  pc,        \* where each task is
  held,      \* the token each task works with
  cancelled, \* the running tasks whose CancellationToken is cancelled
  gate,      \* _gate: the task that holds it
  store,     \* session.bin
  access,    \* _accessToken, as the grant it was issued for; 0 is null
  fresh,     \* _expiresAt is more than a minute away
  torn,      \* ghost: a save took session.bin away and put nothing in its place
  current,   \* AccountService.Current
  shown,     \* the account on the page; IsSignedIn is shown # NoAccount
  status,    \* AccountStatus
  busy,      \* IsRefreshing
  server,    \* per grant: its account, its last rotation, whether it is valid
  lost,      \* ghost: grants one of whose rotations never reached the store
  loggedOut  \* ghost: a sign-out has cleared the store, no sign-in has filled it

taskVars == <<pc, held>>
authVars == <<store, access, fresh, torn>>
viewVars == <<shown, status, busy>>
serverVars == <<server, lost>>
vars == <<life, taskVars, cancelled, gate, authVars, current, viewVars, serverVars, loggedOut>>

\* The types; and a task that holds the gate is at an await that holds it.
TypeOK ==
  /\ life \in {"down", "running", "closing"}
  /\ pc \in [Tasks -> Places]
  /\ held \in [Tasks -> Tokens]
  /\ cancelled \subseteq Tasks
  /\ gate \in {t \in Tasks : pc[t] \in Holds} \cup {Free}
  /\ store \in Tokens
  /\ access \in 0 .. MaxGrants
  /\ fresh \in BOOLEAN
  /\ torn \in BOOLEAN
  /\ current \in Accounts \cup {NoAccount}
  /\ shown \in Accounts \cup {NoAccount}
  /\ status \in Statuses
  /\ busy \in BOOLEAN
  /\ server \in Seq([account : Accounts, latest : 0 .. MaxRotations, valid : BOOLEAN])
  /\ Len(server) <= MaxGrants
  /\ lost \subseteq 1 .. MaxGrants
  /\ loggedOut \in BOOLEAN

\* The file may hold the session of an earlier run.
Init ==
  /\ life = "down"
  /\ pc = [t \in Tasks |-> "idle"]
  /\ held = [t \in Tasks |-> NoToken]
  /\ cancelled = {}
  /\ gate = Free
  /\ access = 0
  /\ fresh = FALSE
  /\ torn = FALSE
  /\ current = NoAccount
  /\ shown = NoAccount
  /\ status = "Signed out"
  /\ busy = FALSE
  /\ \/ store = NoToken /\ server = <<>>
     \/ /\ store = [grant |-> 1, n |-> 0]
        /\ \E a \in Accounts : server = <<[account |-> a, latest |-> 0, valid |-> TRUE]>>
  /\ lost = {}
  /\ loggedOut = FALSE

-------------------------------------------------------------------------------
\* What the user starts; the buttons are as AccountView.xaml shows them

Begin(c, place) ==
  /\ life = "running"
  /\ pc[c] = "idle"
  /\ Cardinality({t \in Tasks : pc[t] # "idle"}) < MaxAtOnce
  /\ pc' = [pc EXCEPT ![c] = place]
  /\ busy' = TRUE
  /\ UNCHANGED <<life, held, gate, authVars, current, shown, serverVars, loggedOut>>

SignIn ==
  /\ shown = NoAccount /\ ~busy
  /\ Begin("signIn", "enter")
  /\ status' = "Waiting"
  /\ UNCHANGED cancelled

\* SignOutAsync of the page also cancels a sign-in that is under way.
SignOut ==
  /\ shown # NoAccount
  /\ Begin("signOut", "leave")
  /\ cancelled' = cancelled \cup {t \in {"signIn"} : pc[t] # "idle"}
  /\ UNCHANGED status

Refresh == ~busy /\ Begin("refresh", "gate") /\ UNCHANGED <<status, cancelled>>

SaveProfile ==
  /\ shown # NoAccount /\ ~busy
  /\ Begin("save", "gate")
  /\ UNCHANGED <<status, cancelled>>

CancelSignIn ==
  /\ life = "running"
  /\ busy
  /\ pc["signIn"] # "idle"
  /\ cancelled' = cancelled \cup {"signIn"}
  /\ UNCHANGED <<life, taskVars, gate, authVars, current, viewVars, serverVars, loggedOut>>

-------------------------------------------------------------------------------
\* How a task goes on and how it ends

\* Mutant: the gate is not released when an await throws.
Released_Never(t) == gate

Released(t) == IF gate = t THEN Free ELSE gate

\* Mutant: the profile command ends without its finally block.
Ended_ProfileStaysBusy(t) ==
  /\ pc' = [pc EXCEPT ![t] = "idle"]
  /\ held' = [held EXCEPT ![t] = NoToken]
  /\ cancelled' = cancelled \ {t}
  /\ busy' = (busy /\ t \in {"save", "sync"})

\* The end of a command, with its finally block.
Ended(t) ==
  /\ pc' = [pc EXCEPT ![t] = "idle"]
  /\ held' = [held EXCEPT ![t] = NoToken]
  /\ cancelled' = cancelled \ {t}
  /\ busy' = (busy /\ t = "sync")

Moved(t, place, token) ==
  /\ pc' = [pc EXCEPT ![t] = place]
  /\ held' = [held EXCEPT ![t] = token]
  /\ UNCHANGED <<cancelled, busy>>

\* What the catch blocks of the commands show; kind tells an
\* OperationCanceledException, which is also how HttpClient reports a timeout.
StatusAfter(t, kind) ==
  CASE t = "signIn"  -> IF kind = "cancelled" THEN "Signed out" ELSE "Connection error"
    [] t = "refresh" -> IF current = NoAccount THEN "Connection error" ELSE "Offline"
    [] OTHER         -> status

Failed(t, kind) == Ended(t) /\ status' = StatusAfter(t, kind) /\ UNCHANGED shown

\* GetAccessTokenAsync returned null: a page that only wanted to save fails.
NoSession(t) ==
  IF t = "save" THEN Failed(t, "error")
                ELSE Moved(t, "forget", NoToken) /\ UNCHANGED <<shown, status>>

\* Mutant: ClearSession leaves the access token.
Cleared_KeepsAccess == store' = NoToken /\ UNCHANGED access /\ fresh' = FALSE /\ torn' = FALSE

\* ClearSession.
Cleared == store' = NoToken /\ access' = 0 /\ fresh' = FALSE /\ torn' = FALSE

\* DeleteSession throws, before or after the session file itself is gone.
ClearThrows == store' \in {store, NoToken} /\ access' = 0 /\ fresh' = FALSE /\ torn' = FALSE

-------------------------------------------------------------------------------
\* Steps of a task that take the gate

\* Mutant: SignOutAsync does not wait for the gate.
Enters_SignOutAtOnce(t, place) ==
  pc[t] = place /\ t \notin cancelled /\ (gate = Free \/ place = "leave")

\* _gate.WaitAsync succeeds.
Enters(t, place) == pc[t] = place /\ t \notin cancelled /\ gate = Free

\* SignInAsync opens the browser and listens for its callback.
OpenBrowser(t) ==
  /\ Enters(t, "enter")
  /\ Moved(t, "browser", NoToken)
  /\ gate' = t
  /\ UNCHANGED <<life, authVars, current, shown, status, serverVars, loggedOut>>

\* The access token in memory has more than a minute to go.
Usable == access # 0 /\ fresh

\* GetAccessTokenAsync: the token in memory, none, or one to be refreshed.
GetAccessToken(t) ==
  /\ Enters(t, "gate")
  /\ \/ /\ Usable
        /\ Moved(t, "profile", Bearer(access))
        /\ UNCHANGED <<gate, shown, status>>
     \/ /\ ~Usable /\ store = NoToken
        /\ NoSession(t)
        /\ UNCHANGED gate
     \/ /\ ~Usable /\ store # NoToken
        /\ Moved(t, "refreshing", store)
        /\ gate' = t
        /\ UNCHANGED <<shown, status>>
  /\ UNCHANGED <<life, authVars, current, serverVars, loggedOut>>

\* SignOutAsync deletes the session before it talks to the server, and one that it
\* cannot decrypt without talking to it at all.
ClearLocally(t) ==
  /\ Enters(t, "leave")
  /\ Cleared
  /\ loggedOut' = TRUE
  /\ \/ Moved(t, "forget", NoToken) /\ UNCHANGED gate
     \/ store # NoToken /\ Moved(t, "revoking", store) /\ gate' = t
  /\ UNCHANGED <<life, current, shown, status, serverVars>>

\* The page of a sign-out that cannot read the session file, or cannot delete it, stays
\* as it is.
ClearFails(t) ==
  /\ Enters(t, "leave")
  /\ UNCHANGED authVars \/ ClearThrows
  /\ Failed(t, "error")
  /\ UNCHANGED <<life, gate, current, serverVars, loggedOut>>

TakeGate(t) == OpenBrowser(t) \/ GetAccessToken(t) \/ ClearLocally(t) \/ ClearFails(t)

-------------------------------------------------------------------------------
\* Steps of a task on an answer from the network

\* An await whose token is cancelled does not go on.
Answered(t, places) == pc[t] \in places /\ t \notin cancelled

\* Mutant: the rotated token is saved once the API has accepted it.
Stored_Later(token) == UNCHANGED <<store, torn>>

\* AcceptTokensAsync persists the session before anything else can fail.
Stored(token) == store' = token /\ torn' = FALSE

\* The callback arrives and its code is exchanged for a new grant.
Exchanged(t, account) ==
  LET token == [grant |-> Len(server) + 1, n |-> 0]
  IN  /\ Answered(t, {"browser"})
      /\ Len(server) < MaxGrants
      /\ server' = Append(server, [account |-> account, latest |-> 0, valid |-> TRUE])
      /\ Stored(token)
      /\ Moved(t, "verifyNew", token)
      /\ loggedOut' = FALSE
      /\ UNCHANGED <<life, gate, access, fresh, current, shown, status, lost>>

\* The server takes a refresh token that is valid and the last of its grant.
Accepted(token) == server[token.grant].valid /\ server[token.grant].latest = token.n
Rotated(token) ==
  /\ Accepted(token)
  /\ token.n < MaxRotations
  /\ server' = [server EXCEPT ![token.grant].latest = token.n + 1]

\* The answer to a refresh: a rotated token, or none to replace the old one.
Refreshed(t) ==
  LET old == held[t]
      new == [old EXCEPT !.n = @ + 1]
  IN  /\ Answered(t, {"refreshing"})
      /\ \/ Rotated(old) /\ Stored(new) /\ Moved(t, "verify", new)
         \/ Accepted(old) /\ UNCHANGED server /\ Stored(old) /\ Moved(t, "verify", old)
      /\ UNCHANGED <<life, gate, access, fresh, current, shown, status, lost, loggedOut>>

\* 400 or 401 from the token endpoint.
Rejected(t) ==
  /\ Answered(t, {"refreshing"})
  /\ ~Accepted(held[t])
  /\ \/ Cleared /\ NoSession(t)
     \/ ClearThrows /\ Failed(t, "error")
  /\ gate' = Free
  /\ UNCHANGED <<life, current, serverVars, loggedOut>>

\* The API accepts the new access token; a sign-in goes on to fetch the profile.
Verified(t) ==
  /\ Answered(t, Checks)
  /\ access' = held[t].grant
  /\ fresh' = TRUE
  /\ gate' = Free
  /\ Moved(t, IF pc[t] = "verifyNew" THEN "gate" ELSE "profile", Bearer(held[t].grant))
  /\ UNCHANGED <<life, store, torn, current, shown, status, serverVars, loggedOut>>

\* 401 or 403 from the API: the session is deleted and the caller gets the error.
Unauthorized(t) ==
  /\ Answered(t, Checks)
  /\ Cleared \/ ClearThrows
  /\ gate' = Free
  /\ Failed(t, "error")
  /\ UNCHANGED <<life, current, serverVars, loggedOut>>

ProfileOf(token) == IF token = NoToken THEN NoAccount ELSE server[token.grant].account

\* ReadProfileAsync, outside the gate.
Profile(t) ==
  /\ Answered(t, {"profile"})
  /\ current' = ProfileOf(held[t])
  /\ Moved(t, "apply", held[t])
  /\ UNCHANGED <<life, gate, authVars, shown, status, serverVars, loggedOut>>

\* The revocation is answered, or fails in a way that SignOutAsync swallows.
Revoked(t) ==
  /\ pc[t] = "revoking"
  /\ \/ server' = [server EXCEPT ![held[t].grant].valid = FALSE]
     \/ UNCHANGED server
  /\ gate' = Free
  /\ Moved(t, "forget", NoToken)
  /\ UNCHANGED <<life, authVars, current, shown, status, lost, loggedOut>>

\* The server has rotated the token and the answer does not arrive, or not whole,
\* or cannot be saved.
RotationLost(token) == Rotated(token) /\ lost' = lost \cup {token.grant}

\* The answer cannot be saved: AtomicFile.Write has renamed session.bin to session.bin.bak
\* and the new file does not take its place.  The access token in memory stays.
SaveThrows(t) ==
  /\ Answered(t, {"browser", "refreshing"}) /\ store # NoToken
  /\ \/ pc[t] = "refreshing" /\ RotationLost(held[t])
     \/ (pc[t] = "refreshing" => Accepted(held[t])) /\ UNCHANGED serverVars
  /\ store' = NoToken /\ torn' = TRUE
  /\ gate' = Released(t)
  /\ Failed(t, "error")
  /\ UNCHANGED <<life, access, fresh, current, loggedOut>>

\* An await that throws: it is cancelled, the network fails or times out, the
\* answer is unusable, or the store cannot be read or written.  A grant whose
\* code exchange fails on the way back is nobody's, and is not counted.
Throws(t, kind) ==
  /\ \/ t \in cancelled /\ pc[t] \in Waits \cup Network /\ kind = "cancelled"
     \/ pc[t] \in Network
     \/ pc[t] = "gate" /\ gate = Free /\ ~Usable /\ store # NoToken /\ kind = "error"
  /\ \/ pc[t] = "refreshing" /\ RotationLost(held[t])
     \/ UNCHANGED serverVars
  /\ gate' = Released(t)
  /\ Failed(t, kind)
  /\ UNCHANGED <<life, authVars, current, loggedOut>>

-------------------------------------------------------------------------------
\* Steps that show the outcome

\* AccountService.Clear.
Forget(t) ==
  /\ pc[t] = "forget"
  /\ current' = NoAccount
  /\ Moved(t, "apply", NoToken)
  /\ UNCHANGED <<life, gate, authVars, shown, status, serverVars, loggedOut>>

\* Apply; the synchronization applies the cache, on the UI thread.
Apply(t) ==
  LET profile == IF t = "sync" THEN current ELSE ProfileOf(held[t])
  IN  /\ pc[t] = "apply"
      /\ t = "sync" => life = "running"
      /\ Ended(t)
      /\ shown' = profile
      /\ status' = IF profile = NoAccount THEN "Signed out" ELSE "Connected"
      /\ UNCHANGED <<life, gate, authVars, current, serverVars, loggedOut>>

\* Mutant: the callback to the UI thread is awaited without the lifetime's token.
SyncGivesUp_Never == FALSE

\* The callback to the UI thread is abandoned when the host closes.
SyncGivesUp ==
  /\ pc["sync"] = "apply"
  /\ "sync" \in cancelled
  /\ Ended("sync")
  /\ UNCHANGED <<life, gate, authVars, current, shown, status, serverVars, loggedOut>>

-------------------------------------------------------------------------------
\* The process and the world outside

\* The process starts, with or without the synchronization at startup.
StartProcess ==
  /\ life = "down"
  /\ life' = "running"
  /\ \/ UNCHANGED pc
     \/ pc' = [pc EXCEPT !["sync"] = "gate"]
  /\ UNCHANGED <<held, cancelled, gate, authVars, current, viewVars, serverVars, loggedOut>>

\* The host cancels its lifetime and the page its own; the UI thread now waits.
Quit ==
  /\ life = "running"
  /\ life' = "closing"
  /\ cancelled' = {t \in Tasks : pc[t] # "idle"}
  /\ UNCHANGED <<taskVars, gate, authVars, current, viewVars, serverVars, loggedOut>>

\* A process that ends takes what it has in memory with it.
Gone ==
  /\ life' = "down"
  /\ pc' = [t \in Tasks |-> "idle"]
  /\ held' = [t \in Tasks |-> NoToken]
  /\ cancelled' = {}
  /\ gate' = Free
  /\ access' = 0
  /\ fresh' = FALSE
  /\ torn' = FALSE
  /\ current' = NoAccount
  /\ shown' = NoAccount
  /\ status' = "Signed out"
  /\ busy' = FALSE
  /\ UNCHANGED loggedOut

\* Every task has been awaited and the services are disposed.
Closed ==
  /\ life = "closing"
  /\ \A t \in Tasks : pc[t] = "idle"
  /\ Gone
  /\ UNCHANGED <<store, serverVars>>

\* The process dies; an answer may be on its way, or half saved.
Crash ==
  /\ life # "down"
  /\ Gone
  /\ \/ UNCHANGED store
     \/ \E t \in Tasks : pc[t] \in {"browser", "refreshing"} /\ store' = NoToken
  /\ \/ \E t \in Tasks : pc[t] = "refreshing" /\ RotationLost(held[t])
     \/ UNCHANGED serverVars

\* The access token comes within a minute of its expiry.
Expire ==
  /\ fresh
  /\ fresh' = FALSE
  /\ UNCHANGED <<life, taskVars, cancelled, gate, store, access, torn, current, viewVars, serverVars, loggedOut>>

\* The session is ended at the server, from elsewhere or by its age.
ServerRevokes(g) ==
  /\ server[g].valid
  /\ server' = [server EXCEPT ![g].valid = FALSE]
  /\ UNCHANGED <<life, taskVars, cancelled, gate, authVars, current, viewVars, lost, loggedOut>>

Continues(t) ==
  \/ \E a \in Accounts : Exchanged(t, a)
  \/ Refreshed(t) \/ Rejected(t) \/ Verified(t) \/ Unauthorized(t) \/ Profile(t)
  \/ Revoked(t) \/ Forget(t) \/ Apply(t) \/ (t = "sync" /\ SyncGivesUp)
  \/ SaveThrows(t) \/ \E kind \in {"cancelled", "error"} : Throws(t, kind)

Next ==
  \/ SignIn \/ SignOut \/ Refresh \/ SaveProfile \/ CancelSignIn
  \/ \E t \in Tasks : TakeGate(t) \/ Continues(t)
  \/ StartProcess \/ Quit \/ Closed \/ Crash
  \/ Expire
  \/ \E g \in 1 .. Len(server) : ServerRevokes(g)

Spec == Init /\ [][Next]_vars

\* Every request has a timeout (30 seconds; five minutes for the browser), the
\* UI thread runs what is posted to it while the process runs, and waiters of a
\* SemaphoreSlim are served in their order.
FairSpec ==
  /\ Spec
  /\ \A t \in Tasks : WF_vars(Continues(t)) /\ SF_vars(TakeGate(t))
  /\ WF_vars(Closed)

-------------------------------------------------------------------------------
\* Safety

\* A sign-out is final: a refresh, a profile update or a synchronization that
\* was under way never brings the session or a token back; only a new
\* interactive sign-in stores one, across crashes and restarts too.
NoResurrection == loggedOut => store = NoToken /\ access = 0

\* The stored refresh token is the last that the server issued for its grant,
\* unless the answer that carried a later one was lost.  A rotation is thus never
\* replayed for want of a save, whatever fails between the save and the profile.
RotationKept ==
  store # NoToken /\ store.n < server[store.grant].latest => store.grant \in lost

\* A token in memory is backed by a session on disk, and never outlives it: the
\* stored session is its own, or of a later sign-in that was cut off.  One failure leaves
\* it alone in memory, until it expires: a save that took the old session away.
AccessBacked == access # 0 => access <= store.grant \/ torn

\* IsRefreshing does not outlive the commands, or every button would stay dead.
NeverStuck == busy => \E c \in Commands : pc[c] # "idle"

-------------------------------------------------------------------------------
\* Liveness

\* Every command and the synchronization end, however they queue for the gate
\* and whatever fails on the way.
CommandsEnd == \A t \in Tasks : pc[t] # "idle" ~> pc[t] = "idle"

\* Exit awaits every command, with the UI thread blocked, and completes.
ExitCompletes == life = "closing" ~> life = "down"

-------------------------------------------------------------------------------
\* What the documentation claims and the code does not keep

\* IAccountService.cs:19, "Clears the locally cached profile after logout": once
\* a sign-out has ended, no profile is cached until somebody signs in again.
ProfileForgotten == loggedOut /\ pc["signOut"] = "idle" => current = NoAccount
=============================================================================
