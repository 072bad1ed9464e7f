---------------------------- MODULE AccountService ----------------------------
(***************************************************************************)
(* The account service, backend/src: a request is verified, counted by the *)
(* limiter (RateLimiter), validated, and served by one transaction on a    *)
(* connection of the pool.  The transaction names its user, and the rows   *)
(* the database shows and accepts are that user's only (the policies of    *)
(* backend/migrations).  Statements fail, connections break, and a COMMIT  *)
(* may take effect although its answer is lost.                            *)
(***************************************************************************)
EXTENDS RateLimiter

CONSTANTS Calls,        \* bound: the requests of one behaviour
          Connections,  \* the connections of the pool, at most 5
          Names,        \* display names that pass validation
          Registered,   \* the name of the registration, shown without a profile
          NoOne         \* no subject, no call, no scope, no write

ASSUME ServiceAssumption == /\ Registered \notin Names
                            /\ NoOne \notin Subjects \cup Calls \cup Names

VARIABLES call,        \* the requests
          connection,  \* the pool
          profile      \* keepmealive.profiles, as committed

serviceVars == <<vars, call, connection, profile>>

Bodies == {"none", "large", "untyped", "unnamed", "valid"}  \* "none": a GET
Phases == {"new", "connecting", "begin", "scope", "write", "read", "commit", "committed",
           "rollback", "answered"}
Answers == {"none", "ok", "unauthorized", "busy", "rate_limited", "not_found", "too_large",
            "content_type", "invalid", "unavailable"}
Free == [holder |-> NoOne, open |-> FALSE, scope |-> NoOne, draft |-> NoOne]

\* The types; a connection remembers the transaction it is in, its user and its write.
ServiceTypeOK ==
  /\ TypeOK
  /\ call \in [Calls -> [phase : Phases, subject : Subjects \cup {NoOne}, body : Bodies,
                         name : Names \cup {Registered}, shown : Names \cup {Registered}, answer : Answers,
                         durable : BOOLEAN, lost : BOOLEAN]]
  /\ connection \in [Connections -> [holder : Calls \cup {NoOne}, open : BOOLEAN,
                                     scope : Subjects \cup {NoOne},
                                     draft : Names \cup {NoOne}]]
  /\ profile \in [Subjects -> Names \cup {Registered}]

ServiceInit ==
  /\ Init
  /\ call = [c \in Calls |-> [phase |-> "new", subject |-> NoOne, body |-> "none",
                              name |-> Registered, shown |-> Registered, answer |-> "none",
                              durable |-> FALSE, lost |-> FALSE]]
  /\ connection = [k \in Connections |-> Free]
  /\ profile \in [Subjects -> Names \cup {Registered}]

-------------------------------------------------------------------------------

Held(c) == {k \in Connections : connection[k].holder = c}
Goto(c, phase) == call' = [call EXCEPT ![c].phase = phase]
Answer(c, answer) == call' = [call EXCEPT ![c].phase = "answered", ![c].answer = answer]

\* What the body limit and the validation of PATCH /v1/profile answer, in their order.
Refusal(body) == CASE body = "large" -> "too_large"
                   [] body = "untyped" -> "content_type"
                   [] body = "unnamed" -> "invalid"
                   [] OTHER -> "none"

\* The bearer token does not verify, or its subject is not a UUID.
Unauthorized(c) ==
  /\ call[c].phase = "new"
  /\ Answer(c, "unauthorized")
  /\ UNCHANGED <<vars, connection, profile>>

Admitted == reply'.status = "admitted"

\* The token of subject s is verified: the limiter counts the request, and without
\* another await the route is found and the input validated; then a connection is asked for.
Admit(c, s, body) ==
  /\ call[c].phase = "new"
  /\ Request(s)
  /\ \/ /\ Admitted
        /\ Refusal(body) = "none"
        /\ \E name \in IF body = "valid" THEN Names ELSE {Registered} :
             call' = [call EXCEPT ![c].phase = "connecting", ![c].subject = s,
                                  ![c].body = body, ![c].name = name]
     \/ /\ Admitted
        /\ Refusal(body) # "none"
        /\ Answer(c, Refusal(body))
     \/ /\ Admitted
        /\ body = "none"
        /\ Answer(c, "not_found")
     \/ /\ ~Admitted
        /\ Answer(c, reply'.status)
  /\ UNCHANGED <<connection, profile>>

Connect(c, k) ==
  /\ call[c].phase = "connecting"
  /\ connection[k].holder = NoOne
  /\ connection' = [connection EXCEPT ![k].holder = c]
  /\ Goto(c, "begin")
  /\ UNCHANGED <<vars, profile>>

\* No connection within connectionTimeoutMillis.
ConnectFails(c) ==
  /\ call[c].phase = "connecting"
  /\ Answer(c, "unavailable")
  /\ UNCHANGED <<vars, connection, profile>>

Begin(c, k) ==
  /\ call[c].phase = "begin"
  /\ k \in Held(c)
  /\ connection' = [connection EXCEPT ![k].open = TRUE]
  /\ Goto(c, "scope")
  /\ UNCHANGED <<vars, profile>>

\* Mutant: the transaction is not told its user.
Scope_Forgotten(c, k) ==
  /\ call[c].phase = "scope"
  /\ k \in Held(c)
  /\ Goto(c, IF call[c].body = "valid" THEN "write" ELSE "read")
  /\ UNCHANGED <<vars, connection, profile>>

\* set_config('app.user_id', userId, true): for this transaction only.
Scope(c, k) ==
  /\ call[c].phase = "scope"
  /\ k \in Held(c)
  /\ connection' = [connection EXCEPT ![k].scope = call[c].subject]
  /\ Goto(c, IF call[c].body = "valid" THEN "write" ELSE "read")
  /\ UNCHANGED <<vars, profile>>

\* Mutant: the upsert runs outside the transaction.
Write_Autocommit(c, k) ==
  /\ call[c].phase = "write"
  /\ k \in Held(c)
  /\ profile' = [profile EXCEPT ![call[c].subject] = call[c].name]
  /\ call' = [call EXCEPT ![c].phase = "read", ![c].durable = TRUE]
  /\ UNCHANGED <<vars, connection>>

\* The upsert waits for the row while another transaction has written it; its policy
\* admits the row of the transaction's user only.
Write(c, k) ==
  /\ call[c].phase = "write"
  /\ k \in Held(c)
  /\ connection[k].scope = call[c].subject
  /\ \A j \in Connections : connection[j].draft # NoOne => connection[j].scope # call[c].subject
  /\ connection' = [connection EXCEPT ![k].draft = call[c].name]
  /\ Goto(c, "read")
  /\ UNCHANGED <<vars, profile>>

\* The profile that connection k may see of subject s: its own write first; without the
\* policy's user no row, and the name of the registration takes its place.
Visible(s, k) ==
  IF connection[k].scope # s THEN Registered
  ELSE IF connection[k].draft # NoOne THEN connection[k].draft
  ELSE profile[s]

Read(c, k) ==
  /\ call[c].phase = "read"
  /\ k \in Held(c)
  /\ call' = [call EXCEPT ![c].shown = Visible(call[c].subject, k), ![c].phase = "commit"]
  /\ UNCHANGED <<vars, connection, profile>>

\* The database ends the transaction of k: its settings go, and its write is kept.
Commit(c, k) ==
  /\ call[c].phase = "commit"
  /\ k \in Held(c)
  /\ connection' = [connection EXCEPT ![k] = [Free EXCEPT !.holder = c]]
  /\ IF connection[k].draft # NoOne
       THEN /\ profile' = [profile EXCEPT ![connection[k].scope] = connection[k].draft]
            /\ call' = [call EXCEPT ![c].phase = "committed", ![c].durable = TRUE]
       ELSE /\ Goto(c, "committed")
            /\ UNCHANGED profile
  /\ UNCHANGED vars

\* Mutant: the answer does not wait for the COMMIT.
Finish_Early(c, k) ==
  /\ call[c].phase \in {"commit", "committed"}
  /\ k \in Held(c)
  /\ connection' = [connection EXCEPT ![k] = Free]
  /\ Answer(c, "ok")
  /\ UNCHANGED <<vars, profile>>

\* COMMIT is answered: the connection is released and the account sent.
Finish(c, k) ==
  /\ call[c].phase = "committed"
  /\ k \in Held(c)
  /\ connection' = [connection EXCEPT ![k].holder = NoOne]
  /\ Answer(c, "ok")
  /\ UNCHANGED <<vars, profile>>

\* A statement fails (its timeout, a policy, a missing account): the transaction can
\* only be rolled back.
Fail(c, k) ==
  /\ call[c].phase \in {"begin", "scope", "write", "read", "commit"}
  /\ k \in Held(c)
  /\ Goto(c, "rollback")
  /\ UNCHANGED <<vars, connection, profile>>

\* Mutant: a failed transaction is released as it is.
Rollback_Skipped(c, k) ==
  /\ call[c].phase = "rollback"
  /\ k \in Held(c)
  /\ connection' = [connection EXCEPT ![k].holder = NoOne]
  /\ Answer(c, "unavailable")
  /\ UNCHANGED <<vars, profile>>

\* ROLLBACK, the release in the finally block, and onError's 503.
Rollback(c, k) ==
  /\ call[c].phase = "rollback"
  /\ k \in Held(c)
  /\ connection' = [connection EXCEPT ![k] = Free]
  /\ Answer(c, "unavailable")
  /\ UNCHANGED <<vars, profile>>

\* Mutant: a broken connection is never given back.
Break_Kept(c, k) ==
  /\ call[c].phase \in Phases \ {"new", "connecting", "answered"}
  /\ k \in Held(c)
  /\ call' = [call EXCEPT ![c].phase = "answered", ![c].answer = "unavailable",
                          ![c].lost = call[c].phase = "committed"]
  /\ UNCHANGED <<vars, connection, profile>>

\* The connection breaks: the statement and its ROLLBACK fail, the database forgets the
\* transaction, and the pool replaces the released connection.
Break(c, k) ==
  /\ call[c].phase \in Phases \ {"new", "connecting", "answered"}
  /\ k \in Held(c)
  /\ connection' = [connection EXCEPT ![k] = Free]
  /\ call' = [call EXCEPT ![c].phase = "answered", ![c].answer = "unavailable",
                          ![c].lost = call[c].phase = "committed"]
  /\ UNCHANGED <<vars, profile>>

ServiceTick == Tick /\ UNCHANGED <<call, connection, profile>>

\* Every request of the bound is answered.
Done == (\A c \in Calls : call[c].phase = "answered") /\ UNCHANGED serviceVars

ServiceNext ==
  \/ ServiceTick
  \/ Done
  \/ \E c \in Calls :
       \/ Unauthorized(c) \/ ConnectFails(c)
       \/ \E s \in Subjects, body \in Bodies : Admit(c, s, body)
       \/ \E k \in Connections :
            \/ Connect(c, k) \/ Begin(c, k) \/ Scope(c, k) \/ Write(c, k) \/ Read(c, k)
            \/ Commit(c, k) \/ Finish(c, k) \/ Fail(c, k) \/ Rollback(c, k) \/ Break(c, k)

ServiceSpec == ServiceInit /\ [][ServiceNext]_serviceVars

-------------------------------------------------------------------------------

\* However the transaction of its last user ended, a connection that waits in the pool
\* carries nothing of it to the next: no transaction, no user, no write
\* (repository.ts, scoped).
CleanPool == \A k \in Connections : connection[k].holder = NoOne => connection[k] = Free

\* No path through scoped keeps a connection: whoever holds one is still at work, and on
\* one connection only.
NoLeak ==
  /\ \A k \in Connections :
       connection[k].holder # NoOne =>
         call[connection[k].holder].phase \notin {"new", "connecting", "answered"}
  /\ \A c \in Calls : Cardinality(Held(c)) <= 1

\* The update a user was told of is in the database, and it is the name the user sent.
AcknowledgedIsKept ==
  \A c \in Calls : call[c].answer = "ok" /\ call[c].body = "valid" =>
                     call[c].durable /\ call[c].shown = call[c].name

\* A refused request leaves no trace; only the loss of the COMMIT's answer can keep an
\* update whose user was told that the service is unavailable.
RefusedLeavesNoTrace ==
  \A c \in Calls : call[c].phase = "answered" /\ call[c].answer # "ok" /\ call[c].durable =>
                     call[c].answer = "unavailable" /\ call[c].lost

\* Whoever reads an account sees its profile, never the registration in its place.
ProfileShown ==
  [][\A c \in Calls : call[c].phase = "read" /\ call'[c].phase = "commit" =>
       call'[c].shown = IF call[c].body = "valid" THEN call[c].name
                        ELSE profile[call[c].subject]]_serviceVars

\* What scoped and the routes of app.ts keep, wherever a statement, a connection or the answer
\* of a COMMIT fails: the pool, the isolation of its users, and what the users are told.
ServiceKept == CleanPool /\ NoLeak /\ AcknowledgedIsKept /\ RefusedLeavesNoTrace
===============================================================================
