-------------------------- MODULE AccountSessionProofs --------------------------
(***************************************************************************)
(* Proofs about AccountSession for any accounts, any number of sign-ins,   *)
(* rotations and commands at once.                                         *)
(***************************************************************************)
EXTENDS AccountSession, SequenceTheorems, TLAPS

Grants == [account : Accounts, latest : 0 .. MaxRotations, valid : BOOLEAN]

\* The gate is held by every task at an await under it, hence by one task only.
GateExclusive == \A t \in Tasks : pc[t] \in Holds => gate = t

\* Whoever is about to replace the session, or has just replaced it, works with
\* the session that is stored.
HeldStored ==
  \A t \in Tasks :
    pc[t] \in Checks \cup {"refreshing"} => held[t] = store /\ store # NoToken

\* Tokens are tokens of grants that the server has given out.
Issued ==
  /\ store.grant <= Len(server)
  /\ \A t \in Tasks : held[t].grant <= Len(server)
  /\ \A t \in Tasks : pc[t] = "revoking" => held[t] # NoToken

\* What is known of the token in memory: it was given out, and one that a torn save left alone
\* has no session on disk at all.
AccessInv ==
  /\ AccessBacked
  /\ access <= Len(server)
  /\ torn => store = NoToken

CoreInv ==
  /\ TypeOK
  /\ GateExclusive
  /\ HeldStored
  /\ Issued
  /\ NoResurrection
  /\ RotationKept
  /\ AccessInv
  /\ NeverStuck

\* Nothing runs in a process that does not.
IdleWhenDown == life = "down" => \A t \in Tasks : pc[t] = "idle"

IInv == CoreInv /\ IdleWhenDown

-------------------------------------------------------------------------------
\* NoToken is a token, of no grant.
LEMMA NoTokenFacts == NoToken \in Tokens /\ NoToken.grant = 0
  BY DEF Tokens, NoToken

\* A token that is not NoToken belongs to a grant.
LEMMA TokenFacts ==
  ASSUME NEW token \in Tokens
  PROVE  /\ token.grant \in 0 .. MaxGrants
         /\ token.n \in 0 .. MaxRotations
         /\ token.grant = 0 <=> token = NoToken
         /\ Bearer(token.grant) \in Tokens
         /\ Bearer(token.grant).grant = token.grant
         /\ [token EXCEPT !.n = @ + 1] = [grant |-> token.grant, n |-> token.n + 1]
         /\ token # NoToken /\ token.n < MaxRotations => [token EXCEPT !.n = @ + 1] \in Tokens
  BY AccountAssumption DEF Tokens, NoToken, Bearer

\* Signing in adds a grant and leaves the others alone.
LEMMA GrantAdded ==
  ASSUME TypeOK, NEW a \in Accounts, Len(server) < MaxGrants,
         server' = Append(server, [account |-> a, latest |-> 0, valid |-> TRUE])
  PROVE  /\ server' \in Seq(Grants)
         /\ Len(server') = Len(server) + 1
         /\ server'[Len(server) + 1].latest = 0
  <1>1. [account |-> a, latest |-> 0, valid |-> TRUE] \in Grants
    BY AccountAssumption DEF Grants
  <1>2. server \in Seq(Grants)
    BY DEF TypeOK, Grants
  <1> QED
    BY <1>1, <1>2, AppendProperties

\* Rotation changes one grant, in one field.
LEMMA GrantRotated ==
  ASSUME TypeOK, NEW token \in Tokens, token # NoToken, token.grant <= Len(server), Rotated(token)
  PROVE  /\ server' \in Seq(Grants)
         /\ Len(server') = Len(server)
         /\ server'[token.grant].latest = token.n + 1
         /\ \A g \in 1 .. Len(server) : g # token.grant => server'[g] = server[g]
  <1> DEFINE rec == [server[token.grant] EXCEPT !.latest = token.n + 1]
  <1>1. server \in Seq(Grants)
    BY DEF TypeOK, Grants
  <1>0. /\ token.grant \in 0 .. MaxGrants /\ token.n \in 0 .. MaxRotations
        /\ token.grant # 0
    BY TokenFacts
  <1>6. Len(server) \in Nat
    BY <1>1, LenProperties
  <1>2. token.grant \in 1 .. Len(server)
    BY <1>0, <1>6, AccountAssumption
  <1>3. server[token.grant] \in Grants
    BY <1>1, <1>2, ElementOfSeq
  <1>4. rec \in Grants /\ rec.latest = token.n + 1
    BY <1>0, <1>3, AccountAssumption DEF Grants, Rotated
  <1>5. server' = [server EXCEPT ![token.grant] = rec]
    BY DEF Rotated
  <1> HIDE DEF rec
  <1> QED
    BY <1>1, <1>2, <1>4, <1>5, ExceptSeq

\* Revocation leaves the rotations alone.
LEMMA GrantRevoked ==
  ASSUME TypeOK, NEW g \in 1 .. Len(server)
  PROVE  LET next == [server EXCEPT ![g].valid = FALSE]
         IN  /\ next \in Seq(Grants)
             /\ Len(next) = Len(server)
             /\ \A h \in 1 .. Len(server) : next[h].latest = server[h].latest
  <1> DEFINE rec == [server[g] EXCEPT !.valid = FALSE]
  <1>1. server \in Seq(Grants)
    BY DEF TypeOK, Grants
  <1>3. server[g] \in Grants
    BY <1>1, ElementOfSeq
  <1>4. rec \in Grants /\ rec.latest = server[g].latest
    BY <1>3 DEF Grants
  <1>5. [server EXCEPT ![g].valid = FALSE] = [server EXCEPT ![g] = rec]
    OBVIOUS
  <1> HIDE DEF rec
  <1>6. /\ [server EXCEPT ![g] = rec] \in Seq(Grants)
        /\ Len([server EXCEPT ![g] = rec]) = Len(server)
        /\ \A h \in 1 .. Len(server) :
              [server EXCEPT ![g] = rec][h] = IF h = g THEN rec ELSE server[h]
    BY <1>1, <1>4, ExceptSeq
  <1> QED
    BY <1>4, <1>5, <1>6

\* The profile read with a token that was given out is an account's.
LEMMA ProfileKnown ==
  ASSUME TypeOK, NEW token \in Tokens, token.grant <= Len(server)
  PROVE  ProfileOf(token) \in Accounts \cup {NoAccount}
  <1>1. CASE token = NoToken
    BY <1>1 DEF ProfileOf
  <1>2. CASE token # NoToken
    <2>1. server \in Seq(Grants)
      BY DEF TypeOK, Grants
    <2>0. token.grant \in 0 .. MaxGrants /\ token.grant # 0
      BY <1>2, TokenFacts
    <2>4. Len(server) \in Nat
      BY <2>1, LenProperties
    <2>2. token.grant \in 1 .. Len(server)
      BY <2>0, <2>4, AccountAssumption
    <2>3. server[token.grant] \in Grants
      BY <2>1, <2>2, ElementOfSeq
    <2> QED
      BY <1>2, <2>3 DEF ProfileOf, Grants
  <1> QED
    BY <1>1, <1>2

\* The invariant holds when the program has never run or holds an old session.
LEMMA InitCoreInv == Init => CoreInv
  <1> SUFFICES ASSUME Init PROVE CoreInv
    OBVIOUS
  <1>1. /\ server \in Seq(Grants)
        /\ Len(server) <= MaxGrants
        /\ store \in Tokens
        /\ store.grant <= Len(server)
        /\ store # NoToken => store.n = 0 /\ server[store.grant].latest = 0
    <2>1. CASE store = NoToken /\ server = <<>>
      <3>1. server \in Seq(Grants) /\ Len(server) = 0
        BY <2>1, EmptySeq
      <3>2. store.grant = 0
        BY <2>1 DEF NoToken
      <3> QED
        BY <2>1, <3>1, <3>2, AccountAssumption DEF Tokens
    <2>2. ASSUME store = [grant |-> 1, n |-> 0], NEW a \in Accounts,
                 server = <<[account |-> a, latest |-> 0, valid |-> TRUE]>>
          PROVE  /\ server \in Seq(Grants)
                 /\ Len(server) <= MaxGrants
                 /\ store \in Tokens
                 /\ store.grant <= Len(server)
                 /\ store # NoToken => store.n = 0 /\ server[store.grant].latest = 0
      <3>1. [account |-> a, latest |-> 0, valid |-> TRUE] \in Grants
        BY AccountAssumption DEF Grants
      <3> QED
        BY <2>2, <3>1, AccountAssumption DEF Tokens
    <2>3. \/ store = NoToken /\ server = <<>>
          \/ /\ store = [grant |-> 1, n |-> 0]
             /\ \E a \in Accounts : server = <<[account |-> a, latest |-> 0, valid |-> TRUE]>>
      BY DEF Init
    <2> QED
      BY <2>1, <2>2, <2>3
  <1>2. TypeOK
    <2>1. pc \in [Tasks -> Places] /\ held \in [Tasks -> Tokens]
      BY NoTokenFacts DEF Init, Places
    <2>2. access \in 0 .. MaxGrants
      <3>1. access = 0
        BY DEF Init
      <3> QED
        BY <3>1, AccountAssumption
    <2> QED
      BY <1>1, <2>1, <2>2 DEF Init, TypeOK, Grants, Statuses
  <1>3. GateExclusive /\ HeldStored
    BY DEF Init, GateExclusive, HeldStored, Holds, Checks
  <1>4. Issued
    <2>1. Len(server) \in Nat
      BY <1>1, LenProperties
    <2> QED
      <3>1. \A t \in Tasks : held[t] = NoToken /\ pc[t] = "idle"
        BY DEF Init
      <3> QED
        BY <1>1, <2>1, <3>1, NoTokenFacts DEF Issued
  <1>5. NoResurrection /\ AccessInv /\ NeverStuck
    <2>1. Len(server) >= 0
      BY <1>1, LenProperties
    <2> QED
      BY <1>1, <2>1, TokenFacts DEF Init, NoResurrection, AccessInv, AccessBacked, NeverStuck
  <1>6. RotationKept
    BY <1>1 DEF RotationKept
  <1> QED
    BY <1>2, <1>3, <1>4, <1>5, <1>6 DEF CoreInv

-------------------------------------------------------------------------------
\* A step of one task moves or ends that task and leaves the others where they are.
Steps(t, place, token) ==
  \/ Moved(t, place, token) /\ place # "idle"
  \/ Ended(t) /\ place = "idle" /\ token = NoToken

LEMMA StepFacts ==
  ASSUME TypeOK, NeverStuck, NEW t \in Tasks, NEW place \in Places, NEW token \in Tokens,
         Steps(t, place, token)
  PROVE  /\ pc' \in [Tasks -> Places]
         /\ held' \in [Tasks -> Tokens]
         /\ cancelled' \subseteq Tasks
         /\ busy' \in BOOLEAN
         /\ pc'[t] = place /\ held'[t] = token
         /\ \A u \in Tasks \ {t} : pc'[u] = pc[u] /\ held'[u] = held[u]
         /\ NeverStuck'
  <1>1. /\ pc' = [pc EXCEPT ![t] = place]
        /\ held' = [held EXCEPT ![t] = token]
    BY DEF Steps, Moved, Ended
  <1>2. /\ pc' \in [Tasks -> Places]
        /\ held' \in [Tasks -> Tokens]
        /\ pc'[t] = place /\ held'[t] = token
        /\ \A u \in Tasks \ {t} : pc'[u] = pc[u] /\ held'[u] = held[u]
    BY <1>1 DEF TypeOK
  <1>3. cancelled' \subseteq Tasks /\ busy' \in BOOLEAN
    BY DEF Steps, Moved, Ended, TypeOK
  <1>4. NeverStuck'
    <2>1. CASE Moved(t, place, token) /\ place # "idle"
      BY <1>2, <2>1 DEF Moved, NeverStuck, Tasks
    <2>2. CASE Ended(t)
      BY <1>2, <2>2 DEF Ended, NeverStuck, Tasks, Commands
    <2> QED
      BY <2>1, <2>2 DEF Steps
  <1> QED
    BY <1>2, <1>3, <1>4

\* Whoever takes the gate finds nobody at work under it, and whoever is at work
\* under it is alone.
LEMMA GateFacts ==
  ASSUME TypeOK, GateExclusive
  PROVE  /\ gate = Free => \A u \in Tasks : pc[u] \notin Holds
         /\ \A t \in Tasks : pc[t] \in Holds =>
               gate = t /\ \A u \in Tasks \ {t} : pc[u] \notin Holds
         /\ Free \notin Tasks
  BY DEF TypeOK, GateExclusive, Free, Tasks, Commands

\* What a step of one task does to the gate, and with which token: it takes the
\* gate, keeps it or gives it up, and touches the store only if it may.
TaskOutcome(t, place, token) ==
  /\ Steps(t, place, token)
  /\ gate' = IF place \in Holds THEN t ELSE IF gate = t THEN Free ELSE gate
  /\ place \in Holds => gate \in {t, Free}
  /\ place \in Checks \cup {"refreshing"} => token = store' /\ token # NoToken
  /\ store' = store \/ pc[t] \in Holds \/ gate = Free
  /\ place = "revoking" => token # NoToken
  /\ token.grant <= Len(server')
  /\ store'.grant <= Len(server')
  /\ Len(server) <= Len(server')

\* The types of what is not the tasks'.
RestTyped ==
  /\ life' \in {"down", "running", "closing"}
  /\ store' \in Tokens
  /\ access' \in 0 .. MaxGrants
  /\ fresh' \in BOOLEAN
  /\ torn' \in BOOLEAN
  /\ current' \in Accounts \cup {NoAccount}
  /\ shown' \in Accounts \cup {NoAccount}
  /\ status' \in Statuses
  /\ server' \in Seq(Grants)
  /\ Len(server') <= MaxGrants
  /\ lost' \subseteq 1 .. MaxGrants
  /\ loggedOut' \in BOOLEAN

\* A step of one task preserves the part of the invariant about the tasks.
LEMMA TasksStep ==
  ASSUME CoreInv, NEW t \in Tasks, NEW place \in Places, NEW token \in Tokens,
         TaskOutcome(t, place, token), RestTyped
  PROVE  /\ gate' \in {u \in Tasks : pc'[u] \in Holds} \cup {Free}
         /\ GateExclusive'
         /\ HeldStored'
         /\ Issued'
  <1>1. /\ pc' \in [Tasks -> Places]
        /\ pc'[t] = place /\ held'[t] = token
        /\ \A u \in Tasks \ {t} : pc'[u] = pc[u] /\ held'[u] = held[u]
    BY StepFacts DEF CoreInv, TaskOutcome
  <1>0. Len(server) \in Nat /\ Len(server') \in Nat
    BY LenProperties DEF CoreInv, TypeOK, RestTyped, Grants
  <1>2. /\ gate = Free => \A u \in Tasks : pc[u] \notin Holds
        /\ \A u \in Tasks : pc[u] \in Holds =>
              gate = u /\ \A v \in Tasks \ {u} : pc[v] \notin Holds
        /\ Free \notin Tasks
        /\ gate \in {u \in Tasks : pc[u] \in Holds} \cup {Free}
    BY GateFacts DEF CoreInv, TypeOK
  <1>3. gate' \in {u \in Tasks : pc'[u] \in Holds} \cup {Free}
    BY <1>1, <1>2 DEF TaskOutcome
  <1>4. GateExclusive'
    BY <1>1, <1>2 DEF GateExclusive, TaskOutcome
  <1>5. HeldStored'
    <2> SUFFICES ASSUME NEW u \in Tasks, pc'[u] \in Checks \cup {"refreshing"}
                 PROVE  held'[u] = store' /\ store' # NoToken
      BY DEF HeldStored
    <2>1. CASE u = t
      BY <1>1, <2>1 DEF TaskOutcome
    <2>2. CASE u # t
      <3>1. pc[u] \in Checks \cup {"refreshing"} /\ held'[u] = held[u]
        BY <1>1, <2>2
      <3>2. pc[u] \in Holds
        BY <3>1 DEF Holds
      <3>3. held[u] = store /\ store # NoToken
        BY <3>1 DEF CoreInv, HeldStored
      <3> QED
        BY <1>2, <2>2, <3>1, <3>2, <3>3 DEF TaskOutcome
    <2> QED
      BY <2>1, <2>2
  <1>6. Issued'
    <2>0. \A u \in Tasks : held[u] \in Tokens
      BY DEF CoreInv, TypeOK
    <2>1. \A u \in Tasks : held[u].grant \in Nat
      BY <2>0, AccountAssumption DEF Tokens, NoToken
    <2>2. \A u \in Tasks \ {t} : held'[u].grant <= Len(server')
      BY <1>0, <1>1, <2>1 DEF CoreInv, Issued, TaskOutcome
    <2> QED
      BY <1>0, <1>1, <2>2 DEF CoreInv, Issued, TaskOutcome
  <1> QED
    BY <1>3, <1>4, <1>5, <1>6

\* A step of one task preserves the whole invariant, if it keeps what relates the
\* store, the token in memory and the server.
LEMMA TaskStep ==
  ASSUME CoreInv, NEW t \in Tasks, NEW place \in Places, NEW token \in Tokens,
         TaskOutcome(t, place, token), RestTyped,
         NoResurrection', RotationKept', AccessInv'
  PROVE  CoreInv'
  <1>1. /\ pc' \in [Tasks -> Places]
        /\ held' \in [Tasks -> Tokens]
        /\ cancelled' \subseteq Tasks
        /\ busy' \in BOOLEAN
        /\ NeverStuck'
    BY StepFacts DEF CoreInv, TaskOutcome
  <1>2. /\ gate' \in {u \in Tasks : pc'[u] \in Holds} \cup {Free}
        /\ GateExclusive' /\ HeldStored' /\ Issued'
    BY TasksStep
  <1>3. TypeOK'
    BY <1>1, <1>2 DEF TypeOK, RestTyped, Grants
  <1> QED
    BY <1>1, <1>2, <1>3 DEF CoreInv

-------------------------------------------------------------------------------
\* What every state offers to the steps below.
LEMMA StateFacts ==
  ASSUME CoreInv
  PROVE  /\ server \in Seq(Grants) /\ Len(server) \in Nat /\ Len(server) <= MaxGrants
         /\ store \in Tokens /\ store.grant \in Nat /\ store.grant <= Len(server)
         /\ access <= Len(server)
         /\ access \in 0 .. MaxGrants /\ 0 \in 0 .. MaxGrants
         /\ \A t \in Tasks : held[t] \in Tokens /\ held[t].grant \in Nat /\ held[t].grant <= Len(server)
         /\ NoToken \in Tokens /\ NoToken.grant = 0
         /\ \A t \in Tasks : pc[t] \notin Holds => gate # t
         /\ \A t \in Tasks : pc[t] \in Holds => gate = t
  <1>1. server \in Seq(Grants) /\ Len(server) <= MaxGrants
    BY DEF CoreInv, TypeOK, Grants
  <1>2. Len(server) \in Nat
    BY <1>1, LenProperties
  <1>3. \A t \in Tasks : held[t] \in Tokens /\ held[t].grant <= Len(server)
    BY DEF CoreInv, TypeOK, Issued
  <1>4. \A token \in Tokens : token.grant \in Nat
    BY AccountAssumption DEF Tokens, NoToken
  <1>5. /\ \A t \in Tasks : pc[t] \notin Holds => gate # t
        /\ \A t \in Tasks : pc[t] \in Holds => gate = t
    BY GateFacts DEF CoreInv, TypeOK
  <1>6. store \in Tokens /\ store.grant <= Len(server) /\ access \in 0 .. MaxGrants
    BY DEF CoreInv, TypeOK, Issued
  <1>7. 0 \in 0 .. MaxGrants
    BY AccountAssumption
  <1>8. access <= Len(server)
    BY DEF CoreInv, AccessInv
  <1> QED
    BY <1>1, <1>2, <1>3, <1>4, <1>5, <1>6, <1>7, <1>8, NoTokenFacts

\* A command that fails goes nowhere and leaves a status of the page.
LEMMA FailedFacts ==
  ASSUME CoreInv, NEW t \in Tasks, NEW kind, Failed(t, kind)
  PROVE  Steps(t, "idle", NoToken) /\ status' \in Statuses /\ shown' \in Accounts \cup {NoAccount}
  BY DEF CoreInv, TypeOK, Failed, Steps, StatusAfter, Statuses

\* Without a session a command goes on to show that, or fails.
LEMMA NoSessionFacts ==
  ASSUME CoreInv, NEW t \in Tasks, NoSession(t)
  PROVE  /\ \E place \in {"idle", "forget"} : Steps(t, place, NoToken)
         /\ status' \in Statuses /\ shown' \in Accounts \cup {NoAccount}
  <1>1. CASE t = "save"
    BY <1>1, FailedFacts DEF NoSession
  <1>2. CASE t # "save"
    BY <1>2 DEF NoSession, Steps, CoreInv, TypeOK
  <1> QED
    BY <1>1, <1>2

\* The steps that only read what the session is: they leave it, the server and
\* the sign-outs alone, and give up the gate if they hold it.
LEMMA ReadingStep ==
  ASSUME CoreInv, NEW t \in Tasks, NEW place \in Places \ Holds, NEW token \in Tokens,
         Steps(t, place, token), token.grant <= Len(server),
         gate' = Released(t),
         UNCHANGED <<life, authVars, serverVars, loggedOut>>,
         current' \in Accounts \cup {NoAccount}, shown' \in Accounts \cup {NoAccount},
         status' \in Statuses
  PROVE  CoreInv'
  <1>1. TaskOutcome(t, place, token)
    BY StateFacts DEF TaskOutcome, Released, authVars, serverVars, Holds, Checks
  <1>2. RestTyped
    BY StateFacts DEF RestTyped, authVars, serverVars, CoreInv, TypeOK
  <1>3. NoResurrection' /\ RotationKept' /\ AccessInv'
    BY DEF CoreInv, NoResurrection, RotationKept, AccessInv, AccessBacked, authVars, serverVars
  <1> QED
    BY <1>1, <1>2, <1>3, TaskStep

\* The steps that delete the session, or fail to.
LEMMA ClearingStep ==
  ASSUME CoreInv, NEW t \in Tasks, NEW place \in {"idle", "forget", "revoking"}, NEW token \in Tokens,
         Steps(t, place, token),
         store' \in {store, NoToken}, access' = 0, fresh' = FALSE, torn' = FALSE,
         gate \in {t, Free},
         gate' = IF place = "revoking" THEN t ELSE Free,
         place = "revoking" => token # NoToken,
         token.grant <= Len(server),
         loggedOut' = loggedOut \/ (store' = NoToken /\ loggedOut' = TRUE),
         UNCHANGED <<life, current, serverVars>>,
         shown' \in Accounts \cup {NoAccount}, status' \in Statuses
  PROVE  CoreInv'
  <1>1. /\ place \in Places
        /\ place \in Holds <=> place = "revoking"
        /\ place \notin Checks \cup {"refreshing"}
    BY DEF Places, Holds, Checks
  <1>2. store' = store \/ pc[t] \in Holds \/ gate = Free
    BY StateFacts
  <1>3. TaskOutcome(t, place, token)
    BY <1>1, <1>2, StateFacts DEF TaskOutcome, serverVars
  <1>4. RestTyped
    BY StateFacts DEF RestTyped, serverVars, CoreInv, TypeOK
  <1>5. NoResurrection' /\ RotationKept' /\ AccessInv'
    BY StateFacts DEF CoreInv, NoResurrection, RotationKept, AccessInv, AccessBacked, serverVars
  <1> QED
    BY <1>1, <1>3, <1>4, <1>5, TaskStep

-------------------------------------------------------------------------------
\* A command that begins waits for the gate and changes no session.
LEMMA BeginStep ==
  ASSUME CoreInv, NEW c \in Commands, NEW place \in Waits, Begin(c, place),
         cancelled' \subseteq Tasks, status' \in Statuses
  PROVE  CoreInv'
  <1>0. c \in Tasks /\ place \in Places \ Holds /\ place # "idle"
    BY DEF Tasks, Waits, Places, Holds, Checks
  <1>1. /\ pc[c] = "idle" /\ pc' = [pc EXCEPT ![c] = place] /\ busy' = TRUE
        /\ UNCHANGED <<life, held, gate, authVars, current, shown, serverVars, loggedOut>>
    BY DEF Begin
  <1>2. /\ pc' \in [Tasks -> Places] /\ pc'[c] = place
        /\ \A u \in Tasks \ {c} : pc'[u] = pc[u]
    BY <1>0, <1>1 DEF CoreInv, TypeOK
  <1>3. gate' \in {u \in Tasks : pc'[u] \in Holds} \cup {Free}
    <2>1. gate # c
      BY <1>0, <1>1, StateFacts DEF Holds, Checks
    <2> QED
      BY <1>1, <1>2, <2>1 DEF CoreInv, TypeOK
  <1>4. TypeOK'
    BY <1>1, <1>2, <1>3 DEF CoreInv, TypeOK, authVars, serverVars
  <1>5. GateExclusive' /\ HeldStored' /\ Issued'
    BY <1>0, <1>1, <1>2 DEF CoreInv, GateExclusive, HeldStored, Issued, Waits, Holds, Checks, authVars, serverVars
  <1>6. NoResurrection' /\ RotationKept' /\ AccessInv'
    BY <1>1 DEF CoreInv, NoResurrection, RotationKept, AccessInv, AccessBacked, authVars, serverVars
  <1>7. NeverStuck'
    BY <1>0, <1>2 DEF NeverStuck
  <1> QED
    BY <1>4, <1>5, <1>6, <1>7 DEF CoreInv

\* The two ways in which a sign-out deletes the session.
LEMMA ClearLocallyStep == ASSUME CoreInv, NEW t \in Tasks, ClearLocally(t) PROVE CoreInv'
  <1>1. /\ store' = NoToken /\ access' = 0 /\ fresh' = FALSE /\ torn' = FALSE
        /\ loggedOut' = TRUE /\ gate = Free
        /\ UNCHANGED <<life, current, shown, status, serverVars>>
    BY DEF ClearLocally, Enters, Cleared
  <1>2. shown' \in Accounts \cup {NoAccount} /\ status' \in Statuses
    BY <1>1 DEF CoreInv, TypeOK
  <1>3. loggedOut' = loggedOut \/ (store' = NoToken /\ loggedOut' = TRUE)
    BY <1>1
  <1>4. CASE Moved(t, "forget", NoToken) /\ UNCHANGED gate
    <2>1. Steps(t, "forget", NoToken)
      BY <1>4 DEF Steps
    <2>2. gate' = Free /\ gate \in {t, Free} /\ store' \in {store, NoToken} /\ torn' = FALSE
      BY <1>1, <1>4
    <2>3. NoToken \in Tokens /\ NoToken.grant <= Len(server)
      BY StateFacts
    <2> QED
      BY <1>1, <1>2, <1>3, <2>1, <2>2, <2>3, ClearingStep
  <1>5. CASE store # NoToken /\ Moved(t, "revoking", store) /\ gate' = t
    <2>1. Steps(t, "revoking", store)
      BY <1>5 DEF Steps
    <2> QED
      BY <1>1, <1>2, <1>3, <1>5, <2>1, StateFacts, ClearingStep
  <1> QED
    BY <1>4, <1>5 DEF ClearLocally

\* A sign-out whose deletion throws leaves the session or nothing.
LEMMA ClearFailsStep == ASSUME CoreInv, NEW t \in Tasks, ClearFails(t) PROVE CoreInv'
  <1>1. /\ gate = Free /\ gate' = Free
        /\ UNCHANGED <<life, current, serverVars, loggedOut>>
    BY DEF ClearFails, Enters
  <1>2. Steps(t, "idle", NoToken) /\ shown' \in Accounts \cup {NoAccount} /\ status' \in Statuses
    BY FailedFacts DEF ClearFails
  <1>3. loggedOut' = loggedOut \/ (store' = NoToken /\ loggedOut' = TRUE)
    BY <1>1
  <1>4. UNCHANGED <<life, current, serverVars>> /\ gate \in {t, Free}
    BY <1>1
  <1>5. NoToken \in Tokens /\ NoToken.grant <= Len(server)
    BY StateFacts
  <1>6. CASE ClearThrows
    <2>1. store' \in {store, NoToken} /\ access' = 0 /\ fresh' = FALSE /\ torn' = FALSE
      BY <1>6 DEF ClearThrows
    <2> QED
      BY <1>1, <1>2, <1>3, <1>4, <1>5, <2>1, ClearingStep
  <1>7. CASE UNCHANGED authVars
    <2>1. gate' = Released(t) /\ "idle" \in Places \ Holds
      BY <1>1 DEF Released, Places, Holds, Checks
    <2>2. current' \in Accounts \cup {NoAccount} /\ UNCHANGED <<life, authVars, serverVars, loggedOut>>
      BY <1>1, <1>7 DEF CoreInv, TypeOK
    <2> QED
      BY <1>2, <1>5, <2>1, <2>2, ReadingStep
  <1> QED
    BY <1>6, <1>7 DEF ClearFails

\* Taking the gate.
LEMMA TakeGateStep == ASSUME CoreInv, NEW t \in Tasks, TakeGate(t) PROVE CoreInv'
  <1> USE StateFacts
  <1>1. CASE OpenBrowser(t)
    <2>1. "browser" \in Places /\ Steps(t, "browser", NoToken)
      BY <1>1 DEF OpenBrowser, Steps, Places, Holds
    <2>2. TaskOutcome(t, "browser", NoToken)
      BY <1>1, <2>1 DEF OpenBrowser, Enters, TaskOutcome, Holds, Checks, authVars, serverVars
    <2>3. RestTyped
      BY <1>1 DEF OpenBrowser, RestTyped, authVars, serverVars, CoreInv, TypeOK
    <2>4. NoResurrection' /\ RotationKept' /\ AccessInv'
      BY <1>1 DEF OpenBrowser, CoreInv, NoResurrection, RotationKept, AccessInv, AccessBacked, authVars, serverVars
    <2> QED
      BY <2>1, <2>2, <2>3, <2>4, TaskStep
  <1>2. CASE GetAccessToken(t)
    <2>1. CASE Usable /\ Moved(t, "profile", Bearer(access)) /\ UNCHANGED <<gate, shown, status>>
      <3>1. Steps(t, "profile", Bearer(access)) /\ "profile" \in Places \ Holds
        BY <2>1 DEF Steps, Places, Holds, Checks
      <3>2. access \in 1 .. MaxGrants /\ access <= Len(server)
        BY <2>1, StateFacts, AccountAssumption DEF Usable
      <3>3. Bearer(access) \in Tokens /\ Bearer(access).grant <= Len(server)
        BY <3>2, AccountAssumption DEF Bearer, Tokens
      <3>4. gate' = Released(t)
        BY <1>2, <2>1 DEF GetAccessToken, Enters, Released
      <3> QED
        BY <1>2, <2>1, <3>1, <3>3, <3>4, ReadingStep DEF GetAccessToken, CoreInv, TypeOK
    <2>2. CASE NoSession(t) /\ UNCHANGED gate
      <3>1. PICK place \in {"idle", "forget"} : Steps(t, place, NoToken)
        BY <2>2, NoSessionFacts
      <3>2. status' \in Statuses /\ shown' \in Accounts \cup {NoAccount}
        BY <2>2, NoSessionFacts
      <3>3. place \in Places \ Holds
        BY <3>1 DEF Places, Holds, Checks
      <3>4. gate' = Released(t)
        BY <1>2, <2>2 DEF GetAccessToken, Enters, Released
      <3>5. UNCHANGED <<life, authVars, current, serverVars, loggedOut>>
        BY <1>2 DEF GetAccessToken
      <3>6. current' \in Accounts \cup {NoAccount}
        BY <3>5 DEF CoreInv, TypeOK
      <3>7. NoToken \in Tokens /\ NoToken.grant <= Len(server)
        OBVIOUS
      <3>8. UNCHANGED <<life, authVars, serverVars, loggedOut>>
        BY <3>5
      <3> QED
        BY <3>1, <3>2, <3>3, <3>4, <3>6, <3>7, <3>8, ReadingStep
    <2>3. CASE store # NoToken /\ Moved(t, "refreshing", store) /\ gate' = t /\ UNCHANGED <<shown, status>>
      <3>1. "refreshing" \in Places /\ Steps(t, "refreshing", store)
        BY <2>3 DEF Steps, Places, Holds
      <3>2. TaskOutcome(t, "refreshing", store)
        BY <1>2, <2>3, <3>1 DEF GetAccessToken, Enters, TaskOutcome, Holds, Checks, authVars, serverVars
      <3>3. RestTyped
        BY <1>2, <2>3 DEF GetAccessToken, RestTyped, authVars, serverVars, CoreInv, TypeOK
      <3>4. NoResurrection' /\ RotationKept' /\ AccessInv'
        BY <1>2 DEF GetAccessToken, CoreInv, NoResurrection, RotationKept, AccessInv, AccessBacked, authVars, serverVars
      <3> QED
        BY <3>1, <3>2, <3>3, <3>4, TaskStep
    <2> QED
      BY <1>2, <2>1, <2>2, <2>3 DEF GetAccessToken
  <1>3. CASE ClearLocally(t)
    BY <1>3, ClearLocallyStep
  <1>4. CASE ClearFails(t)
    BY <1>4, ClearFailsStep
  <1> QED
    BY <1>1, <1>2, <1>3, <1>4 DEF TakeGate

-------------------------------------------------------------------------------
\* Answers.  A new grant is stored with its own token, which nothing in memory
\* can be younger than.
LEMMA ExchangedStep ==
  ASSUME CoreInv, NEW t \in Tasks, NEW a \in Accounts, Exchanged(t, a)
  PROVE  CoreInv'
  <1> DEFINE token == [grant |-> Len(server) + 1, n |-> 0]
  <1>1. /\ pc[t] = "browser" /\ Len(server) < MaxGrants
        /\ server' = Append(server, [account |-> a, latest |-> 0, valid |-> TRUE])
        /\ store' = token /\ torn' = FALSE /\ loggedOut' = FALSE
        /\ Moved(t, "verifyNew", token)
        /\ UNCHANGED <<life, gate, access, fresh, current, shown, status, lost>>
    BY DEF Exchanged, Answered, Stored
  <1>2. /\ server' \in Seq(Grants) /\ Len(server') = Len(server) + 1
        /\ server'[Len(server) + 1].latest = 0
    BY <1>1, GrantAdded DEF CoreInv
  <1>3. token \in Tokens /\ token # NoToken /\ token.grant = Len(server) + 1 /\ token.n = 0
    BY <1>1, StateFacts, AccountAssumption DEF Tokens, NoToken
  <1> HIDE DEF token
  <1>4. "verifyNew" \in Places /\ "verifyNew" \in Holds /\ Steps(t, "verifyNew", token)
    BY <1>1 DEF Steps, Places, Holds, Checks
  <1>5. gate = t /\ pc[t] \in Holds
    BY <1>1, StateFacts DEF Holds
  <1>6. TaskOutcome(t, "verifyNew", token)
    BY <1>1, <1>2, <1>3, <1>4, <1>5, StateFacts DEF TaskOutcome
  <1>7. RestTyped
    <2>1. server' \in Seq(Grants) /\ Len(server') <= MaxGrants
      BY <1>1, <1>2, StateFacts, AccountAssumption
    <2>2. store' \in Tokens /\ loggedOut' \in BOOLEAN
      BY <1>1, <1>3
    <2>3. torn' = FALSE /\ UNCHANGED <<life, access, fresh, current, shown, lost>> /\ status' = status
      BY <1>1
    <2> QED
      BY <2>1, <2>2, <2>3 DEF RestTyped, CoreInv, TypeOK
  <1>8. NoResurrection' /\ RotationKept' /\ AccessInv'
    BY <1>1, <1>2, <1>3, StateFacts DEF CoreInv, NoResurrection, RotationKept, AccessInv, AccessBacked
  <1> QED
    BY <1>3, <1>4, <1>6, <1>7, <1>8, TaskStep

\* A refresh stores the rotation that the server has just made its last one, or
\* the token it had.
LEMMA RefreshedStep == ASSUME CoreInv, NEW t \in Tasks, Refreshed(t) PROVE CoreInv'
  <1>1. /\ pc[t] = "refreshing"
        /\ UNCHANGED <<life, gate, access, fresh, current, shown, status, lost, loggedOut>>
    BY DEF Refreshed, Answered
  <1>2. /\ "verify" \in Places /\ "verify" \in Holds /\ "verify" # "revoking"
        /\ pc[t] \in Holds /\ gate = t
    BY <1>1, StateFacts DEF Places, Holds, Checks
  <1>3. held[t] = store /\ store # NoToken /\ ~loggedOut
    BY <1>1 DEF CoreInv, HeldStored, NoResurrection
  <1>4. CASE Rotated(store) /\ Stored([store EXCEPT !.n = @ + 1]) /\ Moved(t, "verify", [store EXCEPT !.n = @ + 1])
    <2> DEFINE new == [store EXCEPT !.n = @ + 1]
    <2>1. store.n < MaxRotations
      BY <1>4 DEF Rotated
    <2>2. new = [grant |-> store.grant, n |-> store.n + 1] /\ new \in Tokens
      BY <1>3, <2>1, StateFacts, TokenFacts
    <2>3. new.grant = store.grant /\ new.n = store.n + 1 /\ new # NoToken
      BY <1>3, <2>2, StateFacts, TokenFacts
    <2>4. /\ server' \in Seq(Grants) /\ Len(server') = Len(server)
          /\ server'[store.grant].latest = store.n + 1
      BY <1>3, <1>4, StateFacts, GrantRotated DEF CoreInv
    <2>5. store' = new /\ torn' = FALSE /\ Steps(t, "verify", new)
      BY <1>4 DEF Stored, Steps
    <2> HIDE DEF new
    <2>6. TaskOutcome(t, "verify", new)
      BY <1>1, <1>2, <2>3, <2>4, <2>5, StateFacts DEF TaskOutcome
    <2>7. RestTyped
      BY <1>1, <2>2, <2>4, <2>5, StateFacts DEF RestTyped, CoreInv, TypeOK
    <2>8. NoResurrection' /\ AccessInv'
      BY <1>1, <1>3, <2>3, <2>4, <2>5, StateFacts DEF CoreInv, NoResurrection, AccessInv, AccessBacked
    <2>9. RotationKept'
      <3>0. store.n \in 0 .. MaxRotations
        BY StateFacts, TokenFacts
      <3>1. store'.n = server'[store'.grant].latest /\ store'.n \in Int
        BY <2>3, <2>4, <2>5, <3>0, AccountAssumption
      <3> QED
        BY <3>1 DEF RotationKept
    <2> QED
      BY <1>2, <2>2, <2>5, <2>6, <2>7, <2>8, <2>9, TaskStep
  <1>5. CASE UNCHANGED server /\ Stored(store) /\ Moved(t, "verify", store)
    <2>1. store' = store /\ torn' = FALSE /\ Steps(t, "verify", store)
      BY <1>5 DEF Stored, Steps
    <2>2. TaskOutcome(t, "verify", store)
      BY <1>1, <1>2, <1>3, <1>5, <2>1, StateFacts DEF TaskOutcome
    <2>3. RestTyped
      BY <1>1, <1>5, <2>1, StateFacts DEF RestTyped, CoreInv, TypeOK
    <2>4. NoResurrection' /\ RotationKept' /\ AccessInv'
      BY <1>1, <1>3, <1>5, <2>1 DEF CoreInv, NoResurrection, RotationKept, AccessInv, AccessBacked
    <2> QED
      BY <1>2, <2>1, <2>2, <2>3, <2>4, StateFacts, TaskStep
  <1> QED
    BY <1>3, <1>4, <1>5 DEF Refreshed

\* A rejected token, or an API that does not accept it, ends the session.
LEMMA RejectedStep == ASSUME CoreInv, NEW t \in Tasks, Rejected(t) PROVE CoreInv'
  <1>1. pc[t] = "refreshing" /\ gate' = Free /\ UNCHANGED <<life, current, serverVars, loggedOut>>
    BY DEF Rejected, Answered
  <1>2. gate = t
    BY <1>1, StateFacts DEF Holds
  <1>3. store' \in {store, NoToken} /\ access' = 0 /\ fresh' = FALSE /\ torn' = FALSE
    BY DEF Rejected, Cleared, ClearThrows
  <1>4. /\ \E place \in {"idle", "forget"} : Steps(t, place, NoToken)
        /\ status' \in Statuses /\ shown' \in Accounts \cup {NoAccount}
    BY NoSessionFacts, FailedFacts DEF Rejected
  <1>5. PICK place \in {"idle", "forget"} : Steps(t, place, NoToken)
    BY <1>4
  <1>6. place \in {"idle", "forget", "revoking"} /\ place # "revoking"
    BY <1>5
  <1>7. UNCHANGED <<life, current, serverVars>> /\ gate \in {t, Free} /\ loggedOut' = loggedOut
    BY <1>1, <1>2
  <1>8. NoToken \in Tokens /\ NoToken.grant <= Len(server)
    BY StateFacts
  <1> QED
    BY <1>1, <1>3, <1>4, <1>5, <1>6, <1>7, <1>8, ClearingStep

\* An API that does not accept the new token ends the session as well.
LEMMA UnauthorizedStep == ASSUME CoreInv, NEW t \in Tasks, Unauthorized(t) PROVE CoreInv'
  <1>1. pc[t] \in Checks /\ gate' = Free /\ UNCHANGED <<life, current, serverVars, loggedOut>>
    BY DEF Unauthorized, Answered
  <1>2. gate = t
    BY <1>1, StateFacts DEF Holds
  <1>3. store' \in {store, NoToken} /\ access' = 0 /\ fresh' = FALSE /\ torn' = FALSE
    BY DEF Unauthorized, Cleared, ClearThrows
  <1>4. Steps(t, "idle", NoToken) /\ status' \in Statuses /\ shown' \in Accounts \cup {NoAccount}
    BY FailedFacts DEF Unauthorized
  <1>5. UNCHANGED <<life, current, serverVars>> /\ gate \in {t, Free} /\ loggedOut' = loggedOut
    BY <1>1, <1>2
  <1>6. NoToken \in Tokens /\ NoToken.grant <= Len(server)
    BY StateFacts
  <1> QED
    BY <1>1, <1>3, <1>4, <1>5, <1>6, ClearingStep

\* A token is used only after it was stored, under the same hold of the gate.
LEMMA VerifiedStep == ASSUME CoreInv, NEW t \in Tasks, Verified(t) PROVE CoreInv'
  <1> DEFINE place == IF pc[t] = "verifyNew" THEN "gate" ELSE "profile"
             token == Bearer(held[t].grant)
  <1>1. /\ pc[t] \in Checks /\ access' = held[t].grant /\ fresh' = TRUE /\ gate' = Free
        /\ Moved(t, place, token)
        /\ UNCHANGED <<life, store, torn, current, shown, status, serverVars, loggedOut>>
    BY DEF Verified, Answered
  <1>2. held[t] = store /\ store # NoToken /\ ~loggedOut /\ gate = t
    BY <1>1, StateFacts DEF CoreInv, HeldStored, NoResurrection, Holds
  <1>3. token \in Tokens /\ token.grant = store.grant /\ store.grant \in 0 .. MaxGrants
    BY <1>2, StateFacts, TokenFacts
  <1>0. place \in {"gate", "profile"}
    OBVIOUS
  <1> HIDE DEF place, token
  <1>4. place \in Places \ Holds /\ Steps(t, place, token) /\ place # "revoking"
    BY <1>0, <1>1 DEF Steps, Places, Waits, Holds, Checks
  <1>5. TaskOutcome(t, place, token)
    BY <1>1, <1>2, <1>3, <1>4, StateFacts DEF TaskOutcome, Holds, serverVars
  <1>6. RestTyped
    BY <1>1, <1>2, <1>3, StateFacts DEF RestTyped, serverVars, CoreInv, TypeOK
  <1>7. NoResurrection' /\ RotationKept' /\ AccessInv'
    BY <1>1, <1>2, <1>3, StateFacts DEF CoreInv, NoResurrection, RotationKept, AccessInv, AccessBacked, serverVars
  <1> QED
    BY <1>3, <1>4, <1>5, <1>6, <1>7, TaskStep

\* The profile of a token that was given out is an account's.
LEMMA ProfileStep == ASSUME CoreInv, NEW t \in Tasks, Profile(t) PROVE CoreInv'
  <1>1. /\ pc[t] = "profile" /\ current' = ProfileOf(held[t]) /\ Moved(t, "apply", held[t])
        /\ UNCHANGED <<life, gate, authVars, shown, status, serverVars, loggedOut>>
    BY DEF Profile, Answered
  <1>2. "apply" \in Places \ Holds /\ Steps(t, "apply", held[t])
    BY <1>1 DEF Steps, Places, Holds, Checks
  <1>3. held[t] \in Tokens /\ held[t].grant <= Len(server)
    BY StateFacts
  <1>4. current' \in Accounts \cup {NoAccount}
    BY <1>1, <1>3, ProfileKnown DEF CoreInv
  <1>5. gate' = Released(t)
    BY <1>1, StateFacts DEF Released, Holds, Checks
  <1>6. shown' \in Accounts \cup {NoAccount} /\ status' \in Statuses
    BY <1>1 DEF CoreInv, TypeOK
  <1>7. UNCHANGED <<life, authVars, serverVars, loggedOut>>
    BY <1>1
  <1> QED
    BY <1>2, <1>3, <1>4, <1>5, <1>6, <1>7, ReadingStep

\* The cached profile is cleared.
LEMMA ForgetStep == ASSUME CoreInv, NEW t \in Tasks, Forget(t) PROVE CoreInv'
  <1>1. /\ pc[t] = "forget" /\ current' = NoAccount /\ Moved(t, "apply", NoToken)
        /\ UNCHANGED <<life, gate, authVars, shown, status, serverVars, loggedOut>>
    BY DEF Forget
  <1>2. "apply" \in Places \ Holds /\ Steps(t, "apply", NoToken)
    BY <1>1 DEF Steps, Places, Holds, Checks
  <1>3. NoToken \in Tokens /\ NoToken.grant <= Len(server)
    BY StateFacts
  <1>4. gate' = Released(t)
    BY <1>1, StateFacts DEF Released, Holds, Checks
  <1>5. shown' \in Accounts \cup {NoAccount} /\ status' \in Statuses
    BY <1>1 DEF CoreInv, TypeOK
  <1>6. UNCHANGED <<life, authVars, serverVars, loggedOut>> /\ current' \in Accounts \cup {NoAccount}
    BY <1>1
  <1> QED
    BY <1>2, <1>3, <1>4, <1>5, <1>6, ReadingStep

\* The outcome is shown.
LEMMA ApplyStep ==
  ASSUME CoreInv, NEW t \in Tasks, Apply(t) \/ (t = "sync" /\ SyncGivesUp)
  PROVE  CoreInv'
  <1>1. /\ pc[t] = "apply" /\ Ended(t)
        /\ UNCHANGED <<life, gate, authVars, current, serverVars, loggedOut>>
    BY DEF Apply, SyncGivesUp
  <1>2. "idle" \in Places \ Holds /\ Steps(t, "idle", NoToken)
    BY <1>1 DEF Steps, Places, Holds, Checks
  <1>3. NoToken \in Tokens /\ NoToken.grant <= Len(server)
    BY StateFacts
  <1>4. gate' = Released(t)
    BY <1>1, StateFacts DEF Released, Holds, Checks
  <1>5. shown' \in Accounts \cup {NoAccount} /\ status' \in Statuses
    <2>1. CASE Apply(t)
      <3>1. held[t] \in Tokens /\ held[t].grant <= Len(server)
        BY StateFacts
      <3>2. ProfileOf(held[t]) \in Accounts \cup {NoAccount}
        BY <3>1, ProfileKnown DEF CoreInv
      <3> QED
        BY <2>1, <3>2 DEF Apply, CoreInv, TypeOK, Statuses
    <2>2. CASE SyncGivesUp
      BY <2>2 DEF SyncGivesUp, CoreInv, TypeOK
    <2> QED
      BY <2>1, <2>2
  <1>6. UNCHANGED <<life, authVars, serverVars, loggedOut>> /\ current' \in Accounts \cup {NoAccount}
    BY <1>1 DEF CoreInv, TypeOK
  <1> QED
    BY <1>2, <1>3, <1>4, <1>5, <1>6, ReadingStep

\* What the server does to its own grants leaves the tokens behind: a grant is
\* revoked, or rotated with the answer lost.
ServerOutcome ==
  \/ UNCHANGED serverVars
  \/ \E g \in 1 .. Len(server) : server' = [server EXCEPT ![g].valid = FALSE] /\ UNCHANGED lost
  \/ \E token \in Tokens : /\ token # NoToken /\ token.grant <= Len(server)
                           /\ token = store
                           /\ RotationLost(token)

LEMMA ServerFacts ==
  ASSUME CoreInv, ServerOutcome
  PROVE  /\ server' \in Seq(Grants) /\ Len(server') = Len(server)
         /\ lost' \subseteq 1 .. MaxGrants
         /\ store' = store => RotationKept'
         /\ store' = NoToken => RotationKept'
  <1>0. store' = NoToken => RotationKept'
    BY DEF RotationKept
  <1>1. CASE UNCHANGED serverVars
    BY <1>0, <1>1 DEF serverVars, CoreInv, TypeOK, Grants, RotationKept
  <1>2. ASSUME NEW g \in 1 .. Len(server), server' = [server EXCEPT ![g].valid = FALSE], UNCHANGED lost
        PROVE  /\ server' \in Seq(Grants) /\ Len(server') = Len(server)
               /\ lost' \subseteq 1 .. MaxGrants
               /\ store' = store => RotationKept'
    <2>1. /\ server' \in Seq(Grants) /\ Len(server') = Len(server)
          /\ \A h \in 1 .. Len(server) : server'[h].latest = server[h].latest
      BY <1>2, GrantRevoked DEF CoreInv
    <2>2. store # NoToken => store.grant \in 1 .. Len(server)
      <3>1. store # NoToken => store.grant # 0
        BY StateFacts, TokenFacts
      <3> QED
        BY <3>1, StateFacts
    <2> QED
      BY <1>2, <2>1, <2>2 DEF CoreInv, TypeOK, RotationKept
  <1>3. ASSUME store # NoToken, RotationLost(store)
        PROVE  /\ server' \in Seq(Grants) /\ Len(server') = Len(server)
               /\ lost' \subseteq 1 .. MaxGrants
               /\ store' = store => RotationKept'
    <2>1. store \in Tokens /\ store.grant <= Len(server) /\ Rotated(store)
          /\ lost' = lost \cup {store.grant}
      BY <1>3, StateFacts DEF RotationLost
    <2>2. server' \in Seq(Grants) /\ Len(server') = Len(server)
      BY <1>3, <2>1, GrantRotated DEF CoreInv
    <2>3. store.grant \in 1 .. MaxGrants
      <3>1. store.grant \in 0 .. MaxGrants /\ store.grant # 0
        BY <1>3, <2>1, TokenFacts
      <3> QED
        BY <3>1, AccountAssumption
    <2> QED
      BY <2>1, <2>2, <2>3 DEF CoreInv, TypeOK, RotationKept
  <1> QED
    BY <1>0, <1>1, <1>2, <1>3 DEF ServerOutcome

\* A task ends, or goes on without a token, while the server does something.
LEMMA ServerStep ==
  ASSUME CoreInv, NEW t \in Tasks, NEW place \in {"idle", "forget"}, Steps(t, place, NoToken),
         gate' = Released(t), ServerOutcome,
         UNCHANGED <<life, authVars, current, loggedOut>>,
         shown' \in Accounts \cup {NoAccount}, status' \in Statuses
  PROVE  CoreInv'
  <1>1. /\ server' \in Seq(Grants) /\ Len(server') = Len(server)
        /\ lost' \subseteq 1 .. MaxGrants
        /\ RotationKept'
    BY ServerFacts DEF authVars
  <1>2. place \in Places \ Holds /\ place # "revoking" /\ place \notin Checks \cup {"refreshing"}
    BY DEF Places, Holds, Checks
  <1>3. store' = store /\ UNCHANGED <<life, access, fresh, torn, current, loggedOut>>
    BY DEF authVars
  <1>4. TaskOutcome(t, place, NoToken)
    BY <1>1, <1>2, <1>3, StateFacts DEF TaskOutcome, Released
  <1>5. RestTyped
    BY <1>1, <1>3, StateFacts DEF RestTyped, CoreInv, TypeOK
  <1>6. NoResurrection' /\ AccessInv'
    BY <1>1, <1>3 DEF CoreInv, NoResurrection, AccessInv, AccessBacked
  <1> QED
    BY <1>1, <1>2, <1>4, <1>5, <1>6, NoTokenFacts, TaskStep

\* The revocation frees the gate, whether or not the server has carried it out.
LEMMA RevokedStep == ASSUME CoreInv, NEW t \in Tasks, Revoked(t) PROVE CoreInv'
  <1>1. /\ pc[t] = "revoking" /\ gate' = Free /\ Moved(t, "forget", NoToken)
        /\ UNCHANGED <<life, authVars, current, shown, status, lost, loggedOut>>
        /\ server' = [server EXCEPT ![held[t].grant].valid = FALSE] \/ UNCHANGED server
    BY DEF Revoked
  <1>2. gate' = Released(t)
    BY <1>1, StateFacts DEF Released, Holds
  <1>3. Steps(t, "forget", NoToken)
    BY <1>1 DEF Steps
  <1>4. held[t].grant \in 1 .. Len(server)
    <2>1. held[t] \in Tokens /\ held[t] # NoToken
      BY <1>1, StateFacts DEF CoreInv, Issued
    <2>2. held[t].grant # 0
      BY <2>1, TokenFacts
    <2> QED
      BY <2>2, StateFacts
  <1>5. ServerOutcome
    BY <1>1, <1>4 DEF ServerOutcome, serverVars
  <1>6. shown' \in Accounts \cup {NoAccount} /\ status' \in Statuses
    BY <1>1 DEF CoreInv, TypeOK
  <1> QED
    BY <1>1, <1>2, <1>3, <1>5, <1>6, ServerStep

\* An await that throws frees the gate; the answer of a rotation may be lost with it.
LEMMA ThrowsStep == ASSUME CoreInv, NEW t \in Tasks, NEW kind, Throws(t, kind) PROVE CoreInv'
  <1>1. /\ gate' = Released(t) /\ Failed(t, kind)
        /\ UNCHANGED <<life, authVars, current, loggedOut>>
        /\ (pc[t] = "refreshing" /\ RotationLost(held[t])) \/ UNCHANGED serverVars
    BY DEF Throws
  <1>2. Steps(t, "idle", NoToken) /\ status' \in Statuses /\ shown' \in Accounts \cup {NoAccount}
    BY <1>1, FailedFacts
  <1>3. ServerOutcome
    <2>1. pc[t] = "refreshing" =>
            held[t] \in Tokens /\ held[t] # NoToken /\ held[t].grant <= Len(server) /\ held[t] = store
      BY StateFacts DEF CoreInv, HeldStored
    <2> QED
      BY <1>1, <2>1 DEF ServerOutcome
  <1> QED
    BY <1>1, <1>2, <1>3, ServerStep

\* A save that takes the session away and puts none in its place ends the command; the token in
\* memory is alone.
LEMMA SaveThrowsStep == ASSUME CoreInv, NEW t \in Tasks, SaveThrows(t) PROVE CoreInv'
  <1>1. /\ pc[t] \in Holds /\ store # NoToken /\ store' = NoToken /\ torn' = TRUE
        /\ gate' = Released(t) /\ Failed(t, "error")
        /\ UNCHANGED <<life, access, fresh, current, loggedOut>>
        /\ (pc[t] = "refreshing" /\ RotationLost(held[t])) \/ UNCHANGED serverVars
    BY DEF SaveThrows, Answered, Holds
  <1>2. Steps(t, "idle", NoToken) /\ status' \in Statuses /\ shown' \in Accounts \cup {NoAccount}
    BY <1>1, FailedFacts
  <1>3. ServerOutcome
    <2>1. pc[t] = "refreshing" =>
            held[t] \in Tokens /\ held[t] # NoToken /\ held[t].grant <= Len(server) /\ held[t] = store
      BY StateFacts DEF CoreInv, HeldStored
    <2> QED
      BY <1>1, <2>1 DEF ServerOutcome
  <1>4. /\ server' \in Seq(Grants) /\ Len(server') = Len(server)
        /\ lost' \subseteq 1 .. MaxGrants
        /\ RotationKept'
    BY <1>1, <1>3, ServerFacts
  <1>5. "idle" \in Places \ Holds /\ "idle" \notin Checks \cup {"refreshing"}
    BY DEF Places, Holds, Checks
  <1>6. TaskOutcome(t, "idle", NoToken)
    BY <1>1, <1>2, <1>4, <1>5, StateFacts DEF TaskOutcome, Released
  <1>7. RestTyped
    BY <1>1, <1>2, <1>4, StateFacts DEF RestTyped, CoreInv, TypeOK
  <1>8. NoResurrection' /\ AccessInv'
    BY <1>1, <1>4 DEF CoreInv, NoResurrection, AccessInv, AccessBacked
  <1> QED
    BY <1>2, <1>4, <1>5, <1>6, <1>7, <1>8, NoTokenFacts, TaskStep

\* Going on after an await.
LEMMA ContinuesStep == ASSUME CoreInv, NEW t \in Tasks, Continues(t) PROVE CoreInv'
  BY ExchangedStep, RefreshedStep, RejectedStep, VerifiedStep, UnauthorizedStep, ProfileStep,
     RevokedStep, ForgetStep, ApplyStep, SaveThrowsStep, ThrowsStep
     DEF Continues

-------------------------------------------------------------------------------
\* Steps of the process and of the world leave every task where it is, or end all.
LEMMA StandingStep ==
  ASSUME CoreInv, ServerOutcome,
         pc' \in {pc, [pc EXCEPT !["sync"] = "gate"]},
         UNCHANGED <<held, gate, store, access, torn, current, viewVars, loggedOut>>,
         pc' # pc => pc["sync"] = "idle",
         life' \in {"down", "running", "closing"}, cancelled' \subseteq Tasks, fresh' \in BOOLEAN
  PROVE  CoreInv'
  <1>1. /\ server' \in Seq(Grants) /\ Len(server') = Len(server)
        /\ lost' \subseteq 1 .. MaxGrants
        /\ RotationKept'
    BY ServerFacts
  <1>2. "sync" \in Tasks /\ "sync" \notin Commands
    BY DEF Tasks, Commands
  <1>3. /\ pc' \in [Tasks -> Places]
        /\ \A t \in Tasks : pc'[t] # pc[t] => t = "sync" /\ pc[t] = "idle" /\ pc'[t] = "gate"
    BY <1>2 DEF CoreInv, TypeOK, Places, Waits
  <1>4. /\ \A t \in Tasks : pc'[t] \in Holds => pc[t] \in Holds
        /\ \A t \in Tasks : pc[t] \in Holds => pc'[t] \in Holds
        /\ \A t \in Tasks : pc'[t] \in Checks \cup {"refreshing", "revoking"} => pc'[t] = pc[t]
    BY <1>3 DEF Holds, Checks
  <1>5. TypeOK'
    <2>1. gate' \in {t \in Tasks : pc'[t] \in Holds} \cup {Free}
      BY <1>4 DEF CoreInv, TypeOK
    <2> QED
      BY <1>1, <1>3, <2>1 DEF CoreInv, TypeOK, viewVars, Grants
  <1>6. GateExclusive' /\ HeldStored' /\ Issued'
    BY <1>1, <1>4 DEF CoreInv, GateExclusive, HeldStored, Issued
  <1>7. NoResurrection' /\ AccessInv'
    BY <1>1 DEF CoreInv, NoResurrection, AccessInv, AccessBacked
  <1>8. NeverStuck'
    <2>1. \A c \in Commands : pc'[c] = pc[c]
      BY <1>2, <1>3 DEF Tasks
    <2> QED
      BY <2>1 DEF CoreInv, NeverStuck, viewVars
  <1> QED
    BY <1>1, <1>5, <1>6, <1>7, <1>8 DEF CoreInv

\* A process that ends forgets all but the session on disk.
LEMMA GoneStep == ASSUME CoreInv, Gone, ServerOutcome, store' \in {store, NoToken} PROVE CoreInv'
  <1>1. /\ server' \in Seq(Grants) /\ Len(server') = Len(server)
        /\ lost' \subseteq 1 .. MaxGrants
        /\ RotationKept'
    BY ServerFacts DEF Gone
  <1>2. /\ life' = "down" /\ gate' = Free /\ access' = 0 /\ fresh' = FALSE /\ cancelled' = {}
        /\ current' = NoAccount /\ shown' = NoAccount /\ status' = "Signed out" /\ busy' = FALSE
        /\ torn' = FALSE /\ loggedOut' = loggedOut
        /\ store' \in {store, NoToken}
        /\ \A t \in Tasks : pc'[t] = "idle" /\ held'[t] = NoToken
        /\ pc' \in [Tasks -> Places] /\ held' \in [Tasks -> Tokens]
    BY NoTokenFacts DEF Gone, Places
  <1>3. TypeOK'
    BY <1>1, <1>2, StateFacts DEF CoreInv, TypeOK, Grants, Statuses
  <1>4. GateExclusive' /\ HeldStored'
    BY <1>2 DEF GateExclusive, HeldStored, Holds, Checks
  <1>5. Issued'
    <2>1. store'.grant <= Len(server')
      <3>1. store.grant <= Len(server') /\ NoToken.grant <= Len(server')
        BY <1>1, StateFacts
      <3>2. store' = store \/ store' = NoToken
        BY <1>2
      <3> QED
        BY <3>1, <3>2
    <2>2. NoToken.grant <= Len(server')
      BY <1>1, StateFacts
    <2> QED
      BY <1>2, <2>1, <2>2 DEF Issued
  <1>6. NoResurrection' /\ AccessInv' /\ NeverStuck'
    <2>1. access' = 0 /\ torn' = FALSE /\ busy' = FALSE
      BY <1>2
    <2>2. loggedOut' => store' = NoToken
      BY <1>2 DEF CoreInv, NoResurrection
    <2>3. access' <= Len(server')
      BY <1>1, <2>1, StateFacts
    <2> QED
      BY <2>1, <2>2, <2>3 DEF NoResurrection, AccessInv, AccessBacked, NeverStuck
  <1> QED
    BY <1>1, <1>3, <1>4, <1>5, <1>6 DEF CoreInv

\* Each action preserves the inductive invariant.
LEMMA StepCoreInv == IInv /\ [Next]_vars => CoreInv'
  <1> SUFFICES ASSUME CoreInv, IdleWhenDown, [Next]_vars PROVE CoreInv'
    BY DEF IInv
  <1>0. status \in Statuses /\ cancelled \subseteq Tasks /\ "Waiting" \in Statuses
    BY DEF CoreInv, TypeOK, Statuses
  <1>1. CASE SignIn
    BY <1>0, <1>1, BeginStep DEF SignIn, Commands, Waits
  <1>2. CASE SignOut
    <2>1. cancelled' \subseteq Tasks
      BY <1>0, <1>2 DEF SignOut, Tasks, Commands
    <2> QED
      BY <1>0, <1>2, <2>1, BeginStep DEF SignOut, Commands, Waits
  <1>3. CASE Refresh
    BY <1>0, <1>3, BeginStep DEF Refresh, Commands, Waits
  <1>4. CASE SaveProfile
    BY <1>0, <1>4, BeginStep DEF SaveProfile, Commands, Waits
  <1>5. CASE CancelSignIn
    <2>1. cancelled' \subseteq Tasks
      BY <1>0, <1>5 DEF CancelSignIn, Tasks, Commands
    <2>2. UNCHANGED <<life, pc, held, gate, store, access, fresh, torn, current, viewVars, serverVars, loggedOut>>
      BY <1>5 DEF CancelSignIn, taskVars, authVars
    <2> QED
      BY <2>1, <2>2, StandingStep DEF ServerOutcome, CoreInv, TypeOK
  <1>6. ASSUME NEW t \in Tasks, TakeGate(t) \/ Continues(t) PROVE CoreInv'
    BY <1>6, TakeGateStep, ContinuesStep
  <1>7. CASE StartProcess
    <2>1. /\ pc' \in {pc, [pc EXCEPT !["sync"] = "gate"]} /\ life = "down" /\ life' = "running"
          /\ UNCHANGED <<held, cancelled, gate, store, access, fresh, torn, current, viewVars, serverVars, loggedOut>>
      BY <1>7 DEF StartProcess, authVars
    <2>2. pc["sync"] = "idle"
      BY <2>1 DEF IdleWhenDown, Tasks
    <2> QED
      BY <1>0, <2>1, <2>2, StandingStep DEF ServerOutcome, CoreInv, TypeOK
  <1>8. CASE Quit
    <2>1. cancelled' \subseteq Tasks /\ life' = "closing"
      BY <1>8 DEF Quit
    <2>2. UNCHANGED <<pc, held, gate, store, access, fresh, torn, current, viewVars, serverVars, loggedOut>>
      BY <1>8 DEF Quit, taskVars, authVars
    <2> QED
      BY <2>1, <2>2, StandingStep DEF ServerOutcome, CoreInv, TypeOK
  <1>9. CASE Closed
    BY <1>9, GoneStep DEF Closed, ServerOutcome, serverVars
  <1>10. CASE Crash
    <2>1. \A t \in Tasks : pc[t] = "refreshing" =>
            held[t] \in Tokens /\ held[t] # NoToken /\ held[t].grant <= Len(server) /\ held[t] = store
      BY StateFacts DEF CoreInv, HeldStored
    <2>2. Gone /\ ServerOutcome /\ store' \in {store, NoToken}
      BY <1>10, <2>1 DEF Crash, ServerOutcome
    <2> QED
      BY <2>2, GoneStep
  <1>11. CASE Expire
    <2>1. UNCHANGED <<life, pc, held, cancelled, gate, store, access, torn, current, viewVars, serverVars, loggedOut>>
          /\ fresh' = FALSE
      BY <1>11 DEF Expire, taskVars
    <2> QED
      BY <1>0, <2>1, StandingStep DEF ServerOutcome, CoreInv, TypeOK
  <1>12. ASSUME NEW g \in 1 .. Len(server), ServerRevokes(g) PROVE CoreInv'
    <2>1. UNCHANGED <<life, pc, held, cancelled, gate, store, access, fresh, torn, current, viewVars, lost, loggedOut>>
          /\ server' = [server EXCEPT ![g].valid = FALSE]
      BY <1>12 DEF ServerRevokes, taskVars, authVars
    <2> QED
      BY <1>0, <2>1, StandingStep DEF ServerOutcome, CoreInv, TypeOK
  <1>13. CASE UNCHANGED vars
    <2>1. UNCHANGED <<life, pc, held, cancelled, gate, store, access, fresh, torn, current, viewVars, serverVars, loggedOut>>
      BY <1>13 DEF vars, taskVars, authVars
    <2> QED
      BY <1>0, <2>1, StandingStep DEF ServerOutcome, CoreInv, TypeOK
  <1> QED
    BY <1>1, <1>2, <1>3, <1>4, <1>5, <1>6, <1>7, <1>8, <1>9, <1>10, <1>11, <1>12, <1>13 DEF Next

\* Only a process that runs has tasks: every step of a task starts from one that is not idle.
LEMMA StepIdleWhenDown == IdleWhenDown /\ [Next]_vars => IdleWhenDown'
  <1> SUFFICES ASSUME IdleWhenDown, [Next]_vars, life' = "down" PROVE \A t \in Tasks : pc'[t] = "idle"
    BY DEF IdleWhenDown
  <1>1. CASE Gone
    BY <1>1 DEF Gone
  <1>2. CASE life = "down" /\ pc' = pc
    BY <1>2 DEF IdleWhenDown
  <1>3. ASSUME NEW t \in Tasks, TakeGate(t) PROVE FALSE
    BY <1>3 DEF TakeGate, OpenBrowser, GetAccessToken, ClearLocally, ClearFails, Enters, IdleWhenDown
  <1>4. ASSUME NEW t \in Tasks, Continues(t) PROVE FALSE
    <2>1. life = "down" /\ pc[t] # "idle"
      BY <1>4 DEF Continues, Exchanged, Refreshed, Rejected, Verified, Unauthorized, Profile, Revoked,
         Forget, Apply, SyncGivesUp, SaveThrows, Throws, Answered, Waits, Network, Checks
    <2> QED
      BY <2>1 DEF IdleWhenDown
  <1> QED
    BY <1>1, <1>2, <1>3, <1>4 DEF Next, SignIn, SignOut, Refresh, SaveProfile, Begin, CancelSignIn, StartProcess,
       Quit, Closed, Crash, Expire, ServerRevokes, IdleWhenDown, vars, taskVars

\* The invariant holds in every reachable state.
LEMMA Invariance == Spec => []IInv
  <1>1. Init => IInv
    BY InitCoreInv DEF IInv, Init, IdleWhenDown
  <1>2. IInv /\ [Next]_vars => IInv'
    BY StepCoreInv, StepIdleWhenDown DEF IInv
  <1> QED
    BY <1>1, <1>2, PTL DEF Spec

-------------------------------------------------------------------------------
\* The variables keep their types, and the gate is held only by a task at work
\* under it.
THEOREM TypeCorrect == Spec => []TypeOK
  BY Invariance, PTL DEF IInv, CoreInv

\* AuthenticationService: nothing that was under way brings a session back after
\* a sign-out, across crashes and restarts, for any number of commands at once.
THEOREM SignOutIsFinal == Spec => []NoResurrection
  BY Invariance, PTL DEF IInv, CoreInv

\* AcceptTokensAsync: the stored refresh token is the server's last, unless an
\* answer of the server was lost.
THEOREM RotationIsKept == Spec => []RotationKept
  BY Invariance, PTL DEF IInv, CoreInv

\* ClearSession: the access token in memory goes with the session on disk.
THEOREM AccessIsBacked == Spec => []AccessBacked
  BY Invariance, PTL DEF IInv, CoreInv, AccessInv

\* AccountViewModel: the page is busy only while a command is under way.
THEOREM PageNeverStuck == Spec => []NeverStuck
  BY Invariance, PTL DEF IInv, CoreInv

\* _gate: at most one task is at an await that holds the gate, whatever throws.
THEOREM MutualExclusion ==
  Spec => [](\A t, u \in Tasks : pc[t] \in Holds /\ pc[u] \in Holds => t = u)
  <1>1. IInv => \A t, u \in Tasks : pc[t] \in Holds /\ pc[u] \in Holds => t = u
    BY DEF IInv, CoreInv, GateExclusive
  <1> QED
    BY <1>1, Invariance, PTL
=============================================================================
