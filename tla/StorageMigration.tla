---------------------------- MODULE StorageMigration ----------------------------
(***************************************************************************)
(* The move of the user's data between the portable directory and the      *)
(* profile: SettingsService.MigrateStorage, the bootstrap file of          *)
(* AppRuntimeModeService, and the sessions and recovery copies of          *)
(* SecretStore.  Any write may fail or stop half way, and the process may  *)
(* die between any two; meanwhile the authentication service saves and     *)
(* deletes the session on threads of the pool, behind the gate of the      *)
(* store only.                                                             *)
(*                                                                         *)
(* settings.json of a location is one value, as SettingsFile shows that    *)
(* Load makes it; session.bin is a pair, for nobody reads its .bak.  The   *)
(* license key travels as the session does and is left out.                *)
(***************************************************************************)
EXTENDS Naturals

CONSTANTS Modes,       \* StorageMode: the portable directory and the profile
          DefaultMode, \* of the distribution
          Preferences, \* the settings a user may choose between
          Families,    \* bound: sign-ins; a session and its renewals are one family
          MaxSerial,   \* bound: renewals of a session
          MaxMoves,    \* bound: migrations that are begun
          Nothing,     \* no file
          NoSession    \* a recovery file without a session

Tokens == [family : Families, serial : 1 .. MaxSerial]

ASSUME MigrationAssumption ==
  /\ DefaultMode \in Modes /\ Nothing \notin Modes
  /\ {Nothing, NoSession} \cap Tokens = {}
  /\ MaxSerial \in Nat \ {0} /\ MaxMoves \in Nat

VARIABLES
  boot,          \* runtime.json and its .bak: the configured mode
  legacy,        \* KeepMeAlive.bootstrap.json, read where the two are not there
  stored,        \* the settings that Load finds in each location
  session,       \* session.bin and its .bak in each location
  recovery,      \* the session in migration-recovery.bin and its .bak
  mode,          \* CurrentStorageMode
  preferences,   \* _current
  move,          \* the migration: where it stands, its target, and what CopyTo has read
  moves,         \* how many were begun
  renewing,      \* the session that the authentication service has sent off to renew
  lastSettings,  \* ghost: what the user saved last
  lastSession,   \* ghost: the session that was saved last and not deleted
  raced,         \* ghost: that session was saved between CopyTo and the new bootstrap file
  unread,        \* ghost: the new bootstrap file could not be read back
  gone,          \* ghost: the families that were signed out
  spared,        \* ghost: those of which some copy could not be read at the sign-out
  overtaken      \* ghost: those signed out so between CopyTo and the new bootstrap file

signOutGhosts == <<gone, spared, overtaken>>
migrationGhosts == <<lastSettings, lastSession, raced, unread, signOutGhosts>>
migrationVars ==
  <<boot, legacy, stored, session, recovery, mode, preferences, move, moves, renewing, migrationGhosts>>

Stages == {"down", "idle", "copy", "replace", "undo", "commit"}
Pair(contents) == [file : contents \cup {Nothing}, bak : contents \cup {Nothing}]

\* The types; above all, the bootstrap file and its .bak name a mode.
MigrationTypeOK ==
  /\ boot \in Pair(Modes) /\ legacy \in Modes \cup {Nothing}
  /\ stored \in [Modes -> Preferences] /\ mode \in Modes /\ preferences \in Preferences
  /\ session \in [Modes -> Pair(Tokens)] /\ recovery \in [Modes -> Pair(Tokens \cup {NoSession})]
  /\ move \in [at : Stages, target : Modes, from : Tokens \cup {Nothing}, old : Tokens \cup {Nothing}]
  /\ moves \in 0 .. MaxMoves
  /\ renewing \in Tokens \cup {Nothing}
  /\ lastSettings \in Preferences /\ lastSession \in Tokens \cup {Nothing}
  /\ raced \in BOOLEAN /\ unread \in BOOLEAN
  /\ gone \subseteq Families /\ spared \subseteq Families /\ overtaken \subseteq Families

\* Mutant: the backup of the bootstrap file is not looked at.
Configured_NoBackup ==
  IF boot.file # Nothing THEN boot.file ELSE IF legacy # Nothing THEN legacy ELSE DefaultMode

\* GetConfiguredStorageMode: the first of the files that is there, or the default.
Configured ==
  IF boot.file # Nothing THEN boot.file
  ELSE IF boot.bak # Nothing THEN boot.bak
  ELSE IF legacy # Nothing THEN legacy ELSE DefaultMode

NoFile == [file |-> Nothing, bak |-> Nothing]
Idle == [at |-> "idle", target |-> DefaultMode, from |-> Nothing, old |-> Nothing]

MigrationInit ==
  /\ boot = NoFile /\ legacy \in Modes \cup {Nothing}
  /\ \E p \in Preferences : stored = [m \in Modes |-> p]
  /\ session = [m \in Modes |-> NoFile] /\ recovery = [m \in Modes |-> NoFile]
  /\ mode = Configured /\ preferences = stored[mode] /\ lastSettings = preferences
  /\ move = Idle /\ moves = 0
  /\ renewing = Nothing /\ lastSession = Nothing
  /\ raced = FALSE /\ unread = FALSE
  /\ gone = {} /\ spared = {} /\ overtaken = {}

-------------------------------------------------------------------------------
\* AtomicFile.Write on a file and its .bak

Written(f, value) == [file |-> value, bak |-> IF f.file = Nothing THEN f.bak ELSE f.file]

\* What a write that fails, or in which the process dies, leaves: the file as it was, or
\* renamed to .bak with nothing in its place.
HalfWay(f) == [file |-> Nothing, bak |-> f.file]
Torn(f) == {f} \cup (IF f.file = Nothing THEN {} ELSE {HalfWay(f)})

\* ReplaceSession: written, or deleted with its .bak when there is nothing to put there.
Put(f, token) == IF token = Nothing THEN NoFile ELSE Written(f, token)
PutTorn(f, token) == IF token = Nothing THEN {f, [f EXCEPT !.file = Nothing]} ELSE Torn(f)

-------------------------------------------------------------------------------
\* The user interface thread

SaveSettings(p) ==
  /\ move.at = "idle"
  /\ stored' = [stored EXCEPT ![mode] = p]
  /\ preferences' = p /\ lastSettings' = p
  /\ UNCHANGED <<boot, legacy, session, recovery, mode, move, moves, renewing, lastSession, raced, unread, signOutGhosts>>

\* MigrateStorage writes the settings to the target and reads them back; where that fails, the
\* migration is over.
Migrate(target) ==
  /\ move.at = "idle" /\ target # mode /\ moves < MaxMoves
  /\ moves' = moves + 1
  /\ \/ /\ stored' = [stored EXCEPT ![target] = preferences]
        /\ move' = [Idle EXCEPT !.at = "copy", !.target = target]
     \/ UNCHANGED <<stored, move>>
     \/ stored' = [stored EXCEPT ![target] = preferences] /\ UNCHANGED move
  /\ UNCHANGED <<boot, legacy, session, recovery, mode, preferences, renewing, migrationGhosts>>

\* CopyTo, which takes the gate of the store: what the two locations hold is read, and the
\* session of the target put aside.  A failure here changes no session.
CopyReads ==
  LET target == move.target
      old == session[target].file
  IN  /\ move.at = "copy"
      /\ \/ /\ recovery' = IF old = Nothing THEN recovery
                           ELSE [recovery EXCEPT ![target] = Written(@, old)]
            /\ move' = [move EXCEPT !.at = "replace", !.from = session[mode].file, !.old = old]
         \/ /\ \E left \in Torn(recovery[target]) : recovery' = [recovery EXCEPT ![target] = left]
            /\ move' = Idle
      /\ UNCHANGED <<boot, legacy, stored, session, mode, preferences, moves, renewing, migrationGhosts>>

\* The session is copied and read back; otherwise the catch block is next.
CopyReplaces ==
  LET target == move.target
      copied == Put(session[target], move.from)
  IN  /\ move.at = "replace"
      /\ \/ /\ session' = [session EXCEPT ![target] = copied]
            /\ move' = [move EXCEPT !.at = "commit"]
         \/ /\ \E left \in PutTorn(session[target], move.from) \cup {copied} :
                 session' = [session EXCEPT ![target] = left]
            /\ move' = [move EXCEPT !.at = "undo"]
      /\ UNCHANGED <<boot, legacy, stored, recovery, mode, preferences, moves, renewing, migrationGhosts>>

\* The catch block puts the target's session back, unless that fails as well.
CopyUndoes ==
  /\ move.at = "undo"
  /\ \E left \in PutTorn(session[move.target], move.old) \cup {Put(session[move.target], move.old)} :
       session' = [session EXCEPT ![move.target] = left]
  /\ move' = Idle
  /\ UNCHANGED <<boot, legacy, stored, recovery, mode, preferences, moves, renewing, migrationGhosts>>

\* SetConfiguredStorageMode; the new location is in use once the bootstrap file names it and
\* says so when it is read back.
CommitMove ==
  /\ move.at = "commit"
  /\ \/ /\ boot' = Written(boot, move.target)
        /\ \/ mode' = move.target /\ UNCHANGED unread
           \/ unread' = TRUE /\ UNCHANGED mode
     \/ /\ boot' \in Torn(boot)
        /\ UNCHANGED <<mode, unread>>
  /\ move' = Idle
  /\ UNCHANGED <<legacy, stored, session, recovery, preferences, moves, renewing, lastSettings, lastSession, raced, signOutGhosts>>

-------------------------------------------------------------------------------
\* The authentication service: it reads, saves and deletes the session of the configured
\* location while no CopyTo holds the gate, one operation at a time.

StoreFree == move.at \in {"idle", "copy", "commit"}
Active == session[Configured].file

Save(token) ==
  /\ \/ /\ session' = [session EXCEPT ![Configured] = Written(@, token)]
        /\ lastSession' = token /\ raced' = (move.at = "commit")
     \/ /\ Active # Nothing
        /\ session' = [session EXCEPT ![Configured] = HalfWay(@)]
        /\ lastSession' = Nothing /\ raced' = (move.at = "commit")
     \/ UNCHANGED <<session, lastSession, raced>>
  /\ UNCHANGED <<boot, legacy, stored, recovery, mode, preferences, move, moves, lastSettings, unread, signOutGhosts>>

Known(family) ==
  \/ family \in gone
  \/ \E m \in Modes : \E f \in {session[m].file, session[m].bak, recovery[m].file, recovery[m].bak} :
       f \in Tokens /\ f.family = family

SignIn(family) ==
  /\ StoreFree /\ renewing = Nothing /\ ~Known(family)
  /\ Save([family |-> family, serial |-> 1])
  /\ UNCHANGED renewing

\* A renewal reads the session, asks the server, and saves what comes back.
BeginRenewal ==
  /\ StoreFree /\ renewing = Nothing /\ Active # Nothing /\ Active.serial < MaxSerial
  /\ renewing' = Active
  /\ UNCHANGED <<boot, legacy, stored, session, recovery, mode, preferences, move, moves, migrationGhosts>>

EndRenewal ==
  /\ StoreFree /\ renewing # Nothing
  /\ Save([renewing EXCEPT !.serial = @ + 1])
  /\ renewing' = Nothing

\* Mutant: the copies are recognised by the token itself, which renewals change.
SameFamily_ByToken(f, owner) == f \in Tokens /\ f = owner

\* IsSameFamily.
SameFamily(f, owner) == f \in Tokens /\ owner # Nothing /\ f.family = owner.family

\* What is kept in the secret files, and the files that are there.
Held(c) == IF c.kind = "session" THEN session[c.at][c.part] ELSE recovery[c.at][c.part]
Copies == {c \in [at : Modes, kind : {"session", "recovery"}, part : {"file", "bak"}] : Held(c) # Nothing}

\* A copy of another location goes if it is recognised as the owner's; RedactRecoverySession
\* in the active location takes whoever's session it is.  What is not reached stays.
Deleted(contents, owner) == IF SameFamily(contents, owner) THEN Nothing ELSE contents
Redacted(contents, owner, active) ==
  IF (active /\ contents # Nothing) \/ SameFamily(contents, owner) THEN NoSession ELSE contents

Purged(c, owner, unreached) ==
  IF c \in unreached THEN Held(c)
  ELSE IF c.kind = "session" THEN Deleted(Held(c), owner)
  ELSE Redacted(Held(c), owner, c.at = Configured)
PurgedPair(m, kind, owner, unreached) ==
  LET purged(part) == Purged([at |-> m, kind |-> kind, part |-> part], owner, unreached)
  IN  [file |-> purged("file"), bak |-> purged("bak")]

\* DeleteSession with the copies that are not reached: the active session tells whose copies
\* go, and where it cannot be read itself nobody knows.  `rest` is what is left of the active one.
Delete(unreached, rest) ==
  LET owner == IF [at |-> Configured, kind |-> "session", part |-> "file"] \in unreached
               THEN Nothing ELSE Active
  IN  /\ StoreFree /\ renewing = Nothing
      /\ session' = [m \in Modes |-> IF m = Configured THEN rest
                                     ELSE PurgedPair(m, "session", owner, unreached)]
      /\ recovery' = [m \in Modes |-> PurgedPair(m, "recovery", owner, unreached)]
      /\ lastSession' = Nothing /\ raced' = (move.at = "commit")
      /\ UNCHANGED <<boot, legacy, stored, mode, preferences, move, moves, renewing, lastSettings, unread>>

\* A sign-out that succeeds: TryReadProtected takes a copy that cannot be read for one that
\* is not there, so that it stays.
SignOut ==
  LET family == IF Active = Nothing THEN {} ELSE {Active.family}
  IN  \E unreadable \in SUBSET Copies :
        /\ Delete(unreadable, NoFile)
        /\ gone' = gone \cup family
        /\ spared' = IF unreadable = {} THEN spared ELSE spared \cup family
        /\ overtaken' = IF unreadable = {} \/ move.at # "commit" THEN overtaken ELSE overtaken \cup family

\* A sign-out that fails, or in which the process dies, once the active session is deleted, with
\* its .bak or without: the copies it has not reached stay, and nobody knows any more whose
\* they are.
SignOutFails ==
  /\ Active # Nothing
  /\ \E unreached \in SUBSET Copies, rest \in {[session[Configured] EXCEPT !.file = Nothing], NoFile} :
       Delete(unreached, rest)
  /\ UNCHANGED signOutGhosts

-------------------------------------------------------------------------------

Dies ==
  /\ move.at # "down"
  /\ move' = [Idle EXCEPT !.at = "down"]
  /\ renewing' = Nothing
  /\ UNCHANGED <<boot, legacy, stored, session, recovery, mode, preferences, moves, migrationGhosts>>

\* Load at the next start.
Starts ==
  /\ move.at = "down"
  /\ move' = Idle /\ mode' = Configured /\ preferences' = stored[Configured]
  /\ UNCHANGED <<boot, legacy, stored, session, recovery, moves, renewing, migrationGhosts>>

MigrationNext ==
  \/ \E p \in Preferences : SaveSettings(p)
  \/ \E m \in Modes : Migrate(m)
  \/ CopyReads \/ CopyReplaces \/ CopyUndoes \/ CommitMove
  \/ \E family \in Families : SignIn(family)
  \/ BeginRenewal \/ EndRenewal \/ SignOut \/ SignOutFails
  \/ Dies \/ Starts

MigrationSpec == MigrationInit /\ [][MigrationNext]_migrationVars

-------------------------------------------------------------------------------

\* Wherever a migration fails or the process dies in it, the next start finds the settings that
\* were saved last and the session that was saved last: the location that the bootstrap file
\* names is complete before it is named.  Two cases are excepted: a session saved between
\* CopyTo and the new bootstrap file stays behind (SecretStore is not told of the migration),
\* and a bootstrap file that cannot be read back leaves the process in a location that the next
\* start does not use.
RestartFinds ==
  ~unread => /\ stored[Configured] = lastSettings
             /\ ~raced => Active = lastSession

\* A session that was signed out is nowhere on the disk, in whatever location, backup or
\* recovery copy migrations and their failures had left it, unless a copy could not be read at
\* the sign-out; and it is not in use again even then, but for a sign-out between CopyTo and
\* the new bootstrap file, which then names the location where an unread copy was left.  A
\* bootstrap file that could not be read back is excepted as above.
SignedOutGone ==
  /\ \A m \in Modes : \A f \in {session[m].file, session[m].bak, recovery[m].file, recovery[m].bak} :
       f \in Tokens /\ f.family \in gone => f.family \in spared
  /\ ~unread /\ Active \in Tokens /\ Active.family \in gone => Active.family \in overtaken
===============================================================================
