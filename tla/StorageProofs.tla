---------------------------- MODULE StorageProofs -----------------------------
(***************************************************************************)
(* Proofs about SettingsFile for all contents and any amount of damage,    *)
(* and about StorageMigration for any locations, settings, sign-ins and    *)
(* numbers of renewals and migrations.                                     *)
(***************************************************************************)
EXTENDS SettingsFile, StorageMigration, TLAPS

\* Damage is the only source of faulty contents.
FaultsKnown == {primary, backup} \cap Faulty \subseteq faults

\* A Save in progress belongs to a running process that has already set a damaged
\* file aside, and only a file that exists can be waiting to be set aside.
SavingAlone ==
  /\ saving # {} => life = "running" /\ ~preserve
  /\ life = "running" /\ preserve => primary # Missing

\* What a sound process holds in memory is what its files say.
MemoryMatches ==
  life = "running" /\ ~misread =>
    /\ primary \in Values => current = primary
    /\ primary = Missing /\ backup \in Values => current = backup
    /\ preserve /\ backup \in Values => current = backup

\* Without damage the memory is exactly what a restart would load.
CleanMemory ==
  faults = {} /\ ~misread /\ life = "running" =>
    /\ ~preserve
    /\ current = LoadedFrom(primary, backup)
    /\ survivors = {current} \cup saving

\* A file that is good in both places differs by one Save, also during a Save.
BackupIsPrevious ==
  life = "running" /\ ~misread /\ primary \in Values /\ backup \in Values => backup = previous

\* What was passed over is set aside, or still in place.
PassedOverKept ==
  /\ rejected \subseteq copies \cup {primary}
  /\ life = "running" /\ ~preserve => rejected \subseteq copies

IInv ==
  /\ TypeOK
  /\ FaultsKnown
  /\ SavingAlone
  /\ MemoryMatches
  /\ CleanMemory
  /\ BackupIsPrevious
  /\ PassedOverKept
  /\ Durable
  /\ StartsDespiteDamage

-------------------------------------------------------------------------------
\* Loading always finds valid settings to use.
LEMMA LoadsValues == ASSUME NEW p, NEW b PROVE LoadedFrom(p, b) \in Values
  BY ContentAssumption DEF LoadedFrom

\* The type invariant is inductive by itself.
LEMMA TypeStep == TypeOK /\ [Next]_vars => TypeOK'
  <1> SUFFICES ASSUME TypeOK, [Next]_vars PROVE TypeOK'
    OBVIOUS
  <1> USE DEF TypeOK, Files, Faulty, Warnings
  <1>1. ASSUME NEW pl \in BOOLEAN, NEW bl \in BOOLEAN, Start(pl, bl) PROVE TypeOK'
    <2>1. WarningOf(Seen(primary, pl), Seen(backup, bl)) \in Warnings
      BY DEF WarningOf
    <2>2. Seen(primary, pl) \notin Values \cup {Missing} => primary \in Values \cup Faulty
      BY ContentAssumption DEF Seen
    <2>3. /\ LoadedFrom(Seen(primary, pl), Seen(backup, bl)) \in Values
          /\ LoadedFrom(Missing, backup) \in Values
      BY LoadsValues
    <2>4. CASE life' = "running"
      BY <1>1, <2>1, <2>2, <2>3, <2>4 DEF Start, diskVars
    <2>5. CASE life' = "failed"
      BY <1>1, <2>5 DEF Start, diskVars, memoryVars
    <2> QED
      BY <1>1, <2>4, <2>5 DEF Start
  <1>2. ASSUME NEW v \in Values, BeginSave(v) PROVE TypeOK'
    BY <1>2 DEF BeginSave, SetAside
  <1>3. ASSUME NEW v \in Values, Commit(v) PROVE TypeOK'
    BY <1>3 DEF Commit, Replaced
  <1>4. CASE SaveFails
    BY <1>4 DEF SaveFails, HalfReplaced, memoryVars
  <1>5. CASE Crash
    BY <1>5, ContentAssumption DEF Crash, HalfReplaced, Replaced
  <1>6. ASSUME NEW f \in Faulty, Damage(f) PROVE TypeOK'
    BY <1>6 DEF Damage, memoryVars
  <1>7. CASE UNCHANGED vars
    BY <1>7 DEF vars, diskVars, memoryVars, ghostVars
  <1> QED
    BY <1>1, <1>2, <1>3, <1>4, <1>5, <1>6, <1>7 DEF Next

LEMMA InitIInv == Init => IInv
  BY ContentAssumption DEF Init, IInv, TypeOK, FaultsKnown, SavingAlone, MemoryMatches, CleanMemory,
     BackupIsPrevious, PassedOverKept, Durable, StartsDespiteDamage, LoadedFrom, Files, Faulty, Warnings

\* Each action preserves the inductive invariant.
LEMMA StepIInv == IInv /\ [Next]_vars => IInv'
  <1> SUFFICES ASSUME IInv, [Next]_vars PROVE IInv'
    OBVIOUS
  <1> USE ContentAssumption DEF IInv, Files, Faulty, TypeOK
  <1>t. TypeOK'
    BY TypeStep
  <1>1. ASSUME NEW pl \in BOOLEAN, NEW bl \in BOOLEAN, Start(pl, bl) PROVE IInv'
    <2>1. FaultsKnown'
      BY <1>1 DEF Start, Seen, diskVars, memoryVars, FaultsKnown
    <2>2. SavingAlone'
      BY <1>1 DEF Start, Seen, diskVars, memoryVars, SavingAlone
    <2>3. MemoryMatches'
      BY <1>1 DEF Start, Seen, diskVars, memoryVars, MemoryMatches, SavingAlone, LoadedFrom
    <2>4. CleanMemory'
      BY <1>1 DEF Start, Seen, diskVars, memoryVars, CleanMemory, FaultsKnown, SavingAlone, LoadedFrom, MemoryMatches, Throws
    <2>5. BackupIsPrevious'
      BY <1>1 DEF Start, Seen, diskVars, memoryVars, BackupIsPrevious, SavingAlone, MemoryMatches, LoadedFrom
    <2>6. PassedOverKept'
      BY <1>1 DEF Start, Seen, diskVars, memoryVars, PassedOverKept, SavingAlone
    <2>7. Durable'
      BY <1>1 DEF Start, Seen, diskVars, memoryVars, Durable, FaultsKnown, SavingAlone, CleanMemory, LoadedFrom, Throws
    <2>8. StartsDespiteDamage'
      BY <1>1 DEF Start, Seen, diskVars, memoryVars, StartsDespiteDamage, FaultsKnown, Throws
    <2> QED
      BY <1>t, <2>1, <2>2, <2>3, <2>4, <2>5, <2>6, <2>7, <2>8
  <1>2. ASSUME NEW v \in Values, BeginSave(v) PROVE IInv'
    <2>1. FaultsKnown'
      BY <1>2 DEF BeginSave, SetAside, FaultsKnown
    <2>2. SavingAlone'
      BY <1>2 DEF BeginSave, SetAside, SavingAlone
    <2>3. MemoryMatches'
      BY <1>2 DEF BeginSave, SetAside, MemoryMatches, SavingAlone, LoadedFrom
    <2>4. CleanMemory'
      BY <1>2 DEF BeginSave, SetAside, CleanMemory, FaultsKnown, SavingAlone, LoadedFrom, MemoryMatches
    <2>5. BackupIsPrevious'
      BY <1>2 DEF BeginSave, SetAside, BackupIsPrevious, SavingAlone, MemoryMatches, LoadedFrom
    <2>6. PassedOverKept'
      BY <1>2 DEF BeginSave, SetAside, PassedOverKept, SavingAlone
    <2>7. Durable'
      BY <1>2 DEF BeginSave, SetAside, Durable, FaultsKnown, SavingAlone, CleanMemory, LoadedFrom
    <2>8. StartsDespiteDamage'
      BY <1>2 DEF BeginSave, SetAside, StartsDespiteDamage, FaultsKnown, Throws
    <2> QED
      BY <1>t, <2>1, <2>2, <2>3, <2>4, <2>5, <2>6, <2>7, <2>8
  <1>3. ASSUME NEW v \in Values, Commit(v) PROVE IInv'
    <2>1. FaultsKnown'
      BY <1>3 DEF Commit, Replaced, FaultsKnown
    <2>2. SavingAlone'
      BY <1>3 DEF Commit, Replaced, SavingAlone
    <2>3. MemoryMatches'
      BY <1>3 DEF Commit, Replaced, MemoryMatches, SavingAlone, LoadedFrom
    <2>4. CleanMemory'
      BY <1>3 DEF Commit, Replaced, CleanMemory, FaultsKnown, SavingAlone, LoadedFrom, MemoryMatches
    <2>5. BackupIsPrevious'
      BY <1>3 DEF Commit, Replaced, BackupIsPrevious, SavingAlone, MemoryMatches, LoadedFrom
    <2>6. PassedOverKept'
      BY <1>3 DEF Commit, Replaced, PassedOverKept, SavingAlone
    <2>7. Durable'
      BY <1>3 DEF Commit, Replaced, Durable, FaultsKnown, SavingAlone, CleanMemory, LoadedFrom
    <2>8. StartsDespiteDamage'
      BY <1>3 DEF Commit, Replaced, StartsDespiteDamage, FaultsKnown, Throws
    <2> QED
      BY <1>t, <2>1, <2>2, <2>3, <2>4, <2>5, <2>6, <2>7, <2>8
  <1>4. CASE SaveFails
    <2>1. FaultsKnown'
      BY <1>4 DEF SaveFails, HalfReplaced, memoryVars, FaultsKnown
    <2>2. SavingAlone'
      BY <1>4 DEF SaveFails, HalfReplaced, memoryVars, SavingAlone
    <2>3. MemoryMatches'
      BY <1>4 DEF SaveFails, HalfReplaced, memoryVars, MemoryMatches, SavingAlone, LoadedFrom
    <2>4. CleanMemory'
      BY <1>4 DEF SaveFails, HalfReplaced, memoryVars, CleanMemory, FaultsKnown, SavingAlone, LoadedFrom, MemoryMatches
    <2>5. BackupIsPrevious'
      BY <1>4 DEF SaveFails, HalfReplaced, memoryVars, BackupIsPrevious, SavingAlone, MemoryMatches, LoadedFrom
    <2>6. PassedOverKept'
      BY <1>4 DEF SaveFails, HalfReplaced, memoryVars, PassedOverKept, SavingAlone
    <2>7. Durable'
      BY <1>4 DEF SaveFails, HalfReplaced, memoryVars, Durable, FaultsKnown, SavingAlone, CleanMemory, LoadedFrom
    <2>8. StartsDespiteDamage'
      BY <1>4 DEF SaveFails, HalfReplaced, memoryVars, StartsDespiteDamage, FaultsKnown, Throws
    <2> QED
      BY <1>t, <2>1, <2>2, <2>3, <2>4, <2>5, <2>6, <2>7, <2>8
  <1>5. CASE Crash
    <2>1. FaultsKnown'
      BY <1>5 DEF Crash, HalfReplaced, Replaced, FaultsKnown
    <2>2. SavingAlone'
      BY <1>5 DEF Crash, HalfReplaced, Replaced, SavingAlone
    <2>3. MemoryMatches'
      BY <1>5 DEF Crash, HalfReplaced, Replaced, MemoryMatches, SavingAlone, LoadedFrom
    <2>4. CleanMemory'
      BY <1>5 DEF Crash, HalfReplaced, Replaced, CleanMemory, FaultsKnown, SavingAlone, LoadedFrom, MemoryMatches
    <2>5. BackupIsPrevious'
      BY <1>5 DEF Crash, HalfReplaced, Replaced, BackupIsPrevious, SavingAlone, MemoryMatches, LoadedFrom
    <2>6. PassedOverKept'
      BY <1>5 DEF Crash, HalfReplaced, Replaced, PassedOverKept, SavingAlone
    <2>7. Durable'
      BY <1>5 DEF Crash, HalfReplaced, Replaced, Durable, FaultsKnown, SavingAlone, CleanMemory, LoadedFrom
    <2>8. StartsDespiteDamage'
      BY <1>5 DEF Crash, HalfReplaced, Replaced, StartsDespiteDamage, FaultsKnown, Throws
    <2> QED
      BY <1>t, <2>1, <2>2, <2>3, <2>4, <2>5, <2>6, <2>7, <2>8
  <1>6. ASSUME NEW f \in Faulty, Damage(f) PROVE IInv'
    <2>1. FaultsKnown'
      BY <1>6 DEF Damage, memoryVars, FaultsKnown
    <2>2. SavingAlone'
      BY <1>6 DEF Damage, memoryVars, SavingAlone
    <2>3. MemoryMatches'
      BY <1>6 DEF Damage, memoryVars, MemoryMatches, SavingAlone, LoadedFrom
    <2>4. CleanMemory'
      BY <1>6 DEF Damage, memoryVars, CleanMemory, FaultsKnown, SavingAlone, LoadedFrom, MemoryMatches
    <2>5. BackupIsPrevious'
      BY <1>6 DEF Damage, memoryVars, BackupIsPrevious, SavingAlone, MemoryMatches, LoadedFrom
    <2>6. PassedOverKept'
      BY <1>6 DEF Damage, memoryVars, PassedOverKept, SavingAlone
    <2>7. Durable'
      BY <1>6 DEF Damage, memoryVars, Durable, FaultsKnown, SavingAlone, CleanMemory, LoadedFrom
    <2>8. StartsDespiteDamage'
      BY <1>6 DEF Damage, memoryVars, StartsDespiteDamage, FaultsKnown, Throws
    <2> QED
      BY <1>t, <2>1, <2>2, <2>3, <2>4, <2>5, <2>6, <2>7, <2>8
  <1>7. CASE UNCHANGED vars
    BY <1>7 DEF vars, diskVars, memoryVars, ghostVars, FaultsKnown, SavingAlone, MemoryMatches,
       CleanMemory, BackupIsPrevious, PassedOverKept, Durable, StartsDespiteDamage, LoadedFrom, Warnings
  <1> QED
    BY <1>1, <1>2, <1>3, <1>4, <1>5, <1>6, <1>7 DEF Next

THEOREM Invariance == Spec => []IInv
  BY InitIInv, StepIInv, PTL DEF Spec

\* Every variable keeps its type.
THEOREM TypeCorrect == Spec => []TypeOK
  BY Invariance, PTL DEF IInv

\* SettingsService and AtomicFile are an atomic register while nothing from
\* outside damages the files: Durable for every set of settings.
THEOREM Durability == Spec => []Durable
  BY Invariance, PTL DEF IInv

\* The backup is the preceding file, after any history of saves, failures,
\* crashes and damage: FallbackIsPrevious.
THEOREM BackupKept == Spec => []FallbackIsPrevious
  <1>1. IInv => FallbackIsPrevious
    BY DEF IInv, BackupIsPrevious, FallbackIsPrevious
  <1> QED
    BY <1>1, Invariance, PTL

\* No settings.json that Load passed over is ever lost by the program:
\* RejectedPreserved.
THEOREM Preservation == Spec => []RejectedPreserved
  <1>1. IInv => RejectedPreserved
    BY DEF IInv, PassedOverKept, RejectedPreserved
  <1> QED
    BY <1>1, Invariance, PTL

\* Whatever is cut short or garbled, Load gives the application settings to start
\* with: StartsDespiteDamage.
THEOREM StartsAnyway == Spec => []StartsDespiteDamage
  BY Invariance, PTL DEF IInv

-------------------------------------------------------------------------------
Moving == move.at \in {"copy", "replace", "undo", "commit"}

\* A renewal that is under way has a next serial.
RenewalPossible == renewing # Nothing => renewing.serial < MaxSerial

\* The process works in the location that the bootstrap file names, and what it moves is already
\* complete in the target.
SettingsFollow ==
  /\ stored[Configured] = lastSettings
  /\ move.at # "down" => mode = Configured /\ preferences = lastSettings
  /\ Moving => move.target # mode /\ stored[move.target] = preferences

\* The session that CopyTo has read stays the active one until it is copied, and from then on
\* whatever changes the active one alone is a race.
SessionFollows ==
  /\ ~raced => Active = lastSession
  /\ move.at = "replace" => move.from = Active
  /\ move.at = "commit" /\ ~raced => session[move.target].file = Active

\* A session that was signed out is not under way to the disk either, unless a copy was unread.
NotGone(token) == token \in Tokens /\ token.family \in gone => token.family \in spared
Clean(f) == NotGone(f.file) /\ NotGone(f.bak)
GoneNowhere ==
  /\ \A m \in Modes : Clean(session[m]) /\ Clean(recovery[m])
  /\ NotGone(renewing)
  /\ move.at \in {"replace", "undo"} => NotGone(move.from) /\ NotGone(move.old)

\* Nor is it in use, about to be renewed, or about to be in use with the new location.
NotBack(token) == token \in Tokens /\ token.family \in gone => token.family \in overtaken
StaysOut ==
  /\ NotBack(Active) /\ NotBack(renewing)
  /\ move.at = "replace" => NotBack(move.from)
  /\ move.at = "commit" => NotBack(session[move.target].file)

MigrationInv ==
  /\ MigrationTypeOK /\ RenewalPossible
  /\ ~unread => SettingsFollow /\ SessionFollows /\ StaysOut
  /\ GoneNowhere

-------------------------------------------------------------------------------
\* What the bootstrap file names, and what a write of it that fails leaves, is a location.
LEMMA ConfiguredMode == ASSUME MigrationTypeOK PROVE Configured \in Modes
  BY MigrationAssumption DEF MigrationTypeOK, Configured, Pair

\* A bootstrap file that could not be replaced still names the same location.
LEMMA TornBoot == ASSUME MigrationTypeOK, boot' \in Torn(boot), legacy' = legacy
                  PROVE  boot' \in Pair(Modes) /\ Configured' = Configured
  BY MigrationAssumption DEF MigrationTypeOK, Configured, Pair, Torn, HalfWay

LEMMA NoFilePair == ASSUME NEW X PROVE NoFile \in Pair(X)
  BY DEF NoFile, Pair

LEMMA WrittenPair == ASSUME NEW X, NEW f \in Pair(X), NEW v \in X
                     PROVE  Written(f, v) \in Pair(X) /\ Torn(f) \subseteq Pair(X)
  BY DEF Written, Torn, HalfWay, Pair

LEMMA PutPair == ASSUME NEW X, NEW f \in Pair(X), NEW v \in X \cup {Nothing}
                 PROVE  Put(f, v) \in Pair(X) /\ PutTorn(f, v) \subseteq Pair(X)
  <1>1. CASE v = Nothing
    BY <1>1, NoFilePair DEF Put, PutTorn, Pair
  <1>2. CASE v # Nothing
    BY <1>2, WrittenPair DEF Put, PutTorn
  <1> QED
    BY <1>1, <1>2

LEMMA MigrationInitInv == MigrationInit => MigrationInv
  <1> SUFFICES ASSUME MigrationInit PROVE MigrationInv
    OBVIOUS
  <1>0. boot \in Pair(Modes) /\ boot = NoFile
    BY NoFilePair DEF MigrationInit
  <1>1. mode \in Modes /\ mode = Configured
    BY <1>0, MigrationAssumption DEF MigrationInit, NoFile, Configured
  <1>2. stored \in [Modes -> Preferences] /\ preferences \in Preferences
    BY <1>1 DEF MigrationInit
  <1>3. session \in [Modes -> Pair(Tokens)] /\ recovery \in [Modes -> Pair(Tokens \cup {NoSession})]
    BY NoFilePair DEF MigrationInit
  <1>4. move \in [at : Stages, target : Modes, from : Tokens \cup {Nothing}, old : Tokens \cup {Nothing}]
    BY MigrationAssumption DEF MigrationInit, Idle, Stages
  <1>8. raced \in BOOLEAN /\ unread \in BOOLEAN
    BY Zenon DEF MigrationInit
  <1>9. gone \subseteq Families /\ spared \subseteq Families /\ overtaken \subseteq Families
    BY DEF MigrationInit
  <1>10. /\ legacy \in Modes \cup {Nothing} /\ moves \in 0 .. MaxMoves /\ renewing \in Tokens \cup {Nothing}
         /\ lastSettings \in Preferences /\ lastSession \in Tokens \cup {Nothing}
    BY <1>2, MigrationAssumption DEF MigrationInit
  <1>5. MigrationTypeOK
    BY <1>0, <1>1, <1>2, <1>3, <1>4, <1>8, <1>9, <1>10 DEF MigrationTypeOK
  <1>6. RenewalPossible /\ SettingsFollow /\ SessionFollows
    BY <1>1, <1>2, MigrationAssumption
       DEF MigrationInit, RenewalPossible, SettingsFollow, SessionFollows, Moving, Idle, NoFile, Active
  <1>7. GoneNowhere /\ StaysOut
    BY DEF MigrationInit, GoneNowhere, Clean, NotGone, NotBack, StaysOut, Idle
  <1> QED
    BY <1>5, <1>6, <1>7 DEF MigrationInv

Moves == [at : Stages, target : Modes, from : Tokens \cup {Nothing}, old : Tokens \cup {Nothing}]

LEMMA IdleMoves == ASSUME NEW stage \in Stages
                   PROVE  Idle \in Moves /\ [Idle EXCEPT !.at = stage] \in Moves
  BY MigrationAssumption DEF Idle, Moves, Stages

\* What a sign-out makes of one copy, and of the copies of one location.
CopyNames == [at : Modes, kind : {"session", "recovery"}, part : {"file", "bak"}]

LEMMA PurgedCopy ==
  ASSUME NEW c \in CopyNames, NEW owner, NEW unreached
  PROVE  /\ Purged(c, owner, unreached) \in {Held(c), Nothing, NoSession}
         /\ c.kind = "session" => Purged(c, owner, unreached) \in {Held(c), Nothing}
         /\ unreached = {} => ~SameFamily(Purged(c, owner, unreached), owner)
         /\ unreached = {} /\ c.kind = "recovery" /\ c.at = Configured => Purged(c, owner, unreached) \notin Tokens
  BY MigrationAssumption DEF CopyNames, Purged, Deleted, Redacted, SameFamily

LEMMA PurgedTypes ==
  ASSUME MigrationTypeOK, NEW m \in Modes, NEW owner, NEW unreached
  PROVE  /\ PurgedPair(m, "session", owner, unreached) \in Pair(Tokens)
         /\ PurgedPair(m, "recovery", owner, unreached) \in Pair(Tokens \cup {NoSession})
  <1> DEFINE copy(kind, part) == [at |-> m, kind |-> kind, part |-> part]
  <1>1. ASSUME NEW part \in {"file", "bak"}
        PROVE  /\ Purged(copy("session", part), owner, unreached) \in Tokens \cup {Nothing}
               /\ Purged(copy("recovery", part), owner, unreached) \in Tokens \cup {NoSession, Nothing}
    <2>1. copy("session", part) \in CopyNames /\ copy("recovery", part) \in CopyNames
      BY DEF CopyNames
    <2>2. Held(copy("session", part)) \in Tokens \cup {Nothing}
          /\ Held(copy("recovery", part)) \in Tokens \cup {NoSession, Nothing}
      BY DEF Held, MigrationTypeOK, Pair
    <2> QED
      BY <2>1, <2>2, PurgedCopy
  <1> QED
    BY <1>1 DEF PurgedPair, Pair

\* The session of one location may be written, torn or deleted; the types of the rest are plain.
LEMMA MigrationTypeStep ==
  ASSUME MigrationTypeOK, RenewalPossible, [MigrationNext]_migrationVars
  PROVE  MigrationTypeOK' /\ RenewalPossible'
  <1> DEFINE Good == MigrationTypeOK' /\ RenewalPossible'
             Sessions == [Modes -> Pair(Tokens)]
  <1> USE DEF MigrationTypeOK, RenewalPossible, migrationGhosts, signOutGhosts
  <1>0. /\ Configured \in Modes /\ session[Configured] \in Pair(Tokens)
        /\ Active \in Tokens \cup {Nothing} /\ move \in Moves
    BY ConfiguredMode DEF Active, Pair, Moves
  <1>1. ASSUME NEW p \in Preferences, SaveSettings(p) PROVE Good
    BY <1>1 DEF SaveSettings
  <1>2. ASSUME NEW m \in Modes, Migrate(m) PROVE Good
    <2>1. [Idle EXCEPT !.at = "copy", !.target = m] \in Moves
      BY MigrationAssumption DEF Idle, Moves, Stages
    <2>2. move' \in Moves
      BY <1>0, <1>2, <2>1 DEF Migrate
    <2>3. stored' \in [Modes -> Preferences]
      BY <1>2 DEF Migrate
    <2>4. moves' \in 0 .. MaxMoves
      BY <1>2, MigrationAssumption DEF Migrate
    <2> QED
      BY <1>2, <2>2, <2>3, <2>4 DEF Migrate, Moves
  <1>3. CASE CopyReads
    <2>1. session[move.target] \in Pair(Tokens) /\ session[mode] \in Pair(Tokens)
      BY <1>0 DEF Moves
    <2>2. session[move.target].file \in Tokens \cup {Nothing} /\ session[mode].file \in Tokens \cup {Nothing}
      BY <2>1 DEF Pair
    <2>3. move' \in Moves
      BY <1>0, <1>3, <2>2, IdleMoves DEF CopyReads, Moves, Stages
    <2>4. recovery[move.target] \in Pair(Tokens \cup {NoSession})
      BY <1>0 DEF Moves
    <2>5. session[move.target].file # Nothing =>
            Written(recovery[move.target], session[move.target].file) \in Pair(Tokens \cup {NoSession})
      BY <2>2, <2>4, WrittenPair
    <2>6. Torn(recovery[move.target]) \subseteq Pair(Tokens \cup {NoSession})
      BY <2>4, WrittenPair
    <2>7. recovery' \in [Modes -> Pair(Tokens \cup {NoSession})]
      BY <1>3, <2>5, <2>6 DEF CopyReads
    <2> QED
      BY <1>3, <2>3, <2>7 DEF CopyReads, Moves
  <1>4. CASE CopyReplaces
    <2>1. move.target \in Modes /\ move.from \in Tokens \cup {Nothing} /\ session[move.target] \in Pair(Tokens)
      BY <1>0 DEF Moves
    <2>2. Put(session[move.target], move.from) \in Pair(Tokens) /\ PutTorn(session[move.target], move.from) \subseteq Pair(Tokens)
      BY <2>1, PutPair
    <2>3. session' \in Sessions
      BY <1>4, <2>2 DEF CopyReplaces
    <2>4. move' \in Moves
      BY <1>0, <1>4 DEF CopyReplaces, Moves, Stages
    <2> QED
      BY <1>4, <2>3, <2>4 DEF CopyReplaces, Moves
  <1>5. CASE CopyUndoes
    <2>1. move.target \in Modes /\ move.old \in Tokens \cup {Nothing} /\ session[move.target] \in Pair(Tokens)
      BY <1>0 DEF Moves
    <2>2. Put(session[move.target], move.old) \in Pair(Tokens) /\ PutTorn(session[move.target], move.old) \subseteq Pair(Tokens)
      BY <2>1, PutPair
    <2>3. session' \in Sessions
      BY <1>5, <2>2 DEF CopyUndoes
    <2>4. move' \in Moves
      BY <1>5, IdleMoves DEF CopyUndoes, Stages
    <2> QED
      BY <1>5, <2>3, <2>4 DEF CopyUndoes, Moves
  <1>6. CASE CommitMove
    <2>1. move.target \in Modes /\ move' \in Moves
      BY <1>0, <1>6, IdleMoves DEF CommitMove, Moves, Stages
    <2>2. boot' \in Pair(Modes)
      BY <1>6, <2>1, WrittenPair DEF CommitMove
    <2>3. mode' \in Modes
      BY <1>6, <2>1 DEF CommitMove
    <2>4. unread' \in BOOLEAN
      BY <1>6 DEF CommitMove
    <2> QED
      BY <1>6, <2>1, <2>2, <2>3, <2>4 DEF CommitMove, Moves
  <1>7. ASSUME NEW token \in Tokens, Save(token)
        PROVE  session' \in Sessions /\ lastSession' \in Tokens \cup {Nothing} /\ raced' \in BOOLEAN
    <2>1. Written(session[Configured], token) \in Pair(Tokens)
      BY <1>0, WrittenPair
    <2>2. Active # Nothing => HalfWay(session[Configured]) \in Pair(Tokens)
      BY <1>0 DEF HalfWay, Pair, Active
    <2>3. session' \in Sessions
      BY <1>7, <2>1, <2>2 DEF Save
    <2>4. lastSession' \in Tokens \cup {Nothing}
      BY <1>7 DEF Save
    <2>5. raced' \in BOOLEAN
      BY <1>7 DEF Save
    <2> QED
      BY <2>3, <2>4, <2>5
  <1>8. ASSUME NEW family \in Families, SignIn(family) PROVE Good
    <2>1. [family |-> family, serial |-> 1] \in Tokens
      BY MigrationAssumption DEF Tokens
    <2>2. session' \in Sessions /\ lastSession' \in Tokens \cup {Nothing} /\ raced' \in BOOLEAN
      BY <1>7, <1>8, <2>1 DEF SignIn
    <2> QED
      BY <1>8, <2>2 DEF SignIn, Save
  <1>9. CASE BeginRenewal
    BY <1>0, <1>9 DEF BeginRenewal
  <1>10. CASE EndRenewal
    <2>1. renewing \in Tokens /\ renewing.serial < MaxSerial
      BY <1>10 DEF EndRenewal
    <2>2. [renewing EXCEPT !.serial = @ + 1] \in Tokens
      BY <2>1, MigrationAssumption DEF Tokens
    <2>3. session' \in Sessions /\ lastSession' \in Tokens \cup {Nothing} /\ raced' \in BOOLEAN
      BY <1>7, <1>10, <2>2 DEF EndRenewal
    <2>4. renewing' = Nothing
      BY <1>10 DEF EndRenewal
    <2> QED
      BY <1>10, <2>3, <2>4 DEF EndRenewal, Save
  <1>11. ASSUME NEW unreached, NEW rest \in Pair(Tokens), Delete(unreached, rest)
         PROVE  /\ session' \in Sessions /\ recovery' \in [Modes -> Pair(Tokens \cup {NoSession})]
                /\ lastSession' = Nothing /\ raced' \in BOOLEAN
                /\ UNCHANGED <<boot, legacy, stored, mode, preferences, move, moves, renewing, lastSettings, unread>>
    BY <1>11, PurgedTypes DEF Delete
  <1>12. CASE SignOut
    <2>1. PICK unreadable : Delete(unreadable, NoFile)
      BY <1>12 DEF SignOut
    <2>2. gone' \subseteq Families /\ spared' \subseteq Families /\ overtaken' \subseteq Families
      BY <1>0, <1>12 DEF SignOut, Tokens
    <2>3. session' \in Sessions /\ recovery' \in [Modes -> Pair(Tokens \cup {NoSession})]
          /\ lastSession' = Nothing /\ raced' \in BOOLEAN
          /\ UNCHANGED <<boot, legacy, stored, mode, preferences, move, moves, renewing, lastSettings, unread>>
      BY <1>11, <2>1, NoFilePair
    <2> QED
      BY <2>2, <2>3
  <1>16. CASE SignOutFails
    <2>1. PICK unreached \in SUBSET Copies, rest \in {[session[Configured] EXCEPT !.file = Nothing], NoFile} : Delete(unreached, rest)
      BY <1>16 DEF SignOutFails
    <2>2. rest \in Pair(Tokens)
      BY <1>0, <2>1, NoFilePair DEF Pair
    <2>3. UNCHANGED signOutGhosts
      BY <1>16 DEF SignOutFails
    <2> QED
      BY <1>11, <2>1, <2>2, <2>3 DEF signOutGhosts
  <1>13. CASE Dies
    <2>1. move' \in Moves
      BY <1>13, IdleMoves DEF Dies, Stages
    <2> QED
      BY <1>13, <2>1 DEF Dies, Moves
  <1>14. CASE Starts
    <2>1. move' \in Moves
      BY <1>14, IdleMoves DEF Starts, Stages
    <2> QED
      BY <1>0, <1>14, <2>1 DEF Starts, Moves
  <1>15. CASE UNCHANGED migrationVars
    BY <1>15 DEF migrationVars
  <1> QED
    BY <1>1, <1>2, <1>3, <1>4, <1>5, <1>6, <1>8, <1>9, <1>10, <1>11, <1>12, <1>13, <1>14, <1>15, <1>16 DEF MigrationNext

-------------------------------------------------------------------------------
\* No way to write a file and its .bak brings in a token that was signed out.
LEMMA WritesClean ==
  ASSUME NEW X, NEW f \in Pair(X), Clean(f), NEW v, NotGone(v)
  PROVE  /\ Clean(Written(f, v)) /\ \A left \in Torn(f) : Clean(left)
         /\ Clean(Put(f, v)) /\ \A left \in PutTorn(f, v) : Clean(left)
  <1>1. NotGone(Nothing)
    BY MigrationAssumption DEF NotGone
  <1>2. Clean(Written(f, v)) /\ Clean(HalfWay(f)) /\ Clean(NoFile)
    BY <1>1 DEF Clean, Written, HalfWay, NoFile
  <1>3. \A left \in Torn(f) : Clean(left)
    BY <1>2 DEF Torn
  <1>4. Clean([f EXCEPT !.file = Nothing])
    BY <1>1 DEF Clean, Pair
  <1> QED
    BY <1>2, <1>3, <1>4 DEF Put, PutTorn

\* A sign-out brings nothing in either, and where it reaches every copy leaves none of the owner's.
LEMMA PurgedClean ==
  ASSUME NEW m \in Modes, NEW owner, NEW unreached, Clean(session[m]), Clean(recovery[m])
  PROVE  Clean(PurgedPair(m, "session", owner, unreached)) /\ Clean(PurgedPair(m, "recovery", owner, unreached))
  <1> DEFINE copy(kind, part) == [at |-> m, kind |-> kind, part |-> part]
  <1>1. ASSUME NEW kind \in {"session", "recovery"}, NEW part \in {"file", "bak"}
        PROVE  NotGone(Purged(copy(kind, part), owner, unreached))
    <2>1. copy(kind, part) \in CopyNames
      BY DEF CopyNames
    <2>2. NotGone(Held(copy(kind, part)))
      BY DEF Held, Clean
    <2>3. NotGone(Nothing) /\ NotGone(NoSession)
      BY MigrationAssumption DEF NotGone
    <2> QED
      BY <2>1, <2>2, <2>3, PurgedCopy
  <1> QED
    BY <1>1 DEF PurgedPair, Clean

LEMMA PurgedAll ==
  ASSUME NEW m \in Modes, NEW owner, NEW kind \in {"session", "recovery"}
  PROVE  LET left == PurgedPair(m, kind, owner, {})
         IN  /\ ~SameFamily(left.file, owner) /\ ~SameFamily(left.bak, owner)
             /\ kind = "recovery" /\ m = Configured => left.file \notin Tokens /\ left.bak \notin Tokens
  <1> DEFINE copy(part) == [at |-> m, kind |-> kind, part |-> part]
  <1>1. copy("file") \in CopyNames /\ copy("bak") \in CopyNames
    BY DEF CopyNames
  <1> QED
    BY <1>1, PurgedCopy DEF PurgedPair

\* No step writes a token of a family that was signed out, and a sign-out that reads every copy
\* leaves none.
LEMMA GoneStep ==
  ASSUME MigrationTypeOK, GoneNowhere, [MigrationNext]_migrationVars
  PROVE  GoneNowhere'
  <1> USE DEF GoneNowhere, NotGone, signOutGhosts, migrationGhosts
  <1>0. Configured \in Modes /\ session[Configured] \in Pair(Tokens)
    BY ConfiguredMode DEF MigrationTypeOK
  <1>1. ASSUME NEW p \in Preferences, SaveSettings(p) PROVE GoneNowhere'
    BY <1>1 DEF SaveSettings, Clean
  <1>2. ASSUME NEW m \in Modes, Migrate(m) PROVE GoneNowhere'
    BY <1>2 DEF Migrate, Clean, Idle, MigrationTypeOK
  <1>3. CASE CopyReads
    <2> DEFINE target == move.target
               old == session[target].file
    <2>1. target \in Modes /\ mode \in Modes /\ Clean(session[target]) /\ Clean(session[mode]) /\ Clean(recovery[target])
      BY DEF MigrationTypeOK
    <2>2. NotGone(old) /\ NotGone(session[mode].file)
      BY <2>1 DEF Clean
    <2>3. Clean(Written(recovery[target], old)) /\ \A left \in Torn(recovery[target]) : Clean(left)
      BY <2>1, <2>2, WritesClean DEF MigrationTypeOK
    <2>4. UNCHANGED <<session, renewing, gone, spared>>
      BY <1>3 DEF CopyReads
    <2>5. \A m \in Modes : Clean(recovery'[m]) /\ Clean(session'[m])
      BY <1>3, <2>3, <2>4 DEF CopyReads, MigrationTypeOK
    <2>6. move' = Idle \/ (move'.from = session[mode].file /\ move'.old = old)
      BY <1>3 DEF CopyReads, MigrationTypeOK
    <2> QED
      BY <2>2, <2>4, <2>5, <2>6 DEF Idle, Clean
  <1>4. CASE CopyReplaces
    <2>1. move.target \in Modes /\ Clean(session[move.target]) /\ NotGone(move.from)
      BY <1>4 DEF CopyReplaces, MigrationTypeOK
    <2>2. Clean(Put(session[move.target], move.from)) /\ \A left \in PutTorn(session[move.target], move.from) : Clean(left)
      BY <2>1, WritesClean DEF MigrationTypeOK
    <2>3. UNCHANGED <<recovery, renewing, gone, spared>>
      BY <1>4 DEF CopyReplaces
    <2>4. \A m \in Modes : Clean(session'[m]) /\ Clean(recovery'[m])
      BY <1>4, <2>2, <2>3 DEF CopyReplaces, MigrationTypeOK
    <2>5. move'.from = move.from /\ move'.old = move.old /\ NotGone(move.old)
      BY <1>4 DEF CopyReplaces, MigrationTypeOK
    <2> QED
      BY <2>1, <2>3, <2>4, <2>5 DEF Clean
  <1>5. CASE CopyUndoes
    <2>1. move.target \in Modes /\ Clean(session[move.target]) /\ NotGone(move.old)
      BY <1>5 DEF CopyUndoes, MigrationTypeOK
    <2>2. Clean(Put(session[move.target], move.old)) /\ \A left \in PutTorn(session[move.target], move.old) : Clean(left)
      BY <2>1, WritesClean DEF MigrationTypeOK
    <2>3. UNCHANGED <<recovery, renewing, gone, spared>> /\ move' = Idle
      BY <1>5 DEF CopyUndoes
    <2>4. \A m \in Modes : Clean(session'[m]) /\ Clean(recovery'[m])
      BY <1>5, <2>2, <2>3 DEF CopyUndoes, MigrationTypeOK
    <2> QED
      BY <2>3, <2>4 DEF Idle, Clean
  <1>6. CASE CommitMove
    BY <1>6 DEF CommitMove, Clean, Idle
  <1>7. ASSUME NEW family \in Families, SignIn(family) PROVE GoneNowhere'
    BY <1>0, <1>7, MigrationAssumption DEF SignIn, Known, Save, Clean, StoreFree, MigrationTypeOK, Written, HalfWay
  <1>8. CASE BeginRenewal
    BY <1>0, <1>8 DEF BeginRenewal, Active, Clean
  <1>9. CASE EndRenewal
    <2> DEFINE renewed == [renewing EXCEPT !.serial = @ + 1]
    <2>1. renewing \in Tokens /\ NotGone(renewing) /\ move.at \notin {"replace", "undo"}
      BY <1>9 DEF EndRenewal, MigrationTypeOK, StoreFree
    <2>2. NotGone(renewed)
      BY <2>1 DEF Tokens
    <2>3. Clean(Written(session[Configured], renewed)) /\ Clean(HalfWay(session[Configured]))
      BY <1>0, <2>2, MigrationAssumption DEF Clean, Written, HalfWay
    <2>4. \A m \in Modes : Clean(session'[m]) /\ Clean(recovery'[m])
      BY <1>0, <1>9, <2>3 DEF EndRenewal, Save, MigrationTypeOK
    <2>5. UNCHANGED <<gone, spared, move>> /\ renewing' = Nothing
      BY <1>9 DEF EndRenewal, Save
    <2> QED
      BY <2>1, <2>4, <2>5, MigrationAssumption DEF Clean
  <1>keeps. ASSUME NEW unreached, NEW rest, Delete(unreached, rest), Clean(rest), UNCHANGED <<gone, spared>>
            PROVE  GoneNowhere'
    <2>1. UNCHANGED <<renewing, move>> /\ \A m \in Modes : Clean(session'[m]) /\ Clean(recovery'[m])
      BY <1>keeps, PurgedClean DEF Delete, Clean
    <2> QED
      BY <1>keeps, <2>1 DEF Clean
  <1>10. CASE SignOut
    <2> DEFINE family == IF Active = Nothing THEN {} ELSE {Active.family}
    <2>1. PICK unreadable : /\ Delete(unreadable, NoFile) /\ gone' = gone \cup family
                            /\ spared' = IF unreadable = {} THEN spared ELSE spared \cup family
      BY <1>10 DEF SignOut
    <2>2. UNCHANGED <<renewing, move>> /\ renewing = Nothing /\ move.at \notin {"replace", "undo"}
      BY <2>1 DEF Delete, StoreFree
    <2>3. Clean(NoFile) /\ Clean(NoFile)'
      BY MigrationAssumption DEF Clean, NoFile
    <2>4. CASE unreadable # {}
      <3>1. \A f : Clean(f) => Clean(f)'
        BY <2>1, <2>4 DEF Clean
      <3>2. \A m \in Modes : (Clean(session'[m]) /\ Clean(recovery'[m]))
        BY <2>1, <2>3, PurgedClean DEF Delete
      <3>3. \A m \in Modes : Clean(session[m])' /\ Clean(recovery[m])'
        BY <2>1, <2>4, <3>2 DEF Clean
      <3> QED
        BY <2>2, <3>3, MigrationAssumption
    <2>5. CASE unreadable = {}
      <3>1. \A m \in Modes \ {Configured} : \A f : SameFamily(f, Active) =>
              /\ session'[m].file # f /\ session'[m].bak # f /\ recovery'[m].file # f /\ recovery'[m].bak # f
        BY <2>1, <2>5, PurgedAll DEF Delete
      <3>2. recovery'[Configured].file \notin Tokens /\ recovery'[Configured].bak \notin Tokens
        BY <1>0, <2>1, <2>5, PurgedAll DEF Delete
      <3>3. session'[Configured] = NoFile
        BY <1>0, <2>1 DEF Delete
      <3>4. \A m \in Modes : Clean(session'[m]) /\ Clean(recovery'[m])
        BY <2>1, <2>3, PurgedClean DEF Delete
      <3>5. Active = Nothing => family = {}
        OBVIOUS
      <3>6. Active # Nothing => \A f \in Tokens : ~SameFamily(f, Active) => f.family \notin family
        BY DEF SameFamily
      <3>7. \A m \in Modes \ {Configured} : Clean(session[m])' /\ Clean(recovery[m])'
        BY <2>1, <2>5, <3>1, <3>4, <3>5, <3>6 DEF Clean
      <3>8. Clean(session[Configured])' /\ Clean(recovery[Configured])'
        <4>1. Configured' = Configured
          BY <2>1 DEF Delete, Configured
        <4> QED
          BY <2>3, <3>2, <3>3, <4>1 DEF Clean
      <3>9. Configured' = Configured
        BY <2>1 DEF Delete, Configured
      <3> QED
        BY <2>2, <3>7, <3>8, <3>9, MigrationAssumption
    <2> QED
      BY <2>4, <2>5
  <1>11. CASE SignOutFails
    <2>1. PICK unreached \in SUBSET Copies, rest \in {[session[Configured] EXCEPT !.file = Nothing], NoFile} : Delete(unreached, rest)
      BY <1>11 DEF SignOutFails
    <2>2. Clean(session[Configured])
      BY <1>0
    <2>3. Clean(rest)
      BY <1>0, <2>1, <2>2, MigrationAssumption DEF Clean, Pair, NoFile
    <2>4. UNCHANGED <<gone, spared>>
      BY <1>11 DEF SignOutFails
    <2> QED
      BY <1>keeps, <2>1, <2>3, <2>4
  <1>12. CASE Dies
    BY <1>12, MigrationAssumption DEF Dies, Clean, Idle
  <1>13. CASE Starts
    BY <1>13 DEF Starts, Clean, Idle
  <1>14. CASE UNCHANGED migrationVars
    BY <1>14 DEF migrationVars, Clean
  <1> QED
    BY <1>1, <1>2, <1>3, <1>4, <1>5, <1>6, <1>7, <1>8, <1>9, <1>10, <1>11, <1>12, <1>13, <1>14 DEF MigrationNext

-------------------------------------------------------------------------------
\* The locations stay complete before they are named.
LEMMA FollowStep ==
  ASSUME MigrationTypeOK, ~unread => SettingsFollow /\ SessionFollows /\ StaysOut,
         [MigrationNext]_migrationVars, ~unread'
  PROVE  SettingsFollow' /\ SessionFollows'
  <1> DEFINE Good == SettingsFollow' /\ SessionFollows'
  <1> USE DEF SettingsFollow, SessionFollows, Moving, Active, migrationGhosts
  <1>0. Configured \in Modes /\ (UNCHANGED <<boot, legacy>> => Configured' = Configured)
    BY ConfiguredMode DEF Configured
  <1>1. ASSUME NEW p \in Preferences, SaveSettings(p) PROVE Good
    BY <1>0, <1>1 DEF SaveSettings, MigrationTypeOK
  <1>2. ASSUME NEW m \in Modes, Migrate(m) PROVE Good
    <2>1. UNCHANGED <<boot, legacy, session, mode, preferences, lastSettings, lastSession, raced, unread>>
          /\ move.at = "idle" /\ m # mode
      BY <1>2 DEF Migrate
    <2>2. stored' \in {stored, [stored EXCEPT ![m] = preferences]}
      BY <1>2 DEF Migrate
    <2>3. stored'[mode] = stored[mode]
      BY <2>1, <2>2 DEF MigrationTypeOK
    <2>4. move' = move \/ (move'.at = "copy" /\ move'.target = m /\ stored'[m] = preferences)
      BY <1>2 DEF Migrate, Idle, MigrationTypeOK
    <2> QED
      BY <1>0, <2>1, <2>3, <2>4
  <1>3. CASE CopyReads
    <2>1. UNCHANGED <<boot, legacy, stored, session, mode, preferences, lastSettings, lastSession, raced, unread>> /\ move.at = "copy"
      BY <1>3 DEF CopyReads
    <2>2. move' = Idle \/ (move'.at = "replace" /\ move'.target = move.target /\ move'.from = session[mode].file)
      BY <1>3 DEF CopyReads, MigrationTypeOK
    <2> QED
      BY <1>0, <2>1, <2>2 DEF Idle
  <1>4. CASE CopyReplaces
    <2>1. UNCHANGED <<boot, legacy, stored, mode, preferences, lastSettings, lastSession, raced, unread>> /\ move.at = "replace"
      BY <1>4 DEF CopyReplaces
    <2>2. move'.at \in {"commit", "undo"} /\ move'.target = move.target /\ move.target \in Modes
      BY <1>4 DEF CopyReplaces, MigrationTypeOK
    <2>3. session'[Configured] = session[Configured]
      BY <1>0, <1>4, <2>1 DEF CopyReplaces, MigrationTypeOK
    <2>4. move'.at = "commit" => session'[move.target].file = move.from
      BY <1>4, <2>2 DEF CopyReplaces, MigrationTypeOK, Put, Written, NoFile
    <2> QED
      BY <1>0, <2>1, <2>2, <2>3, <2>4
  <1>5. CASE CopyUndoes
    BY <1>0, <1>5 DEF CopyUndoes, MigrationTypeOK, Idle
  <1>6. CASE CommitMove
    <2>1. CASE boot' = Written(boot, move.target) /\ mode' = move.target /\ UNCHANGED unread
      <3>1. Configured' = move.target
        BY <2>1, MigrationAssumption DEF Configured, Written, MigrationTypeOK
      <3> QED
        BY <1>6, <2>1, <3>1 DEF CommitMove, Idle
    <2>2. CASE boot' \in Torn(boot) /\ UNCHANGED <<mode, unread>>
      <3>1. Configured' = Configured
        BY <1>6, <2>2, TornBoot DEF CommitMove
      <3> QED
        BY <1>6, <2>2, <3>1 DEF CommitMove, Idle
    <2> QED
      BY <1>6, <2>1, <2>2 DEF CommitMove
  <1>saves. ASSUME UNCHANGED <<boot, legacy, stored, mode, preferences, move, lastSettings, unread>>, StoreFree,
                \/ raced' = (move.at = "commit") /\ Active' = lastSession'
                \/ UNCHANGED <<session, lastSession, raced>>
         PROVE  Good
    <2>1. CASE raced' = (move.at = "commit") /\ Active' = lastSession'
      <3>1. ~raced' => move.at # "commit"
        BY <2>1, Zenon
      <3> QED
        BY <1>0, <1>saves, <2>1, <3>1 DEF StoreFree
    <2>2. CASE UNCHANGED <<session, lastSession, raced>>
      BY <1>0, <1>saves, <2>2 DEF StoreFree
    <2> QED
      BY <1>saves, <2>1, <2>2
  <1>7. ASSUME NEW token, Save(token), StoreFree PROVE Good
    <2>1. UNCHANGED <<boot, legacy>> => Active' = session'[Configured].file
      BY <1>0
    <2>2. CASE session' = [session EXCEPT ![Configured] = Written(@, token)] /\ lastSession' = token /\ raced' = (move.at = "commit")
      <3>1. session'[Configured].file = token
        BY <1>0, <2>2 DEF MigrationTypeOK, Written
      <3> QED
        BY <1>saves, <1>7, <2>1, <2>2, <3>1 DEF Save
    <2>3. CASE session' = [session EXCEPT ![Configured] = HalfWay(@)] /\ lastSession' = Nothing /\ raced' = (move.at = "commit")
      <3>1. session'[Configured].file = Nothing
        BY <1>0, <2>3 DEF MigrationTypeOK, HalfWay
      <3> QED
        BY <1>saves, <1>7, <2>1, <2>3, <3>1 DEF Save
    <2>4. CASE UNCHANGED <<session, lastSession, raced>>
      BY <1>saves, <1>7, <2>4 DEF Save
    <2> QED
      BY <1>7, <2>2, <2>3, <2>4 DEF Save
  <1>8. ASSUME NEW family \in Families, SignIn(family) PROVE Good
    BY <1>7, <1>8 DEF SignIn
  <1>10. CASE EndRenewal
    BY <1>7, <1>10 DEF EndRenewal
  <1>9. CASE BeginRenewal
    BY <1>0, <1>9 DEF BeginRenewal
  <1>deletes. ASSUME NEW unreached, NEW rest, Delete(unreached, rest), rest.file = Nothing PROVE Good
    <2>1. session'[Configured].file = Nothing /\ lastSession' = Nothing /\ raced' = (move.at = "commit")
      BY <1>0, <1>deletes DEF Delete
    <2> QED
      BY <1>0, <1>saves, <1>deletes, <2>1 DEF Delete
  <1>11. CASE SignOut
    BY <1>11, <1>deletes DEF SignOut, NoFile
  <1>12. CASE SignOutFails
    <2>1. PICK unreached \in SUBSET Copies, rest \in {[session[Configured] EXCEPT !.file = Nothing], NoFile} : Delete(unreached, rest)
      BY <1>12 DEF SignOutFails
    <2>2. session[Configured] \in Pair(Tokens)
      BY <1>0 DEF MigrationTypeOK
    <2>3. rest.file = Nothing
      BY <2>1, <2>2 DEF Pair, NoFile
    <2> QED
      BY <1>deletes, <2>1, <2>3
  <1>13. CASE Dies
    BY <1>0, <1>13 DEF Dies, Idle
  <1>14. CASE Starts
    BY <1>0, <1>14 DEF Starts, Idle
  <1>15. CASE UNCHANGED migrationVars
    BY <1>0, <1>15 DEF migrationVars
  <1> QED
    BY <1>1, <1>2, <1>3, <1>4, <1>5, <1>6, <1>8, <1>9, <1>10, <1>11, <1>12, <1>13, <1>14, <1>15 DEF MigrationNext

-------------------------------------------------------------------------------

\* A session that was signed out does not come into use again: what is copied and what is renewed
\* is the active one, and at "commit" a sign-out takes the copy along or has not read it.
LEMMA OutStep ==
  ASSUME MigrationTypeOK, ~unread => SettingsFollow /\ SessionFollows /\ StaysOut,
         RenewalPossible, [MigrationNext]_migrationVars, ~unread', ~unread
  PROVE  StaysOut'
  <1> USE DEF StaysOut, NotBack, Active, signOutGhosts, migrationGhosts
  <1>0. /\ Configured \in Modes /\ (UNCHANGED <<boot, legacy>> => Configured' = Configured)
        /\ session[Configured] \in Pair(Tokens) /\ StaysOut
    BY ConfiguredMode DEF Configured, MigrationTypeOK
  <1>1. ASSUME NEW p \in Preferences, SaveSettings(p) PROVE StaysOut'
    BY <1>0, <1>1 DEF SaveSettings
  <1>2. ASSUME NEW m \in Modes, Migrate(m) PROVE StaysOut'
    BY <1>0, <1>2 DEF Migrate, Idle, MigrationTypeOK
  <1>3. CASE CopyReads
    <2>1. UNCHANGED <<boot, legacy, session, renewing, gone, overtaken>> /\ mode = Configured
      BY <1>3 DEF CopyReads, SettingsFollow
    <2>2. move' = Idle \/ (move'.at = "replace" /\ move'.from = session[mode].file)
      BY <1>3 DEF CopyReads, MigrationTypeOK
    <2> QED
      BY <1>0, <2>1, <2>2 DEF Idle
  <1>4. CASE CopyReplaces
    <2>1. UNCHANGED <<boot, legacy, renewing, gone, overtaken>> /\ mode = Configured /\ move.target # mode
      BY <1>4 DEF CopyReplaces, SettingsFollow, Moving
    <2>2. move'.at \in {"commit", "undo"} /\ move'.target = move.target /\ move.target \in Modes
      BY <1>4 DEF CopyReplaces, MigrationTypeOK
    <2>3. session'[Configured] = session[Configured]
      BY <1>0, <1>4, <2>1 DEF CopyReplaces, MigrationTypeOK
    <2>4. move'.at = "commit" => session'[move.target].file = move.from
      BY <1>4, <2>2 DEF CopyReplaces, MigrationTypeOK, Put, Written, NoFile
    <2>5. NotBack(move.from)
      BY <1>0, <1>4 DEF CopyReplaces
    <2> QED
      BY <1>0, <2>1, <2>2, <2>3, <2>4, <2>5
  <1>5. CASE CopyUndoes
    <2>1. UNCHANGED <<boot, legacy, renewing, gone, overtaken>> /\ mode = Configured /\ move.target # mode /\ move' = Idle
      BY <1>5 DEF CopyUndoes, SettingsFollow, Moving
    <2>2. session'[Configured] = session[Configured]
      BY <1>0, <1>5, <2>1 DEF CopyUndoes, MigrationTypeOK
    <2> QED
      BY <1>0, <2>1, <2>2 DEF Idle
  <1>6. CASE CommitMove
    <2>0. UNCHANGED <<session, renewing, gone, overtaken>> /\ move' = Idle /\ move.at = "commit"
      BY <1>6 DEF CommitMove
    <2>1. CASE boot' = Written(boot, move.target)
      <3>1. Configured' = move.target
        BY <1>6, <2>1, MigrationAssumption DEF CommitMove, Configured, Written, MigrationTypeOK
      <3> QED
        BY <1>0, <2>0, <3>1 DEF Idle
    <2>2. CASE boot' \in Torn(boot)
      <3>1. Configured' = Configured
        BY <1>6, <2>2, TornBoot DEF CommitMove
      <3> QED
        BY <1>0, <2>0, <3>1 DEF Idle
    <2> QED
      BY <1>6, <2>1, <2>2 DEF CommitMove
  <1>7. ASSUME NEW token \in Tokens, NotBack(token), Save(token), renewing' = Nothing
        PROVE  StaysOut'
    <2>1. UNCHANGED <<boot, legacy, move, gone, overtaken>>
      BY <1>7 DEF Save
    <2>2. session' = session \/ session'[Configured].file \in {token, Nothing}
      BY <1>0, <1>7 DEF Save, MigrationTypeOK, Written, HalfWay
    <2>3. \A m \in Modes \ {Configured} : session'[m] = session[m]
      BY <1>7 DEF Save, MigrationTypeOK
    <2>4. move.at = "commit" => move.target \in Modes \ {Configured}
      BY <1>0 DEF SettingsFollow, Moving, MigrationTypeOK
    <2>5. NotBack(session'[Configured].file)
      BY <1>0, <1>7, <2>2, MigrationAssumption
    <2>6. move.at = "commit" => NotBack(session'[move.target].file)
      BY <1>0, <2>3, <2>4
    <2>7. move.at # "replace" \/ NotBack(move.from)
      BY <1>0
    <2> QED
      BY <1>0, <1>7, <2>1, <2>5, <2>6, <2>7, MigrationAssumption
  <1>8. ASSUME NEW family \in Families, SignIn(family) PROVE StaysOut'
    <2>1. [family |-> family, serial |-> 1] \in Tokens /\ NotBack([family |-> family, serial |-> 1])
      BY <1>8, MigrationAssumption DEF SignIn, Known, Tokens
    <2> QED
      BY <1>7, <1>8, <2>1 DEF SignIn
  <1>9. CASE BeginRenewal
    BY <1>0, <1>9 DEF BeginRenewal
  <1>10. CASE EndRenewal
    <2>1. renewing \in Tokens /\ NotBack(renewing)
      BY <1>0, <1>10 DEF EndRenewal, MigrationTypeOK
    <2>2. ASSUME [renewing EXCEPT !.serial = @ + 1] \in Tokens PROVE NotBack([renewing EXCEPT !.serial = @ + 1])
      BY <2>1 DEF Tokens
    <2>3. ASSUME renewing.serial < MaxSerial PROVE [renewing EXCEPT !.serial = @ + 1] \in Tokens
      BY <2>1, <2>3, MigrationAssumption DEF Tokens
    <2> QED
      BY <1>7, <1>10, <2>2, <2>3 DEF EndRenewal, RenewalPossible
  <1>deletes. ASSUME NEW unreached, NEW rest, Delete(unreached, rest), rest.file = Nothing,
                     NEW family, gone' = gone \cup family, overtaken \subseteq overtaken',
                     \A t \in Tokens : move.at = "commit" /\ t.family \in family /\ t.family \notin overtaken'
                       => unreached = {} /\ SameFamily(t, Active)
              PROVE  StaysOut'
    <2>1. UNCHANGED <<boot, legacy, move, renewing>> /\ renewing = Nothing /\ move.at # "replace"
      BY <1>deletes DEF Delete, StoreFree
    <2>2. session'[Configured] = rest
      BY <1>0, <1>deletes DEF Delete
    <2>3. ASSUME move.at = "commit" PROVE NotBack(session[move.target].file)'
      <3>1. move.target \in Modes \ {Configured}
        BY <1>0, <2>3 DEF SettingsFollow, Moving, MigrationTypeOK
      <3> DEFINE copy == [at |-> move.target, kind |-> "session", part |-> "file"]
                 owner == IF [at |-> Configured, kind |-> "session", part |-> "file"] \in unreached
                          THEN Nothing ELSE Active
                 left == Purged(copy, owner, unreached)
      <3>2. copy \in CopyNames /\ Held(copy) = session[move.target].file
        BY <3>1 DEF CopyNames, Held
      <3>3. session'[move.target].file = left
        BY <1>deletes, <3>1 DEF Delete, PurgedPair
      <3>4. left \in {Held(copy), Nothing} /\ (unreached = {} => ~SameFamily(left, Active))
        BY <3>2, PurgedCopy
      <3>5. NotBack(Held(copy))
        BY <1>0, <2>3, <3>2
      <3> HIDE DEF left, copy, owner
      <3> QED
        BY <1>deletes, <2>1, <2>3, <3>3, <3>4, <3>5, MigrationAssumption
    <2> QED
      BY <1>0, <1>deletes, <2>1, <2>2, <2>3, MigrationAssumption
  <1>11. CASE SignOut
    <2> DEFINE family == IF Active = Nothing THEN {} ELSE {Active.family}
    <2>1. PICK unreadable :
            /\ Delete(unreadable, NoFile) /\ gone' = gone \cup family
            /\ overtaken' = IF unreadable = {} \/ move.at # "commit" THEN overtaken ELSE overtaken \cup family
      BY <1>11 DEF SignOut
    <2>2. \A t \in Tokens : t.family \in family => SameFamily(t, Active)
      BY DEF SameFamily
    <2>3. NoFile.file = Nothing /\ overtaken \subseteq overtaken'
      BY <2>1 DEF NoFile
    <2> HIDE DEF family
    <2> QED
      BY <1>deletes, <2>1, <2>2, <2>3
  <1>12. CASE SignOutFails
    <2>1. PICK unreached \in SUBSET Copies, rest \in {[session[Configured] EXCEPT !.file = Nothing], NoFile} : Delete(unreached, rest)
      BY <1>12 DEF SignOutFails
    <2>2. rest.file = Nothing
      BY <1>0, <2>1 DEF Pair, NoFile
    <2> DEFINE family == {}
    <2>3. gone' = gone \cup family /\ overtaken \subseteq overtaken' /\ \A t : t \notin family
      BY <1>12 DEF SignOutFails
    <2> HIDE DEF family
    <2> QED
      BY <1>deletes, <2>1, <2>2, <2>3
  <1>13. CASE Dies
    BY <1>0, <1>13, MigrationAssumption DEF Dies, Idle
  <1>14. CASE Starts
    BY <1>0, <1>14 DEF Starts, Idle
  <1>15. CASE UNCHANGED migrationVars
    BY <1>0, <1>15 DEF migrationVars
  <1> QED
    BY <1>1, <1>2, <1>3, <1>4, <1>5, <1>6, <1>8, <1>9, <1>10, <1>11, <1>12, <1>13, <1>14, <1>15 DEF MigrationNext

\* That the bootstrap file could not be read back is not forgotten.
LEMMA UnreadStays == ASSUME [MigrationNext]_migrationVars, ~unread' PROVE ~unread
  BY Zenon DEF MigrationNext, migrationVars, migrationGhosts, SaveSettings, Migrate, CopyReads, CopyReplaces, CopyUndoes,
     CommitMove, SignIn, Save, BeginRenewal, EndRenewal, SignOut, SignOutFails, Delete, Dies, Starts

LEMMA MigrationInvStep == MigrationInv /\ [MigrationNext]_migrationVars => MigrationInv'
  BY MigrationTypeStep, FollowStep, OutStep, GoneStep, Zenon, UnreadStays DEF MigrationInv

\* The files, the migration and the renewal keep their types, for any locations and settings and
\* any number of renewals and migrations; a bootstrap file names a location also when torn.
THEOREM MigrationTypeCorrect == MigrationSpec => []MigrationTypeOK
  <1>1. MigrationInv => MigrationTypeOK
    BY DEF MigrationInv
  <1> QED
    BY MigrationInitInv, MigrationInvStep, <1>1, PTL DEF MigrationSpec

\* After a migration that failed or died anywhere (MigrateStorage, CopyTo, AtomicFile.Write) the
\* next start finds the settings and the session that were saved last.
THEOREM MovedDataIsFound == MigrationSpec => []RestartFinds
  <1>1. MigrationInv => RestartFinds
    BY DEF MigrationInv, SettingsFollow, SessionFollows, RestartFinds
  <1> QED
    BY MigrationInitInv, MigrationInvStep, <1>1, PTL DEF MigrationSpec

\* A session that was signed out (DeleteSession) is nowhere on the disk again, however migrations
\* and their failures had copied it, backed it up or kept it for recovery, unless a copy could not
\* be read; and one that could not be read does not come into use again on its own.
THEOREM SignedOutIsGone == MigrationSpec => []SignedOutGone
  <1>1. MigrationInv => SignedOutGone
    BY DEF MigrationInv, GoneNowhere, Clean, NotGone, StaysOut, NotBack, SignedOutGone
  <1> QED
    BY MigrationInitInv, MigrationInvStep, <1>1, PTL DEF MigrationSpec
===============================================================================
