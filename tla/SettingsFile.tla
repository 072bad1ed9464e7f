----------------------------- MODULE SettingsFile -----------------------------
(***************************************************************************)
(* KeepMeAlive/Services/SettingsService.cs and AtomicFile.cs for one       *)
(* storage location: settings.json, its .bak, the copies set aside as      *)
(* .damaged-*, and the process that loads them at startup and saves them   *)
(* while it runs.  The process may die at any instant, also inside         *)
(* File.Replace; the world outside may damage either file at any time, or  *)
(* keep one from being read.                                               *)
(*                                                                         *)
(* Load and Save hold _gate from end to end, so there is one Save at a     *)
(* time; it is two steps here, the setting aside of a damaged file and the *)
(* replacement, because a crash can fall between them.  The temporary file *)
(* is not a variable: its name is fresh and nobody reads it back.          *)
(***************************************************************************)
EXTENDS Naturals, FiniteSets

CONSTANTS Values,      \* settings that pass Validate
          Default,     \* new AppSettings()
          Broken,      \* contents that are not JSON of the right shape
          OutOfRange,  \* contents that parse and fail Validate, or are null
          Missing,     \* no file
          Locked       \* a file that cannot be read at the moment

ASSUME ContentAssumption ==
  /\ Default \in Values
  /\ Values \cap (Broken \cup OutOfRange) = {}
  /\ Broken \cap OutOfRange = {}
  /\ {Missing, Locked} \cap (Values \cup Broken \cup OutOfRange) = {}
  /\ Missing # Locked

Faulty == Broken \cup OutOfRange
Files == Values \cup Faulty \cup {Missing}
Warnings == {"none", "recovered", "defaults"}

VARIABLES
  primary,    \* settings.json
  backup,     \* settings.json.bak
  copies,     \* contents of the settings.json.damaged-* files
  life,       \* "down", "running", or "failed": Load has thrown
  current,    \* _current
  preserve,   \* _preserveDamagedPrimary
  warning,    \* LastError, of Load and Save
  saving,     \* the candidate of a Save in progress, a set of at most one
  faults,     \* ghost: the damage done so far, each fault at most once
  misread,    \* ghost: this process could not read a file that was valid
  survivors,  \* ghost: what a restart may find
  previous,   \* ghost: the settings before the last Save that reached the disk
  rejected    \* ghost: contents of settings.json that a Load has passed over

diskVars == <<primary, backup, copies>>
memoryVars == <<current, preserve, warning>>
ghostVars == <<faults, misread, survivors, previous, rejected>>
vars == <<diskVars, life, memoryVars, saving, ghostVars>>

\* The types; above all, Load and Save leave only validated settings in _current.
TypeOK ==
  /\ primary \in Files
  /\ backup \in Files
  /\ copies \subseteq Values \cup Faulty
  /\ life \in {"down", "running", "failed"}
  /\ current \in Values
  /\ preserve \in BOOLEAN
  /\ warning \in Warnings
  /\ saving \subseteq Values
  /\ faults \subseteq Faulty
  /\ misread \in BOOLEAN
  /\ survivors \subseteq Values
  /\ previous \in Values
  /\ rejected \subseteq Values \cup Faulty

\* A first start on a machine that has no settings yet.
Init ==
  /\ primary = Missing
  /\ backup = Missing
  /\ copies = {}
  /\ life = "down"
  /\ current = Default
  /\ preserve = FALSE
  /\ warning = "none"
  /\ saving = {}
  /\ faults = {}
  /\ misread = FALSE
  /\ survivors = {Default}
  /\ previous = Default
  /\ rejected = {}

-------------------------------------------------------------------------------
\* Load, over what it sees of the two files

\* Mutant: what is in the primary file is taken without validation.
LoadedFrom_Unchecked(p, b) == IF p # Missing THEN p ELSE IF b \in Values THEN b ELSE Default

\* The first file that holds valid settings, or the defaults.
LoadedFrom(p, b) == IF p \in Values THEN p ELSE IF b \in Values THEN b ELSE Default

\* Mutant: a file that is not JSON is not caught either.
Throws_OnBroken(p, b) == p \in Faulty \/ (p \notin Values /\ b \in Faulty)

\* Validate throws InvalidDataException, which Load does not catch.
Throws(p, b) == p \in OutOfRange \/ (p \notin Values /\ b \in OutOfRange)

WarningOf(p, b) ==
  IF p \in Values \/ (p = Missing /\ b = Missing) THEN "none"
  ELSE IF b \in Values THEN "recovered" ELSE "defaults"

\* What a read of a file sees while some files are locked.
Seen(file, locked) == IF locked /\ file # Missing THEN Locked ELSE file

\* OnStartup calls Load; when that throws, the process reports it and exits.
Start(primaryLocked, backupLocked) ==
  LET p == Seen(primary, primaryLocked)
      b == Seen(backup, backupLocked)
      passedOver == p \notin Values \cup {Missing}
  IN  /\ life # "running"
      /\ misread' = \/ primary \in Values /\ p = Locked
                    \/ backup \in Values /\ b = Locked
      /\ \/ /\ ~Throws(p, b)
            /\ life' = "running"
            /\ current' = LoadedFrom(p, b)
            /\ warning' = WarningOf(p, b)
            /\ preserve' = passedOver
            /\ survivors' = {LoadedFrom(p, b)}
            /\ previous' = LoadedFrom(Missing, backup)
            /\ rejected' = IF passedOver THEN rejected \cup {primary} ELSE rejected \ {primary}
         \/ /\ Throws(p, b)
            /\ life' = "failed"
            /\ UNCHANGED <<memoryVars, survivors, previous, rejected>>
      /\ UNCHANGED <<diskVars, saving, faults>>

-------------------------------------------------------------------------------
\* Save

\* Mutant: a damaged file is left to be replaced.
SetAside_Never == UNCHANGED <<primary, copies, preserve>>

\* A primary file that Load could not use is moved out of the way first.
SetAside ==
  IF preserve /\ primary # Missing
    THEN /\ copies' = copies \cup {primary}
         /\ primary' = Missing
         /\ preserve' = FALSE
    ELSE UNCHANGED <<primary, copies, preserve>>

\* Save of valid settings up to the replacement of the file.
BeginSave(v) ==
  /\ life = "running"
  /\ saving = {}
  /\ saving' = {v}
  /\ SetAside
  /\ survivors' = survivors \cup {v}
  /\ UNCHANGED <<backup, life, current, warning, faults, misread, previous, rejected>>

\* Mutant: the preceding file is not kept.
Replaced_NoBackup(v) == primary' = v /\ UNCHANGED backup

\* AtomicFile.Write has done all its work: File.Replace keeps the preceding file
\* as the backup, File.Move finds none to keep.
Replaced(v) ==
  /\ backup' = IF primary = Missing THEN backup ELSE primary
  /\ primary' = v

\* Mutant: the old file is deleted first, then the new one moved in.
HalfReplaced_Deleted == primary # Missing /\ primary' = Missing /\ UNCHANGED backup

\* File.Replace has renamed the old file and not the new one.
HalfReplaced == primary # Missing /\ backup' = primary /\ primary' = Missing

\* The rest of Save, when the file is replaced.
Commit(v) ==
  /\ life = "running"
  /\ v \in saving
  /\ Replaced(v)
  /\ current' = v
  /\ warning' = "none"
  /\ saving' = {}
  /\ survivors' = {v}
  /\ previous' = current
  /\ UNCHANGED <<copies, life, preserve, faults, misread, rejected>>

\* The rest of Save, when AtomicFile.Write throws: the temporary file is deleted
\* and the caller gets the exception.
SaveFails ==
  /\ life = "running"
  /\ saving # {}
  /\ HalfReplaced \/ UNCHANGED <<primary, backup>>
  /\ saving' = {}
  /\ survivors' = {current}
  /\ UNCHANGED <<copies, life, memoryVars, faults, misread, previous, rejected>>

-------------------------------------------------------------------------------
\* The world outside

\* The process dies, in the middle of a Save or not.
Crash ==
  /\ life = "running"
  /\ \/ UNCHANGED <<primary, backup, previous>>
     \/ saving # {} /\ HalfReplaced /\ UNCHANGED previous
     \/ \E v \in saving : Replaced(v) /\ previous' = current
  /\ life' = "down"
  /\ current' = Default
  /\ preserve' = FALSE
  /\ warning' = "none"
  /\ saving' = {}
  /\ UNCHANGED <<copies, faults, misread, survivors, rejected>>

\* A disk fault or another program spoils one of the files.
Damage(f) ==
  /\ f \notin faults
  /\ faults' = faults \cup {f}
  /\ \/ /\ primary # Missing
        /\ primary' = f
        /\ rejected' = rejected \ {primary}
        /\ UNCHANGED backup
     \/ /\ backup # Missing
        /\ backup' = f
        /\ rejected' = rejected \ {backup}
        /\ UNCHANGED primary
  /\ UNCHANGED <<copies, life, memoryVars, saving, misread, survivors, previous>>

Next == \/ \E primaryLocked, backupLocked \in BOOLEAN : Start(primaryLocked, backupLocked)
        \/ \E v \in Values : BeginSave(v) \/ Commit(v)
        \/ SaveFails
        \/ Crash
        \/ \E f \in Faulty : Damage(f)

Spec == Init /\ [][Next]_vars

-------------------------------------------------------------------------------
\* Safety

\* AtomicFile.Write and Load together make one atomic register: without damage
\* from outside, a restart finds the settings of the last Save that returned, or
\* those of a Save that the process died in; a Save that threw leaves nothing.
Durable == faults = {} /\ ~misread => LoadedFrom(primary, backup) \in survivors

\* PRIVACY_DATA_FLOW.md:9, "The preceding file is retained as .bak": whatever
\* failed, crashed or was set aside on the way, a good .bak beside a good
\* settings.json holds the settings just before the last Save, never older ones.
FallbackIsPrevious ==
  life = "running" /\ saving = {} /\ ~misread /\ primary \in Values /\ backup \in Values
    => backup = previous

\* PRIVACY_DATA_FLOW.md:10, "Invalid primary files are preserved": a settings.json
\* that Load passed over stays somewhere on the disk through every later Save,
\* failed Save and restart, unless it is damaged again.
RejectedPreserved == rejected \subseteq copies \cup {primary, backup}

\* Files that are cut short, garbled or locked, and crashes inside Save, never
\* keep the application from starting.
StartsDespiteDamage == faults \cap OutOfRange = {} => life # "failed"

\* ISettingsService.cs:18, "Loads valid settings, recovering the previous file
\* when necessary": Load does not give up while the previous file is good.
RecoversPrevious == life = "failed" => backup \notin Values
=============================================================================
