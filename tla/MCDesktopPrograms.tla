--------------------------- MODULE MCDesktopPrograms ---------------------------
(***************************************************************************)
(* The parts of the desktop program that keep the user's data and the      *)
(* process itself, each on its own: `part` says which of them runs in a    *)
(* behaviour, and the others stay where they start.                        *)
(***************************************************************************)
EXTENDS SettingsFile, StorageMigration, PreferenceTransaction, LoopbackCallbackListener, HostLifetime, TLC

CONSTANTS portable, profile

VARIABLE part

MCModes == {portable, profile}
MCPorts == <<49152, 49153>>
Parts == {"settings", "migration", "sessions", "preferences", "listener", "host"}

\* The migration runs twice: as "migration" with preferences that change and one account that
\* signs in, as "sessions" with every account and preferences that are left alone.
Migrates == part \in {"migration", "sessions"}
OneAccount == LET one == CHOOSE family \in Families : TRUE
              IN  lastSession' \in {Nothing} \cup [family : {one}, serial : 1 .. MaxSerial]
MigrationStep == MigrationNext /\ IF part = "migration" THEN OneAccount ELSE UNCHANGED lastSettings

\* Where a part with several initial states stands while another runs.
MigrationStart  == MigrationInit /\ legacy # profile /\ (Migrates \/ legacy = Nothing)
                                 /\ preferences = CHOOSE p \in Preferences : TRUE
PreferenceStart == PreferenceInit /\ place = profile /\ (part = "preferences" \/ saved = NoCall.read)
ListenerStart   == ListenerInit /\ (part = "listener" \/ occupied = {})

DesktopInit ==
  /\ part \in Parts
  /\ Init /\ MigrationStart /\ PreferenceStart /\ ListenerStart /\ HostInit

DesktopNext ==
  /\ UNCHANGED part
  /\ IF part = "settings"    THEN Next           ELSE UNCHANGED vars
  /\ IF Migrates             THEN MigrationStep  ELSE UNCHANGED migrationVars
  /\ IF part = "preferences" THEN PreferenceNext ELSE UNCHANGED preferenceVars
  /\ IF part = "listener"    THEN ListenerNext   ELSE UNCHANGED listenerVars
  /\ IF part = "host"        THEN HostNext       ELSE UNCHANGED hostVars

DesktopSpec ==
  DesktopInit /\ [][DesktopNext]_<<part, vars, migrationVars, preferenceVars, listenerVars, hostVars>>

\* The type invariant of the part that runs, besides that of the settings file.
DesktopTypeOK ==
  /\ part \in Parts
  /\ Migrates             => MigrationTypeOK
  /\ part = "preferences" => PreferenceTypeOK
  /\ part = "listener"    => ListenerTypeOK
  /\ part = "host"        => HostTypeOK
===============================================================================
