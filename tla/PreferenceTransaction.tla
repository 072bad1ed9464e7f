-------------------------- MODULE PreferenceTransaction --------------------------
(***************************************************************************)
(* SettingsViewModel.TrySave: the preferences of the draft are saved, the  *)
(* data moved, the start with Windows registered and the scheduled action  *)
(* armed, each of which may fail, and what was done is then undone in the  *)
(* same order.  The callback of the scheduler runs on its own thread: it   *)
(* reads the settings, disarms and saves them, and carries the action out. *)
(* What these four services do inside is the subject of SettingsFile,      *)
(* StorageMigration and ScheduledActionService.                            *)
(***************************************************************************)
EXTENDS Naturals

CONSTANTS Looks,     \* theme, notifications and the other plain preferences
          Places,    \* StorageMode
          LastTime,  \* bound: the last instant of the clock
          Grace,     \* how late an action is still carried out: 30 seconds
          Saves,     \* bound: calls of TrySave
          Unarmed    \* no scheduled action

ASSUME PreferenceAssumption == LastTime \in Nat /\ Grace \in Nat /\ Saves \in Nat /\ Unarmed \notin Nat

Clock == 0 .. LastTime
Due == Clock \cup {Unarmed}
Choices == [look : Looks, onBoot : BOOLEAN, due : Due]  \* ScheduledActionEnabled: due # Unarmed

VARIABLES
  clock,       \* DateTime.Now
  saved,       \* the settings, in memory and on disk
  place,       \* CurrentStorageMode
  registered,  \* the value under Run in the registry
  armed,       \* the scheduler's timer
  task,        \* TrySave: where it stands, its draft, and what it read at the start
  calls,       \* calls of TrySave so far
  result,      \* what the last one returned, "warned" if its recovery could not finish
  callback,    \* the callback of the scheduler: what it read, while it holds the scheduler
  done,        \* ghost: the due times whose action was carried out
  again,       \* ghost: one of them was carried out a second time
  late,        \* ghost: Schedule armed a time that came between its check and its lock
  crossed,     \* ghost: the callback ran while TrySave did
  agreed       \* ghost: the system should be as the settings say

preferenceVars ==
  <<clock, saved, place, registered, armed, task, calls, result, callback, done, again, late, crossed, agreed>>

Steps == {"idle", "save", "move", "startup", "schedule", "arm",
          "moveBack", "restoreFile", "restoreStartup", "restoreSchedule", "rearm"}
NoCall == [held |-> FALSE, read |-> CHOOSE c \in Choices : TRUE, due |-> Unarmed]

\* The types; above all, what is saved is one of the choices the draft can hold.
PreferenceTypeOK ==
  /\ clock \in Clock /\ saved \in Choices /\ place \in Places /\ registered \in BOOLEAN /\ armed \in Due
  /\ task \in [at : Steps, draft : Choices, to : Places, original : Choices, from : Places]
  /\ calls \in 0 .. Saves /\ result \in {"none", "saved", "failed", "warned"}
  /\ callback \in [held : BOOLEAN, read : Choices, due : Due]
  /\ done \subseteq Clock /\ again \in BOOLEAN /\ late \in BOOLEAN /\ crossed \in BOOLEAN /\ agreed \in BOOLEAN

PreferenceInit ==
  /\ clock = 0 /\ place \in Places
  /\ saved \in {c \in Choices : c.due # 0}
  /\ registered = saved.onBoot /\ armed = saved.due
  /\ task = [at |-> "idle", draft |-> saved, to |-> place, original |-> saved, from |-> place]
  /\ calls = 0 /\ result = "none"
  /\ callback = NoCall
  /\ done = {} /\ again = FALSE /\ late = FALSE /\ crossed = FALSE /\ agreed = TRUE

At(step) == task.at = step
Proceed(step) == task' = [task EXCEPT !.at = step]
\* What a service call leaves alone, besides its own effect.
Kept == UNCHANGED <<clock, calls, callback, done, again, late, crossed>>

-------------------------------------------------------------------------------
\* TrySave, on the user interface thread

\* ValidateSchedule asks for a time in the future; the settings are read.
BeginSaving(draft, to) ==
  /\ At("idle") /\ calls < Saves
  /\ draft.due # Unarmed => draft.due > clock
  /\ task' = [at |-> "save", draft |-> draft, to |-> to, original |-> saved, from |-> place]
  /\ calls' = calls + 1
  /\ crossed' = callback.held
  /\ UNCHANGED <<clock, saved, place, registered, armed, result, callback, done, again, late, agreed>>

SavesDraft ==
  /\ At("save")
  /\ \/ saved' = task.draft /\ Proceed("move")
     \/ UNCHANGED saved /\ Proceed("moveBack")
  /\ Kept /\ UNCHANGED <<place, registered, armed, result, agreed>>

MovesData ==
  /\ At("move")
  /\ \/ place' = task.to /\ Proceed("startup")
     \/ task.to # place /\ UNCHANGED place /\ Proceed("moveBack")
  /\ Kept /\ UNCHANGED <<saved, registered, armed, result, agreed>>

\* SetStartup may throw before it writes, or after: when the value it reads back differs.
SetsStartup ==
  /\ At("startup")
  /\ \/ registered' = task.draft.onBoot /\ Proceed("schedule")
     \/ registered' \in {registered, task.draft.onBoot} /\ Proceed("moveBack")
  /\ Kept /\ UNCHANGED <<saved, place, armed, result, agreed>>

\* Mutant: a time that is over is armed again.
Passed_Never(due) == FALSE

\* What the scheduler does not arm: a time that is over.
Passed(due) == due \in Clock /\ due <= clock

\* Schedule throws if the time has come meanwhile: it looks before it waits for the scheduler,
SchedulesDraft ==
  /\ At("schedule")
  /\ Proceed(IF Passed(task.draft.due) THEN "moveBack" ELSE "arm")
  /\ Kept /\ UNCHANGED <<saved, place, registered, armed, result, agreed>>

\* and does not look again once it has it.
ArmsDraft ==
  /\ At("arm") /\ ~callback.held
  /\ armed' = task.draft.due
  /\ late' = (late \/ Passed(task.draft.due))
  /\ Proceed("idle") /\ result' = "saved" /\ agreed' = ~crossed
  /\ UNCHANGED <<clock, saved, place, registered, calls, callback, done, again, crossed>>

-------------------------------------------------------------------------------
\* Its catch block

\* Mutant: the data is left where it is.
MovesBack_Never ==
  /\ At("moveBack")
  /\ Proceed("restoreFile")
  /\ Kept /\ UNCHANGED <<saved, place, registered, armed, result, agreed>>

\* The data goes back, or the user is told where it stays.
MovesBack ==
  /\ At("moveBack")
  /\ \/ place' = task.from /\ UNCHANGED agreed
     \/ place # task.from /\ UNCHANGED place /\ agreed' = FALSE
  /\ Proceed("restoreFile")
  /\ Kept /\ UNCHANGED <<saved, registered, armed, result>>

\* The recovery could not finish; the user is asked to restart.
GivesUp == Proceed("idle") /\ result' = "warned" /\ agreed' = FALSE

RestoresFile ==
  /\ At("restoreFile")
  /\ \/ saved' = task.original /\ Proceed("restoreStartup") /\ UNCHANGED <<result, agreed>>
     \/ UNCHANGED saved /\ GivesUp
  /\ Kept /\ UNCHANGED <<place, registered, armed>>

RestoresStartup ==
  /\ At("restoreStartup")
  /\ \/ registered' = task.original.onBoot /\ Proceed("restoreSchedule") /\ UNCHANGED <<result, agreed>>
     \/ registered' \in {registered, task.original.onBoot} /\ GivesUp
  /\ Kept /\ UNCHANGED <<saved, place, armed>>

\* Restore cancels what is armed and looks at the time of the settings as Schedule does: one
\* that has passed is disarmed there too.
RestoresSchedule ==
  /\ At("restoreSchedule") /\ ~callback.held
  /\ armed' = Unarmed
  /\ \/ ~Passed(saved.due) /\ Proceed("rearm") /\ UNCHANGED <<saved, result, agreed>>
     \/ /\ Passed(saved.due) /\ Proceed("idle") /\ result' = "failed"
        /\ \/ saved' = [saved EXCEPT !.due = Unarmed] /\ agreed' = (agreed /\ ~crossed)
           \/ UNCHANGED saved /\ agreed' = FALSE
  /\ Kept /\ UNCHANGED <<place, registered>>

\* One still to come is armed.
Rearms ==
  /\ At("rearm") /\ ~callback.held
  /\ armed' = saved.due
  /\ Proceed("idle") /\ result' = "failed" /\ agreed' = (agreed /\ ~crossed)
  /\ Kept /\ UNCHANGED <<saved, place, registered>>

-------------------------------------------------------------------------------
\* The scheduler's thread: OnTimer and TryPersistDisarmed

Fires ==
  /\ ~callback.held /\ armed # Unarmed /\ clock >= armed
  /\ callback' = [held |-> TRUE, read |-> saved, due |-> armed]
  /\ armed' = Unarmed
  /\ crossed' = (crossed \/ ~At("idle"))
  /\ UNCHANGED <<clock, saved, place, registered, task, calls, result, done, again, late, agreed>>

Disarms ==
  /\ callback.held
  /\ callback' = NoCall
  /\ crossed' = (crossed \/ ~At("idle"))
  /\ \/ /\ saved' = [callback.read EXCEPT !.due = Unarmed]
        /\ \/ /\ clock - callback.due <= Grace
              /\ done' = done \cup {callback.due} /\ again' = (again \/ callback.due \in done)
           \/ clock - callback.due > Grace /\ UNCHANGED <<done, again>>
        /\ agreed' = (agreed /\ ~crossed)
     \/ agreed' = FALSE /\ UNCHANGED <<saved, done, again>>
  /\ UNCHANGED <<clock, place, registered, armed, task, calls, result, late>>

Passes ==
  /\ clock < LastTime
  /\ clock' = clock + 1
  /\ UNCHANGED <<saved, place, registered, armed, task, calls, result, callback, done, again, late, crossed, agreed>>

PreferenceNext ==
  \/ \E draft \in Choices, to \in Places : BeginSaving(draft, to)
  \/ SavesDraft \/ MovesData \/ SetsStartup \/ SchedulesDraft \/ ArmsDraft
  \/ MovesBack \/ RestoresFile \/ RestoresStartup \/ RestoresSchedule \/ Rearms
  \/ Fires \/ Disarms \/ Passes

PreferenceSpec == PreferenceInit /\ [][PreferenceNext]_preferenceVars

-------------------------------------------------------------------------------

\* Between two calls of TrySave the registry and the scheduler are as the settings say, and the
\* settings and the place of the data are those of the draft if it returned true and those from
\* before if it returned false -- unless the user was told that the recovery failed, or the
\* scheduled time came while TrySave ran.
SystemAgrees ==
  At("idle") /\ ~callback.held /\ agreed =>
    /\ registered = saved.onBoot /\ armed = saved.due
    /\ result \in {"saved", "failed"} =>
         LET wanted == IF result = "saved" THEN task.draft ELSE task.original
         IN  /\ place = IF result = "saved" THEN task.to ELSE task.from
             /\ saved \in {wanted, [wanted EXCEPT !.due = Unarmed]}

\* No failure, rollback or callback in between has an action carried out twice: the schedule
\* that the rollback puts back is armed only if its time was still to come with nothing armed any
\* more.  Schedule alone can do it, when the time of the draft comes between its check and its
\* lock: what the old timer carries out there is armed again.
CarriedOutOnce == again => late

\* What TrySave promises whatever fails: all of the draft or nothing of it, and nothing twice
\* but for that.
SavedOrUndone == SystemAgrees /\ CarriedOutOnce
===============================================================================
