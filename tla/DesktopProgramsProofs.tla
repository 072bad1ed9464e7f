-------------------------- MODULE DesktopProgramsProofs --------------------------
(***************************************************************************)
(* Proofs about PreferenceTransaction, LoopbackCallbackListener and        *)
(* HostLifetime for any preferences, places, times, saves, ports, visitors *)
(* and processes, and about the types of all the desktop programs of       *)
(* MCDesktopPrograms.                                                      *)
(***************************************************************************)
EXTENDS MCDesktopPrograms, StorageProofs, FiniteSetTheorems, SequenceTheorems, TLAPS

\* The part of the types the proofs need.
PreferenceTypes ==
  /\ clock \in Clock /\ saved \in Choices /\ armed \in Due /\ done \subseteq Clock
  /\ task.draft \in Choices /\ task.original \in Choices /\ task.at \in Steps
  /\ task = [at |-> task.at, draft |-> task.draft, to |-> task.to, original |-> task.original, from |-> task.from]
  /\ callback.read \in Choices /\ callback.due \in Due

\* What is armed, or about to be, was not carried out before, if Schedule came in time.
NeverTwice ==
  /\ armed # Unarmed => armed \notin done
  /\ callback.held => callback.due \notin done
  /\ At("rearm") => saved.due \notin done
  /\ ~again

\* The rest of what is known of the schedule: nothing is armed while the callback is at work, nor
\* while Restore is between its check and its lock.
ArmedAhead ==
  /\ \A due \in done : due <= clock
  /\ callback.held => armed = Unarmed /\ callback.due \in Clock /\ callback.due <= clock
  /\ At("rearm") => armed = Unarmed /\ ~callback.held
  /\ ~late => NeverTwice

\* How far TrySave and its rollback have come, unless the callback has crossed them.
DraftDone ==
  /\ task.at \in {"move", "startup", "schedule", "arm"} => saved = task.draft
  /\ task.at \in {"startup", "schedule", "arm"} => place = task.to
  /\ task.at \in {"schedule", "arm"} => registered = task.draft.onBoot
OriginalBack ==
  /\ task.at \in {"restoreFile", "restoreStartup", "restoreSchedule", "rearm"} => place = task.from
  /\ task.at \in {"restoreStartup", "restoreSchedule", "rearm"} => saved = task.original
  /\ task.at \in {"restoreSchedule", "rearm"} => registered = task.original.onBoot

\* Between two calls the system is as the settings say; the callback changes the settings and the
\* schedule together.
Settled ==
  /\ registered = saved.onBoot
  /\ armed = IF callback.held THEN Unarmed ELSE saved.due
  /\ callback.held => callback.read = saved
  /\ result \in {"saved", "failed"} =>
       LET wanted == IF result = "saved" THEN task.draft ELSE task.original
       IN  /\ place = IF result = "saved" THEN task.to ELSE task.from
           /\ saved \in {wanted, [wanted EXCEPT !.due = Unarmed]}

Agreement ==
  /\ ~At("idle") /\ ~crossed => ~callback.held /\ DraftDone /\ (agreed => OriginalBack)
  /\ At("idle") /\ agreed => Settled

PreferenceInv == PreferenceTypes /\ ArmedAhead /\ Agreement

-------------------------------------------------------------------------------

\* Clearing the due time leaves the rest of the preferences.
LEMMA Times == ASSUME NEW c \in Choices PROVE c.due \in Due /\ [c EXCEPT !.due = Unarmed] \in Choices
                                                /\ [c EXCEPT !.due = Unarmed].onBoot = c.onBoot
                                                /\ [c EXCEPT !.due = Unarmed].due = Unarmed
  BY DEF Choices, Due

\* Clearing it twice is clearing it once.
LEMMA Twice == ASSUME NEW c \in Choices
               PROVE  [[c EXCEPT !.due = Unarmed] EXCEPT !.due = Unarmed] = [c EXCEPT !.due = Unarmed]
  BY DEF Choices

\* The invariant holds at the start.
LEMMA PreferenceInitInv == PreferenceInit => PreferenceInv
  <1> SUFFICES ASSUME PreferenceInit PROVE PreferenceInv
    OBVIOUS
  <1>1. saved \in Choices /\ NoCall.read \in Choices /\ NoCall.due = Unarmed /\ NoCall.held = FALSE
    BY DEF PreferenceInit, NoCall
  <1>2. PreferenceTypes
    <2>1. saved.due \in Due /\ clock \in Clock /\ Unarmed \in Due
      <3>1. saved.due \in Due /\ Unarmed \in Due
        BY <1>1, Times DEF Due
      <3>2. clock = 0 /\ 0 \in Clock
        BY PreferenceAssumption DEF PreferenceInit, Clock
      <3> QED
        BY <3>1, <3>2
    <2>2. /\ task.at = "idle" /\ task.draft = saved /\ task.original = saved /\ task.to = place /\ task.from = place
          /\ task = [at |-> "idle", draft |-> saved, to |-> place, original |-> saved, from |-> place]
      BY DEF PreferenceInit
    <2>3. callback.read \in Choices /\ callback.due = Unarmed
      BY <1>1 DEF PreferenceInit
    <2>4. armed = saved.due /\ done = {}
      BY DEF PreferenceInit
    <2> QED
      BY <1>1, <2>1, <2>2, <2>3, <2>4 DEF PreferenceTypes, Steps
  <1>3. ArmedAhead
    BY <1>1 DEF PreferenceInit, ArmedAhead, NeverTwice, At
  <1>4. Agreement
    BY <1>1 DEF PreferenceInit, Agreement, At, Settled
  <1> QED
    BY <1>2, <1>3, <1>4 DEF PreferenceInv

\* TrySave goes from one step to the next.
LEMMA Proceeds ==
  ASSUME PreferenceTypes, NEW step \in Steps, Proceed(step)
  PROVE  /\ task'.at = step /\ task'.draft = task.draft /\ task'.to = task.to
         /\ task'.original = task.original /\ task'.from = task.from
         /\ task' = [at |-> task'.at, draft |-> task'.draft, to |-> task'.to, original |-> task'.original, from |-> task'.from]
  BY DEF PreferenceTypes, Proceed

\* Every step keeps the invariant.
LEMMA PreferenceStep == PreferenceInv /\ [PreferenceNext]_preferenceVars => PreferenceInv'
  <1> SUFFICES ASSUME PreferenceInv, [PreferenceNext]_preferenceVars PROVE PreferenceInv'
    OBVIOUS
  <1> USE DEF PreferenceInv, At, Kept
  <1>1. ASSUME NEW draft \in Choices, NEW to \in Places, BeginSaving(draft, to) PROVE PreferenceInv'
    <2>1. PreferenceTypes'
      BY <1>1 DEF BeginSaving, PreferenceTypes, Steps
    <2>2. ArmedAhead'
      BY <1>1 DEF BeginSaving, ArmedAhead, NeverTwice
    <2>3. Agreement'
      BY <1>1 DEF BeginSaving, Agreement, DraftDone, OriginalBack
    <2> QED
      BY <2>1, <2>2, <2>3
  <1>2. CASE SavesDraft
    BY <1>2, Proceeds DEF SavesDraft, PreferenceTypes, ArmedAhead, NeverTwice, Agreement, DraftDone, OriginalBack, Steps
  <1>3. CASE MovesData
    BY <1>3, Proceeds DEF MovesData, PreferenceTypes, ArmedAhead, NeverTwice, Agreement, DraftDone, OriginalBack, Steps
  <1>4. CASE SetsStartup
    BY <1>4, Proceeds DEF SetsStartup, PreferenceTypes, ArmedAhead, NeverTwice, Agreement, DraftDone, OriginalBack, Steps
  <1>5. CASE SchedulesDraft
    <2>1. task'.at \in {"moveBack", "arm"} /\ Proceed(task'.at)
      BY <1>5, Proceeds DEF SchedulesDraft, Steps
    <2> QED
      BY <1>5, <2>1, Proceeds DEF SchedulesDraft, PreferenceTypes, ArmedAhead, NeverTwice, Agreement, DraftDone, OriginalBack, Steps
  <1>14. CASE ArmsDraft
    <2>1. task'.at = "idle" /\ task'.draft = task.draft /\ task'.to = task.to /\ task'.original = task.original /\ task'.from = task.from
      BY <1>14, Proceeds DEF ArmsDraft, Steps
    <2>2. PreferenceTypes'
      BY <1>14, Proceeds, Times DEF ArmsDraft, PreferenceTypes, Steps
    <2>3. ArmedAhead'
      <3>1. task.draft.due \in Due
        BY Times DEF PreferenceTypes
      <3>2. ASSUME ~late' PROVE ~late /\ (armed' # Unarmed => armed' \notin done)
        <4>1. ~late /\ ~Passed(task.draft.due)
          BY <1>14, <3>2, Zenon DEF ArmsDraft
        <4>2. armed' = task.draft.due
          BY <1>14 DEF ArmsDraft
        <4> QED
          BY <3>1, <4>1, <4>2, PreferenceAssumption DEF PreferenceTypes, ArmedAhead, Passed, Due, Clock
      <3>3. UNCHANGED <<clock, callback, done, again>> /\ ~callback.held
        BY <1>14 DEF ArmsDraft
      <3>4. ~late' => NeverTwice'
        BY <2>1, <3>2, <3>3 DEF ArmedAhead, NeverTwice
      <3> QED
        BY <2>1, <3>3, <3>4 DEF ArmedAhead
    <2>4. agreed' => ~crossed
      BY <1>14, Zenon DEF ArmsDraft
    <2>5. agreed' => DraftDone /\ task.at = "arm"
      BY <1>14, <2>4 DEF ArmsDraft, Agreement
    <2>6. Agreement'
      BY <1>14, <2>1, <2>5 DEF ArmsDraft, Agreement, DraftDone, Settled
    <2> QED
      BY <2>2, <2>3, <2>6
  <1>6. CASE MovesBack
    BY <1>6, Proceeds DEF MovesBack, PreferenceTypes, ArmedAhead, NeverTwice, Agreement, DraftDone, OriginalBack, Steps
  <1>7. CASE RestoresFile
    BY <1>7, Proceeds DEF RestoresFile, GivesUp, PreferenceTypes, ArmedAhead, NeverTwice, Agreement, DraftDone, OriginalBack, Steps
  <1>8. CASE RestoresStartup
    BY <1>8, Proceeds DEF RestoresStartup, GivesUp, PreferenceTypes, ArmedAhead, NeverTwice, Agreement, DraftDone, OriginalBack, Steps
  <1>9. CASE RestoresSchedule
    <2>1. /\ task'.at \in {"idle", "rearm"} /\ task'.draft = task.draft /\ task'.to = task.to
          /\ task'.original = task.original /\ task'.from = task.from /\ ~callback.held /\ armed' = Unarmed
          /\ UNCHANGED <<clock, callback, done, again, late, crossed, place, registered>>
      BY <1>9, Proceeds DEF RestoresSchedule, Steps
    <2>2. saved.due \in Due /\ saved' \in Choices /\ armed' \in Due
      BY <1>9, Times DEF RestoresSchedule, PreferenceTypes, Due
    <2>3. PreferenceTypes'
      BY <1>9, <2>1, <2>2, Proceeds DEF RestoresSchedule, PreferenceTypes, Steps
    <2>4. task'.at = "rearm" => saved' = saved /\ ~Passed(saved.due) /\ UNCHANGED <<result, agreed>>
      BY <1>9, Proceeds DEF RestoresSchedule, Steps
    <2>5. task'.at = "rearm" => saved'.due \notin done
      BY <2>2, <2>4, PreferenceAssumption DEF PreferenceTypes, ArmedAhead, Passed, Due, Clock
    <2>6. ArmedAhead'
      <3>1. ~late => NeverTwice'
        BY <2>1, <2>5 DEF ArmedAhead, NeverTwice
      <3> QED
        BY <2>1, <3>1 DEF ArmedAhead
    <2>7. task'.at = "idle" /\ agreed' =>
            agreed /\ ~crossed /\ result' = "failed" /\ saved' = [saved EXCEPT !.due = Unarmed]
      BY <1>9, <2>1, Proceeds, Zenon DEF RestoresSchedule, Steps
    <2>8. agreed /\ ~crossed => OriginalBack /\ task.at = "restoreSchedule"
      BY <1>9 DEF RestoresSchedule, Agreement
    <2>9. Agreement'
      <3>1. CASE task'.at = "rearm"
        BY <2>1, <2>4, <2>8, <3>1 DEF Agreement, OriginalBack, DraftDone
      <3>2. CASE task'.at = "idle"
        BY <2>1, <2>2, <2>7, <2>8, <3>2, Times DEF Agreement, OriginalBack, Settled, PreferenceTypes
      <3> QED
        BY <2>1, <3>1, <3>2
    <2> QED
      BY <2>3, <2>6, <2>9
  <1>15. CASE Rearms
    <2>1. task'.at = "idle" /\ task'.draft = task.draft /\ task'.to = task.to /\ task'.original = task.original
          /\ task'.from = task.from /\ result' = "failed" /\ ~callback.held /\ armed' = saved.due
          /\ UNCHANGED <<clock, callback, done, again, late, crossed, place, registered, saved>>
      BY <1>15, Proceeds DEF Rearms, Steps
    <2>2. PreferenceTypes'
      BY <1>15, <2>1, Proceeds, Times DEF Rearms, PreferenceTypes, Steps
    <2>3. ArmedAhead'
      BY <1>15, <2>1 DEF Rearms, ArmedAhead, NeverTwice
    <2>4. agreed' => agreed /\ ~crossed
      BY <1>15, Zenon DEF Rearms
    <2>5. agreed' => OriginalBack /\ task.at = "rearm"
      BY <1>15, <2>4 DEF Rearms, Agreement
    <2>6. Agreement'
      BY <2>1, <2>4, <2>5 DEF Agreement, OriginalBack, Settled
    <2> QED
      BY <2>2, <2>3, <2>6
  <1>10. CASE Fires
    <2>1. /\ callback' = [held |-> TRUE, read |-> saved, due |-> armed] /\ armed' = Unarmed /\ ~callback.held
          /\ armed # Unarmed /\ armed \in Clock /\ armed <= clock
          /\ UNCHANGED <<clock, saved, place, registered, task, calls, result, done, again, agreed>>
      BY <1>10 DEF Fires, PreferenceTypes, Due, Clock
    <2>2. callback'.held = TRUE /\ callback'.read = saved /\ callback'.due = armed
      BY <2>1
    <2>3. At("idle") \/ crossed'
      BY <1>10, Zenon DEF Fires
    <2>4. Agreement'
      BY <2>1, <2>2, <2>3 DEF Agreement, Settled
    <2>5. PreferenceTypes'
      BY <2>1, <2>2 DEF PreferenceTypes, Due
    <2>6. task.at # "rearm" /\ late' = late
      BY <1>10, <2>1 DEF Fires, ArmedAhead
    <2>7. ~late' => NeverTwice'
      BY <2>1, <2>2, <2>6 DEF ArmedAhead, NeverTwice
    <2>8. ArmedAhead'
      BY <2>1, <2>2, <2>6, <2>7 DEF ArmedAhead
    <2> QED
      BY <2>4, <2>5, <2>8
  <1>11. CASE Disarms
    <2>1. callback' = NoCall /\ NoCall.read \in Choices /\ NoCall.due = Unarmed /\ NoCall.held = FALSE
      BY <1>11 DEF Disarms, NoCall, Choices, PreferenceTypes
    <2>2. UNCHANGED <<clock, place, registered, armed, task, calls, result>> /\ callback.held
      BY <1>11 DEF Disarms
    <2>3. saved' \in {saved, [callback.read EXCEPT !.due = Unarmed]} /\ done' \in {done, done \cup {callback.due}}
          /\ saved' \in Choices
      BY <1>11, Times DEF Disarms, PreferenceTypes
    <2>4. late' = late /\ task.at # "rearm"
      BY <1>11, <2>2 DEF Disarms, ArmedAhead
    <2>10. ~late => ~again'
      BY <1>11, Zenon DEF Disarms, ArmedAhead, NeverTwice
    <2>11. ~late => NeverTwice'
      BY <2>1, <2>2, <2>3, <2>4, <2>10 DEF ArmedAhead, NeverTwice
    <2>5. PreferenceTypes' /\ ArmedAhead'
      BY <2>1, <2>2, <2>3, <2>4, <2>11 DEF PreferenceTypes, ArmedAhead, Due
    <2>6. At("idle") \/ crossed'
      BY <1>11, Zenon DEF Disarms
    <2>7. agreed' => agreed /\ saved' = [callback.read EXCEPT !.due = Unarmed]
      BY <1>11, Zenon DEF Disarms
    <2>8. ASSUME At("idle"), agreed' PROVE Settled'
      <3>1. Settled /\ callback.read = saved /\ armed = Unarmed
        BY <2>2, <2>7, <2>8 DEF Agreement, Settled
      <3>2. saved' = [saved EXCEPT !.due = Unarmed]
        BY <2>7, <2>8, <3>1
      <3>3. saved'.due = Unarmed /\ saved'.onBoot = saved.onBoot
        BY <3>2, Times DEF PreferenceTypes
      <3>4. ASSUME NEW wanted \in Choices, saved \in {wanted, [wanted EXCEPT !.due = Unarmed]}
            PROVE  saved' \in {wanted, [wanted EXCEPT !.due = Unarmed]}
        BY <3>2, <3>4, Twice
      <3>5. task.draft \in Choices /\ task.original \in Choices
        BY DEF PreferenceTypes
      <3> QED
        BY <2>1, <2>2, <3>1, <3>3, <3>4, <3>5 DEF Settled
    <2>9. Agreement'
      BY <2>2, <2>6, <2>8 DEF Agreement
    <2> QED
      BY <2>5, <2>9
  <1>12. CASE Passes
    BY <1>12, PreferenceAssumption DEF Passes, PreferenceTypes, ArmedAhead, NeverTwice, Agreement, DraftDone, OriginalBack, Settled, Clock
  <1>13. CASE UNCHANGED preferenceVars
    BY <1>13 DEF preferenceVars, PreferenceTypes, ArmedAhead, NeverTwice, Agreement, DraftDone, OriginalBack, Settled
  <1> QED
    BY <1>1, <1>2, <1>3, <1>4, <1>5, <1>6, <1>7, <1>8, <1>9, <1>10, <1>11, <1>12, <1>13, <1>14, <1>15 DEF PreferenceNext

\* Whatever step of TrySave or of its rollback fails and whenever the scheduler's callback comes,
\* TrySave applies all of the draft or nothing of it, unless it says otherwise or was crossed, and
\* nothing is carried out twice unless Schedule armed a time that had come since it looked.
THEOREM AllSavedOrUndone == PreferenceSpec => []SavedOrUndone
  <1>1. PreferenceInv => SavedOrUndone
    BY DEF PreferenceInv, ArmedAhead, NeverTwice, Agreement, Settled, SavedOrUndone, SystemAgrees, CarriedOutOnce
  <1> QED
    BY PreferenceInitInv, PreferenceStep, <1>1, PTL DEF PreferenceSpec

-------------------------------------------------------------------------------

\* Whoever created the mutex holds it until it is gone, and only that process composes
\* services.
MutexHeld ==
  /\ \A p \in Processes : stage[p] \notin {"off", "asking"} => mutex = p
  /\ \A p \in alive : mutex = p
  /\ mutex # Nobody => stage[mutex] \notin {"off", "asking"}

\* The pipe of a process is served from the mutex on, and ends for the cancelled lifetime only.
PipeServed ==
  /\ \A p \in Processes : stage[p] \in {"off", "asking"} <=> pipe[p] = "none"
  /\ \A p \in Processes : pipe[p] = "ended" => p \in cancelled
  /\ \A p \in cancelled : stage[p] \in {"waiting", "disposing"}

HostInv == HostTypeOK /\ MutexHeld /\ PipeServed

-------------------------------------------------------------------------------

\* The invariant holds at the start.
LEMMA HostInitInv == HostInit => HostInv
  BY HostAssumption DEF HostInit, HostInv, HostTypeOK, MutexHeld, PipeServed, HostStages, PipeStages

\* The end of a process, whether it disposed its services or was killed.
LEMMA GoneInv ==
  ASSUME HostInv, NEW p \in Processes, Gone(p), alive' = alive \ {p}, UNCHANGED launches
  PROVE  HostInv'
  BY HostAssumption DEF HostInv, HostTypeOK, MutexHeld, PipeServed, HostStages, PipeStages, Gone

\* Every step keeps the invariant.
LEMMA HostStep == HostInv /\ [HostNext]_hostVars => HostInv'
  <1> SUFFICES ASSUME HostInv, [HostNext]_hostVars PROVE HostInv'
    OBVIOUS
  <1> USE HostAssumption DEF HostInv, HostTypeOK, MutexHeld, PipeServed, HostStages, PipeStages
  <1>1. ASSUME NEW p \in Processes, Launched(p) PROVE HostInv'
    BY <1>1 DEF Launched
  <1>2. ASSUME NEW p \in Processes, Asked(p) PROVE HostInv'
    BY <1>2 DEF Asked
  <1>3. ASSUME NEW p \in Processes, NEW minimized \in BOOLEAN, Composes(p, minimized) PROVE HostInv'
    BY <1>3 DEF Composes
  <1>4. ASSUME NEW p \in Processes, NEW host \in Processes, Connects(p, host) PROVE HostInv'
    BY <1>4 DEF Connects
  <1>5. ASSUME NEW p \in Processes, Reads(p) PROVE HostInv'
    BY <1>5 DEF Reads
  <1>6. ASSUME NEW p \in Processes, Shows(p) PROVE HostInv'
    BY <1>6 DEF Shows
  <1>7. ASSUME NEW p \in Processes, Aborts(p) PROVE HostInv'
    BY <1>7 DEF Aborts
  <1>8. ASSUME NEW p \in Processes, Resumes(p) PROVE HostInv'
    BY <1>8 DEF Resumes
  <1>9. ASSUME NEW p \in Processes, PipeEnds(p) PROVE HostInv'
    BY <1>9 DEF PipeEnds
  <1>10. ASSUME NEW p \in Processes, Hides(p) PROVE HostInv'
    BY <1>10 DEF Hides
  <1>11. ASSUME NEW p \in Processes, ShutsDown(p) PROVE HostInv'
    BY <1>11 DEF ShutsDown
  <1>12. ASSUME NEW p \in Processes, Cancels(p) PROVE HostInv'
    BY <1>12 DEF Cancels
  <1>13. ASSUME NEW p \in Processes, TasksEnd(p) PROVE HostInv'
    BY <1>13 DEF TasksEnd
  <1>14. ASSUME NEW p \in Processes, Disposes(p) PROVE HostInv'
    BY <1>14, GoneInv DEF Disposes
  <1>15. ASSUME NEW p \in Processes, Killed(p) PROVE HostInv'
    BY <1>15, GoneInv DEF Killed
  <1>16. CASE UNCHANGED hostVars
    BY <1>16 DEF hostVars
  <1> QED
    BY <1>1, <1>2, <1>3, <1>4, <1>5, <1>6, <1>7, <1>8, <1>9, <1>10, <1>11, <1>12, <1>13, <1>14,
       <1>15, <1>16 DEF HostNext

\* A process whose services are alive holds the mutex, so there is one at most.
LEMMA HostInvKept == HostInv => HostKept
  <1> SUFFICES ASSUME HostInv PROVE HostKept
    OBVIOUS
  <1>1. alive = {} \/ alive = {mutex}
    BY DEF HostInv, MutexHeld
  <1>2. Cardinality(alive) <= 1
    <2>1. CASE alive = {}
      <3>1. Cardinality(alive) = 0
        BY <2>1, FS_EmptySet, Zenon
      <3> QED
        BY <3>1
    <2>2. CASE alive = {mutex}
      <3>1. Cardinality(alive) = 1
        BY <2>2, FS_Singleton, Zenon
      <3> QED
        BY <3>1
    <2> QED
      BY <1>1, <2>1, <2>2
  <1>3. mutex = Nobody => alive = {}
    BY HostAssumption DEF HostInv, HostTypeOK, MutexHeld
  <1>4. HostAnswers
    BY DEF HostAnswers, HostInv, HostTypeOK, PipeServed
  <1> QED
    BY <1>2, <1>3, <1>4 DEF HostKept, OneHost

\* The state of the processes, the mutex and the pipes keeps its types, and the one instance of
\* a pipe is connected exactly while ListenAsync reads it, for any number of processes.
THEOREM HostTypeCorrect == HostSpec => []HostTypeOK
  <1>1. HostInv => HostTypeOK
    BY DEF HostInv
  <1> QED
    BY HostInitInv, HostStep, <1>1, PTL DEF HostSpec

\* However many processes are started, asked, ended and killed across each other, one at most is
\* the application and it answers the others (the mutex and the pipe task of ApplicationHost).
THEOREM HostIsKept == HostSpec => []HostKept
  BY HostInitInv, HostStep, HostInvKept, PTL DEF HostSpec

-------------------------------------------------------------------------------

\* TrySave goes on to a step, and the rest of its task stays.
LEMMA TaskTypes ==
  ASSUME PreferenceTypeOK, NEW step \in Steps, Proceed(step)
  PROVE  task' \in [at : Steps, draft : Choices, to : Places, original : Choices, from : Places]
  BY DEF PreferenceTypeOK, Proceed

\* The invariant holds at the start.
LEMMA PreferenceTypeInit == PreferenceInit => PreferenceTypeOK
  <1> SUFFICES ASSUME PreferenceInit PROVE PreferenceTypeOK
    OBVIOUS
  <1>1. saved \in Choices /\ NoCall.read \in Choices
    BY DEF PreferenceInit, NoCall
  <1>2. callback \in [held : BOOLEAN, read : Choices, due : Due]
    BY <1>1 DEF PreferenceInit, NoCall, Due
  <1>3. armed \in Due /\ clock \in Clock /\ registered \in BOOLEAN
    BY <1>1, PreferenceAssumption DEF PreferenceInit, Choices, Clock
  <1>4. task \in [at : Steps, draft : Choices, to : Places, original : Choices, from : Places]
    BY <1>1 DEF PreferenceInit, Steps
  <1>5. calls \in 0 .. Saves /\ result = "none" /\ done \subseteq Clock /\ again = FALSE /\ late = FALSE /\ crossed = FALSE /\ agreed = TRUE
    BY PreferenceAssumption DEF PreferenceInit
  <1>6. place \in Places
    BY DEF PreferenceInit
  <1> QED
    BY <1>1, <1>2, <1>3, <1>4, <1>5, <1>6 DEF PreferenceTypeOK

\* Every step keeps the types.
LEMMA PreferenceTypeStep == PreferenceTypeOK /\ PreferenceInv /\ [PreferenceNext]_preferenceVars => PreferenceTypeOK'
  <1> SUFFICES ASSUME PreferenceTypeOK, ArmedAhead, [PreferenceNext]_preferenceVars PROVE PreferenceTypeOK'
    BY DEF PreferenceInv
  <1> USE PreferenceAssumption, TaskTypes DEF PreferenceTypeOK, At, Kept, Steps, GivesUp
  <1>1. ASSUME NEW draft \in Choices, NEW to \in Places, BeginSaving(draft, to) PROVE PreferenceTypeOK'
    BY <1>1 DEF BeginSaving
  <1>2. CASE SavesDraft
    BY <1>2 DEF SavesDraft
  <1>3. CASE MovesData
    BY <1>3 DEF MovesData
  <1>4. CASE SetsStartup
    BY <1>4 DEF SetsStartup, Choices
  <1>5. CASE SchedulesDraft
    <2>1. Proceed("moveBack") \/ Proceed("arm")
      BY <1>5 DEF SchedulesDraft
    <2> QED
      BY <1>5, <2>1 DEF SchedulesDraft
  <1>14. CASE ArmsDraft
    BY <1>14, Times DEF ArmsDraft
  <1>6. CASE MovesBack
    BY <1>6 DEF MovesBack
  <1>7. CASE RestoresFile
    BY <1>7 DEF RestoresFile
  <1>8. CASE RestoresStartup
    <2>1. registered' \in BOOLEAN
      BY <1>8 DEF RestoresStartup, Choices
    <2> QED
      BY <1>8, <2>1 DEF RestoresStartup
  <1>9. CASE RestoresSchedule
    BY <1>9, Times DEF RestoresSchedule, Due
  <1>15. CASE Rearms
    BY <1>15, Times DEF Rearms
  <1>10. CASE Fires
    BY <1>10 DEF Fires, Due
  <1>11. CASE Disarms
    <2>1. NoCall \in [held : BOOLEAN, read : Choices, due : Due]
      BY DEF NoCall, Due
    <2>2. callback' \in [held : BOOLEAN, read : Choices, due : Due] /\ crossed' \in BOOLEAN
      BY <1>11, <2>1 DEF Disarms
    <2>3. saved' \in Choices
      BY <1>11, Times DEF Disarms
    <2>4. done' \subseteq Clock /\ again' \in BOOLEAN /\ agreed' \in BOOLEAN
      BY <1>11 DEF Disarms, Due, ArmedAhead
    <2> QED
      BY <1>11, <2>2, <2>3, <2>4 DEF Disarms
  <1>12. CASE Passes
    BY <1>12 DEF Passes, Clock
  <1>13. CASE UNCHANGED preferenceVars
    BY <1>13 DEF preferenceVars
  <1> QED
    BY <1>1, <1>2, <1>3, <1>4, <1>5, <1>6, <1>7, <1>8, <1>9, <1>10, <1>11, <1>12, <1>13, <1>14, <1>15 DEF PreferenceNext

\* The empty backlog holds no visitor.
LEMMA NobodyWaits == <<>> \in Seq(Visitors) /\ Len(<<>>) = 0
  OBVIOUS

\* The types of the port and the place of the wait, of its backlog and of the counts.
ListenerPlaces ==
  /\ occupied \subseteq PortSet /\ port \in PortSet \cup {NoPort}
  /\ wait \in {"idle", "launch", "accept", "read", "answer", "refuse"}
  /\ serving \in Visitors \cup {"none"} /\ outcome \in {"none", "busy", "callback", "failed", "cancelled"}
ListenerQueue == backlog \in Seq(Visitors) /\ Len(backlog) <= Backlog
ListenerCounts == visits \in 0 .. Visits /\ waits \in 0 .. Waits
ListenerTypes == ListenerPlaces /\ ListenerQueue /\ ListenerCounts

\* The type invariant in parts.
LEMMA ListenerTypesOK == ListenerTypeOK <=> ListenerTypes
  BY Zenon DEF ListenerTypeOK, ListenerTypes, ListenerPlaces, ListenerQueue, ListenerCounts

\* A step that takes no connection and accepts none leaves the backlog or clears it.
LEMMA QueueCleared == ASSUME ListenerQueue, backlog' = <<>> \/ UNCHANGED backlog PROVE ListenerQueue'
  <1>1. CASE backlog' = <<>>
    BY <1>1, NobodyWaits, ListenerAssumption DEF ListenerQueue
  <1>2. CASE UNCHANGED backlog
    BY <1>2 DEF ListenerQueue
  <1> QED
    BY <1>1, <1>2

\* The invariant holds at the start.
LEMMA ListenerTypeInit == ListenerInit => ListenerTypes
  <1> SUFFICES ASSUME ListenerInit PROVE ListenerTypes
    OBVIOUS
  <1>1. ListenerPlaces
    BY DEF ListenerInit, ListenerPlaces
  <1>2. ListenerQueue
    BY ListenerAssumption, NobodyWaits DEF ListenerInit, ListenerQueue
  <1>3. ListenerCounts
    BY ListenerAssumption DEF ListenerInit, ListenerCounts
  <1> QED
    BY <1>1, <1>2, <1>3 DEF ListenerTypes

\* Every step keeps the types.
LEMMA ListenerTypeStep == ListenerTypes /\ [ListenerNext]_listenerVars => ListenerTypes'
  <1> SUFFICES ASSUME ListenerTypes, [ListenerNext]_listenerVars PROVE ListenerTypes'
    OBVIOUS
  <1> USE DEF ListenerTypes, Ends
  <1>1. CASE Listen
    <2>1. ListenerPlaces'
      <3>1. \A i \in DOMAIN Ports : Ports[i] \in PortSet
        BY DEF PortSet
      <3> QED
        BY <1>1, <3>1 DEF Listen, ListenerPlaces
    <2>2. ListenerQueue'
      BY <1>1, QueueCleared DEF Listen
    <2>3. ListenerCounts'
      BY <1>1, ListenerAssumption DEF Listen, ListenerCounts
    <2> QED
      BY <2>1, <2>2, <2>3
  <1>2. CASE Launch
    <2>1. ListenerPlaces'
      BY <1>2 DEF Launch, ListenerPlaces
    <2>2. ListenerQueue'
      BY <1>2, QueueCleared DEF Launch
    <2>3. ListenerCounts'
      BY <1>2, ListenerAssumption DEF Launch, ListenerCounts
    <2> QED
      BY <2>1, <2>2, <2>3
  <1>3. ASSUME NEW visitor \in Visitors, Visit(visitor) PROVE ListenerTypes'
    <2>1. ListenerPlaces'
      BY <1>3 DEF Visit, ListenerPlaces
    <2>2. ListenerQueue'
      BY <1>3, ListenerAssumption DEF Visit, ListenerQueue
    <2>3. ListenerCounts'
      BY <1>3, ListenerAssumption DEF Visit, ListenerCounts
    <2> QED
      BY <2>1, <2>2, <2>3
  <1>4. CASE Accept
    <2>1. ListenerPlaces'
      BY <1>4 DEF Accept, ListenerPlaces, ListenerQueue
    <2>2. ListenerQueue'
      BY <1>4, ListenerAssumption DEF Accept, ListenerQueue
    <2>3. ListenerCounts'
      BY <1>4, ListenerAssumption DEF Accept, ListenerCounts
    <2> QED
      BY <2>1, <2>2, <2>3
  <1>5. CASE Read
    <2>1. ListenerPlaces'
      BY <1>5 DEF Read, ListenerPlaces
    <2>2. ListenerQueue'
      BY <1>5, QueueCleared DEF Read
    <2>3. ListenerCounts'
      BY <1>5, ListenerAssumption DEF Read, ListenerCounts
    <2> QED
      BY <2>1, <2>2, <2>3
  <1>6. CASE Refuse
    <2>1. ListenerPlaces'
      BY <1>6 DEF Refuse, ListenerPlaces
    <2>2. ListenerQueue'
      BY <1>6, QueueCleared DEF Refuse
    <2>3. ListenerCounts'
      BY <1>6, ListenerAssumption DEF Refuse, ListenerCounts
    <2> QED
      BY <2>1, <2>2, <2>3
  <1>7. CASE AnswerCallback
    <2>1. ListenerPlaces'
      BY <1>7 DEF AnswerCallback, ListenerPlaces
    <2>2. ListenerQueue'
      BY <1>7, QueueCleared DEF AnswerCallback
    <2>3. ListenerCounts'
      BY <1>7, ListenerAssumption DEF AnswerCallback, ListenerCounts
    <2> QED
      BY <2>1, <2>2, <2>3
  <1>8. CASE Expire
    <2>1. ListenerPlaces'
      BY <1>8 DEF Expire, ListenerPlaces
    <2>2. ListenerQueue'
      BY <1>8, QueueCleared DEF Expire
    <2>3. ListenerCounts'
      BY <1>8, ListenerAssumption DEF Expire, ListenerCounts
    <2> QED
      BY <2>1, <2>2, <2>3
  <1>9. CASE UNCHANGED listenerVars
    <2>1. ListenerPlaces'
      BY <1>9 DEF listenerVars, ListenerPlaces
    <2>2. ListenerQueue'
      BY <1>9, QueueCleared DEF listenerVars
    <2>3. ListenerCounts'
      BY <1>9, ListenerAssumption DEF listenerVars, ListenerCounts
    <2> QED
      BY <2>1, <2>2, <2>3
  <1> QED
    BY <1>1, <1>2, <1>3, <1>4, <1>5, <1>6, <1>7, <1>8, <1>9 DEF ListenerNext

\* The part that runs is one part, and each keeps what it knows.
DesktopInv ==
  /\ part \in Parts
  /\ Migrates             => MigrationTypeOK /\ RenewalPossible
  /\ part = "preferences" => PreferenceTypeOK /\ PreferenceInv
  /\ part = "listener"    => ListenerTypes
  /\ part = "host"        => HostInv

\* Whichever of the desktop programs runs, its state keeps its types: the files of a storage
\* migration, the draft of TrySave, the backlog of the listener, the pipes of the processes.
THEOREM DesktopTypeCorrect == DesktopSpec => []DesktopTypeOK
  <1>1. DesktopInit => DesktopInv
    BY MigrationInitInv, PreferenceTypeInit, PreferenceInitInv, ListenerTypeInit, HostInitInv
       DEF DesktopInit, DesktopInv, MigrationStart, PreferenceStart, ListenerStart, MigrationInv
  <1>2. DesktopInv /\ [DesktopNext]_<<part, vars, migrationVars, preferenceVars, listenerVars, hostVars>> => DesktopInv'
    <2> SUFFICES ASSUME DesktopInv,
                        [DesktopNext]_<<part, vars, migrationVars, preferenceVars, listenerVars, hostVars>>
                 PROVE  DesktopInv'
      OBVIOUS
    <2>1. /\ part' = part
          /\ Migrates             => [MigrationNext]_migrationVars
          /\ part = "preferences" => [PreferenceNext]_preferenceVars
          /\ part = "listener"    => [ListenerNext]_listenerVars
          /\ part = "host"        => [HostNext]_hostVars
      BY DEF DesktopNext, Migrates, MigrationStep
    <2>2. Migrates => MigrationTypeOK' /\ RenewalPossible'
      BY <2>1, MigrationTypeStep DEF DesktopInv
    <2>3. part = "preferences" => PreferenceTypeOK' /\ PreferenceInv'
      BY <2>1, PreferenceTypeStep, PreferenceStep DEF DesktopInv
    <2>4. part = "listener" => ListenerTypes'
      BY <2>1, ListenerTypeStep DEF DesktopInv
    <2>5. part = "host" => HostInv'
      BY <2>1, HostStep DEF DesktopInv
    <2> QED
      BY <2>1, <2>2, <2>3, <2>4, <2>5 DEF DesktopInv, Migrates
  <1>3. DesktopInv => DesktopTypeOK
    BY ListenerTypesOK DEF DesktopInv, DesktopTypeOK, HostInv
  <1> QED
    BY <1>1, <1>2, <1>3, PTL DEF DesktopSpec
=================================================================================
