------------------------ MODULE ScheduledActionService ------------------------
(***************************************************************************)
(* KeepMeAlive/Services/ScheduledActionService.cs: one future shutdown,    *)
(* restart or sleep, kept in memory by a re-armed one-minute timer and on  *)
(* disk by the settings file.  Three actors run concurrently: the UI       *)
(* thread (Schedule, Cancel, Restore, Dispose and the preference saves of  *)
(* the view models), the timer callbacks on pool threads (OnTimer), and    *)
(* the machine, which lets time pass, suspends, and kills the process.     *)
(*                                                                         *)
(* The lock _gate is the condition callback = "idle": a callback holds it  *)
(* from its claim to its last assignment, so every other locked section is *)
(* one step that needs it free.  The wall clock (now) and the timers are   *)
(* separate: a timer counts running time only, so a suspended machine      *)
(* moves now and not the timers.                                           *)
(***************************************************************************)
EXTENDS Naturals, FiniteSets, Sequences

CONSTANTS Actions,         \* ScheduledAction
          Unreadable,      \* a saved time that does not parse, or falls in a DST transition
          Grace,           \* the 30 seconds of OnTimer
          MaxDelay,        \* the minute that GetNextDelay never exceeds
          ClockMayGoBack,  \* whether the wall clock may be set back
          MaxTime,         \* bound: the last instant of the wall clock
          MaxGeneration,   \* bound: user requests stop at this generation
          MaxPerformed     \* bound: user requests stop after this many actions

ASSUME TimeAssumption == /\ Grace \in Nat
                         /\ MaxDelay \in Nat \ {0}
                         /\ MaxTime \in Nat
                         /\ Unreadable \notin Nat
ASSUME BoundAssumption == /\ ClockMayGoBack \in BOOLEAN
                          /\ MaxGeneration \in Nat
                          /\ MaxPerformed \in Nat
                          /\ Actions # {}

Times == 0 .. MaxTime
Schedules == [action : Actions, due : Times]

\* The three persisted fields of AppSettings that the service reads.
Settings == [enabled : BOOLEAN, action : Actions, at : Times \cup {Unreadable}]
Timers == [generation : Nat, wait : Nat]
Claims == [action : Actions, due : Times, missed : BOOLEAN, read : Settings]
Errors == {"none", "unsaved", "missed", "failed", "discarded"}

VARIABLES
  now,          \* the wall clock, _clock.GetUtcNow()
  generation,   \* _generation
  isScheduled,  \* IsScheduled
  action,       \* _action
  dueAt,        \* _dueAt
  timer,        \* _timer: the countdown in progress, a set of at most one
  queue,        \* generations of the callbacks waiting for a pool thread or the lock
  callback,     \* the callback that holds _gate: "idle", "persist" or "execute"
  claim,        \* what that callback took: its locals
  arming,       \* Schedule past its check and before the lock, a set of at most one
  lastError,    \* LastError
  life,         \* "down", "running" or "disposed" (_disposed)
  saved,        \* the settings on disk
  performed,    \* ghost: the system actions that took effect, in order
  spent         \* ghost: an execution began and the user has saved nothing since

scheduleVars == <<generation, isScheduled, action, dueAt, timer>>
callbackVars == <<callback, claim>>
ghostVars == <<performed, spent>>
vars == <<now, scheduleVars, queue, callbackVars, arming, lastError, life, saved, ghostVars>>

SomeAction == CHOOSE a \in Actions : TRUE
NoSettings == [enabled |-> FALSE, action |-> SomeAction, at |-> Unreadable]
NoClaim == [action |-> SomeAction, due |-> 0, missed |-> FALSE, read |-> NoSettings]

\* The type of every field of the service, of the queued callbacks and of the ghosts.
TypeOK ==
  /\ now \in Times
  /\ generation \in Nat
  /\ isScheduled \in BOOLEAN
  /\ action \in Actions
  /\ dueAt \in Times
  /\ timer \subseteq Timers
  /\ queue \subseteq Nat
  /\ callback \in {"idle", "persist", "execute"}
  /\ claim \in Claims
  /\ arming \subseteq Schedules
  /\ lastError \in Errors
  /\ life \in {"down", "running", "disposed"}
  /\ saved \in Settings
  /\ performed \in Seq(Schedules)
  /\ spent \in BOOLEAN

Init ==
  /\ now = 0
  /\ generation = 0
  /\ isScheduled = FALSE
  /\ action = SomeAction
  /\ dueAt = 0
  /\ timer = {}
  /\ queue = {}
  /\ callback = "idle"
  /\ claim = NoClaim
  /\ arming = {}
  /\ lastError = "none"
  /\ life = "down"
  /\ saved = NoSettings
  /\ performed = <<>>
  /\ spent = FALSE

-------------------------------------------------------------------------------
\* Helpers

LockFree == callback = "idle"

\* The UI thread is between two calls: it is not inside Schedule.
UiFree == life = "running" /\ arming = {}

\* Bounds the users of the service, never what the service does by itself.
WithinBounds == generation < MaxGeneration /\ Len(performed) < MaxPerformed

\* Mutant: the delay of a schedule that is already due is not clamped to zero.
NextDelay_Unclamped(due) == IF due > now + MaxDelay THEN MaxDelay ELSE due - now

NextDelay(due) ==
  LET remaining == IF due > now THEN due - now ELSE 0
  IN  IF remaining > MaxDelay THEN MaxDelay ELSE remaining

\* CancelCore called n times in one locked section or in a row.
CancelCore(n) ==
  /\ generation' = generation + n
  /\ timer' = {}
  /\ isScheduled' = FALSE
  /\ UNCHANGED <<action, dueAt>>

DisarmedSettings(settings) == [settings EXCEPT !.enabled = FALSE]

\* A time that parses and does not fall in a daylight-saving transition.
Resolves(at) == at # Unreadable

\* Mutant: a past time is accepted.
Acceptable_PastToo(at) == Resolves(at)

\* The argument check of Schedule, made before it takes the lock.
Acceptable(at) == Resolves(at) /\ at > now

-------------------------------------------------------------------------------
\* The machine

OneLess(t) == [t EXCEPT !.wait = IF @ > 0 THEN @ - 1 ELSE 0]
CountDown == {OneLess(t) : t \in timer}

\* Time passes on a running machine.  At MaxTime the clock stops, the timers do not.
Tick ==
  /\ now' = IF now < MaxTime THEN now + 1 ELSE now
  /\ timer' = CountDown
  /\ UNCHANGED <<generation, isScheduled, action, dueAt, queue, callbackVars,
                 arming, lastError, life, saved, ghostVars>>

\* The machine sleeps and resumes: the wall clock moves on, the timers do not.
Suspend ==
  /\ now' \in (now + 1) .. MaxTime
  /\ UNCHANGED <<scheduleVars, queue, callbackVars, arming, lastError, life, saved, ghostVars>>

\* The wall clock is set back.
SetClockBack ==
  /\ ClockMayGoBack
  /\ now' \in {t \in Times : t < now}
  /\ UNCHANGED <<scheduleVars, queue, callbackVars, arming, lastError, life, saved, ghostVars>>

\* A due timer hands its callback to the pool, with the generation it captured.
TimerFires ==
  /\ \E t \in timer : t.wait = 0 /\ queue' = queue \cup {t.generation}
  /\ timer' = {}
  /\ UNCHANGED <<now, generation, isScheduled, action, dueAt, callbackVars,
                 arming, lastError, life, saved, ghostVars>>

-------------------------------------------------------------------------------
\* The UI thread

\* The preferences are saved by the settings or the dashboard view model; the
\* service does not take part, and its lock is not needed.
SaveSettings(settings) ==
  /\ UiFree
  /\ WithinBounds
  /\ saved' = settings
  /\ spent' = FALSE
  /\ UNCHANGED <<now, scheduleVars, queue, callbackVars, arming, lastError, life, performed>>

\* Schedule up to the lock: a past time or a DST transition is refused.
Schedule(s) ==
  /\ UiFree
  /\ WithinBounds
  /\ Acceptable(s.due)
  /\ arming' = {s}
  /\ UNCHANGED <<now, scheduleVars, queue, callbackVars, lastError, life, saved, ghostVars>>

\* Schedule from the lock on: the old schedule is cancelled, the new one armed.
Arm(s) ==
  /\ LockFree
  /\ generation' = generation + 1
  /\ isScheduled' = TRUE
  /\ action' = s.action
  /\ dueAt' = s.due
  /\ timer' = {[generation |-> generation + 1, wait |-> NextDelay(s.due)]}
  /\ lastError' = "none"
  /\ arming' = {}
  /\ UNCHANGED <<now, queue, callbackVars, life, saved, ghostVars>>

Cancel ==
  /\ UiFree
  /\ WithinBounds
  /\ LockFree
  /\ CancelCore(1)
  /\ lastError' = "none"
  /\ UNCHANGED <<now, queue, callbackVars, arming, life, saved, ghostVars>>

\* The tail of Restore for a saved schedule it cannot take up: it cancels a
\* second time.  The disarming save may fail; Restore goes on either way.
Discard ==
  /\ CancelCore(2)
  /\ arming' = {}
  /\ lastError' = "discarded"
  /\ saved' \in {saved, DisarmedSettings(saved)}

\* Restore cancels what was armed, then looks at the saved schedule.  Taking it
\* up goes through Schedule, so through the same check and the step Arm.
RestoreSaved ==
  \/ /\ ~saved.enabled
     /\ CancelCore(1)
     /\ arming' = {}
     /\ lastError' = "none"
     /\ UNCHANGED saved
  \/ /\ saved.enabled
     /\ Acceptable(saved.at)
     /\ CancelCore(1)
     /\ arming' = {[action |-> saved.action, due |-> saved.at]}
     /\ lastError' = "none"
     /\ UNCHANGED saved
  \/ /\ saved.enabled
     /\ ~Acceptable(saved.at)
     /\ Discard

\* Restore in a process that is running: the rollback of SettingsViewModel.TrySave.
Restore ==
  /\ UiFree
  /\ WithinBounds
  /\ LockFree
  /\ RestoreSaved
  /\ UNCHANGED <<now, queue, callbackVars, life, ghostVars>>

Dispose ==
  /\ UiFree
  /\ LockFree
  /\ life' = "disposed"
  /\ CancelCore(1)
  /\ UNCHANGED <<now, queue, callbackVars, arming, lastError, saved, ghostVars>>

-------------------------------------------------------------------------------
\* A timer callback on a pool thread: OnTimer(g)

Current(g) == life # "disposed" /\ isScheduled /\ g = generation

\* A callback that no longer concerns the armed schedule returns at once.
OnTimerStale(g) ==
  /\ LockFree
  /\ ~Current(g)
  /\ queue' = queue \ {g}
  /\ UNCHANGED <<now, scheduleVars, callbackVars, arming, lastError, life, saved, ghostVars>>

\* Mutant: an early callback returns without winding the timer up again.
OnTimerEarly_NoChange(g) ==
  /\ LockFree
  /\ Current(g)
  /\ now < dueAt
  /\ queue' = queue \ {g}
  /\ UNCHANGED <<now, scheduleVars, callbackVars, arming, lastError, life, saved, ghostVars>>

\* Before the due time the timer is wound up again.
OnTimerEarly(g) ==
  /\ LockFree
  /\ Current(g)
  /\ now < dueAt
  /\ queue' = queue \ {g}
  /\ timer' = {[generation |-> g, wait |-> NextDelay(dueAt)]}
  /\ UNCHANGED <<now, generation, isScheduled, action, dueAt, callbackVars,
                 arming, lastError, life, saved, ghostVars>>

\* Mutant: a schedule is never found to be missed.
OnTimerClaim_NeverMissed(g) ==
  /\ LockFree
  /\ Current(g)
  /\ now >= dueAt
  /\ queue' = queue \ {g}
  /\ callback' = "persist"
  /\ claim' = [action |-> action, due |-> dueAt, missed |-> FALSE, read |-> saved]
  /\ CancelCore(1)
  /\ UNCHANGED <<now, arming, lastError, life, saved, ghostVars>>

\* From the due time on the callback claims the schedule and keeps the lock.
\* It reads the settings it is about to write back here.
OnTimerClaim(g) ==
  /\ LockFree
  /\ Current(g)
  /\ now >= dueAt
  /\ queue' = queue \ {g}
  /\ callback' = "persist"
  /\ claim' = [action |-> action, due |-> dueAt, missed |-> now > dueAt + Grace, read |-> saved]
  /\ CancelCore(1)
  /\ UNCHANGED <<now, arming, lastError, life, saved, ghostVars>>

\* The callback leaves OnTimer and releases the lock.
Return(error) ==
  /\ callback' = "idle"
  /\ claim' = NoClaim
  /\ lastError' = error

\* TryPersistDisarmed fails: nothing is executed.
PersistFails ==
  /\ callback = "persist"
  /\ Return("unsaved")
  /\ UNCHANGED <<now, scheduleVars, queue, arming, life, saved, ghostVars>>

\* Mutant: a skipped schedule leaves no report.
PersistMissed_Silent ==
  /\ callback = "persist"
  /\ claim.missed
  /\ saved' = DisarmedSettings(claim.read)
  /\ Return("none")
  /\ UNCHANGED <<now, scheduleVars, queue, arming, life, ghostVars>>

\* It succeeds for a missed schedule: the action is skipped.
PersistMissed ==
  /\ callback = "persist"
  /\ claim.missed
  /\ saved' = DisarmedSettings(claim.read)
  /\ Return("missed")
  /\ UNCHANGED <<now, scheduleVars, queue, arming, life, ghostVars>>

\* Mutant: the executor is called although the disarmed state was not saved.
PersistDue_NotSaved ==
  /\ callback = "persist"
  /\ ~claim.missed
  /\ callback' = "execute"
  /\ spent' = TRUE
  /\ UNCHANGED <<now, scheduleVars, queue, claim, arming, lastError, life, saved, performed>>

\* It succeeds in time: the executor is called next.
PersistDue ==
  /\ callback = "persist"
  /\ ~claim.missed
  /\ saved' = DisarmedSettings(claim.read)
  /\ callback' = "execute"
  /\ spent' = TRUE
  /\ UNCHANGED <<now, scheduleVars, queue, claim, arming, lastError, life, performed>>

Executed == Append(performed, [action |-> claim.action, due |-> claim.due])

\* The system action takes effect; the executor may report a failure all the
\* same, as it does when shutdown.exe is slow to exit.
Execute ==
  /\ callback = "execute"
  /\ performed' = Executed
  /\ \E error \in {"none", "failed"} : Return(error)
  /\ UNCHANGED <<now, scheduleVars, queue, arming, life, saved, spent>>

\* The executor fails and nothing happens.
ExecuteFails ==
  /\ callback = "execute"
  /\ Return("failed")
  /\ UNCHANGED <<now, scheduleVars, queue, arming, life, saved, ghostVars>>

-------------------------------------------------------------------------------
\* The process

\* The process ends, by a crash at any instant or after Dispose; a restart of
\* the machine loses the same state.
Crash ==
  /\ life # "down"
  /\ life' = "down"
  /\ generation' = 0
  /\ isScheduled' = FALSE
  /\ timer' = {}
  /\ queue' = {}
  /\ callback' = "idle"
  /\ claim' = NoClaim
  /\ arming' = {}
  /\ lastError' = "none"
  /\ UNCHANGED <<now, action, dueAt, saved, ghostVars>>

\* A new process constructs the service and calls Restore from OnStartup.
Start ==
  /\ life = "down"
  /\ Len(performed) < MaxPerformed
  /\ life' = "running"
  /\ RestoreSaved
  /\ UNCHANGED <<now, queue, callbackVars, ghostVars>>

UserStep == \/ \E settings \in Settings : SaveSettings(settings)
            \/ \E s \in Schedules : Schedule(s)
            \/ \E s \in arming : Arm(s)
            \/ Cancel
            \/ Restore
            \/ Dispose

CallbackStep == \/ \E g \in queue : OnTimerStale(g) \/ OnTimerEarly(g) \/ OnTimerClaim(g)
                \/ PersistFails
                \/ PersistMissed
                \/ PersistDue
                \/ Execute
                \/ ExecuteFails

Next == \/ Tick
        \/ Suspend
        \/ SetClockBack
        \/ TimerFires
        \/ UserStep
        \/ CallbackStep
        \/ Crash
        \/ Start

Spec == Init /\ [][Next]_vars

-------------------------------------------------------------------------------
\* Fairness.  Time passes, a due timer is queued, a queued callback runs and
\* finishes, and the UI thread gets out of Schedule.  No user step, crash,
\* start, suspension or clock change has to happen.
Fairness == /\ WF_vars(Tick)
            /\ WF_vars(TimerFires)
            /\ WF_vars(CallbackStep)
            /\ WF_vars(\E s \in arming : Arm(s))

FairSpec == Spec /\ Fairness

-------------------------------------------------------------------------------
\* Safety

\* OnTimer, Schedule and Timer.Change: an armed schedule always has a wake-up on
\* its way that carries its own generation, at most a minute of running time
\* ahead, whatever stale callbacks, replacements and suspensions came between.
NoLostWakeup ==
  isScheduled => \/ \E t \in timer : t.generation = generation /\ t.wait <= MaxDelay
                 \/ generation \in queue

\* OnTimer saves before it executes: once an execution has begun, the settings on
\* disk stay disarmed until the user saves again, so a crash during or after the
\* system action finds nothing to take up.
DisarmedBeforeExecution == spent => ~saved.enabled

\* Schedule and Restore accept only what is still to come: while the clock is not
\* set back, no schedule at or before a time already carried out is accepted
\* again, even when a later save resurrected it on disk.
FreshArming ==
  [][\A s \in arming' \ arming :
        \A i \in DOMAIN performed : performed[i].due < s.due]_vars

\* A claimed schedule that ends without its action leaves a reason in LastError,
\* unless the process died with it.
NoSilentSkip ==
  [][(callback # "idle" /\ callback' = "idle" /\ life' # "down" /\ performed' = performed)
        => lastError' # "none"]_vars

\* The service keeps the promise of OneShotAction: it takes up only the schedule
\* armed last, only inside its window, and carries it out at most once.
Pending == IF isScheduled THEN {[action |-> action, due |-> dueAt]} ELSE {}
Committed == IF callback # "idle" /\ ~claim.missed
               THEN {[action |-> claim.action, due |-> claim.due]} ELSE {}
Promise == INSTANCE OneShotAction
             WITH clock <- now, pending <- Pending, committed <- Committed, log <- performed
PromiseKept == Promise!Spec

\* README.md:29, "Missed actions are discarded instead of unexpectedly executing
\* after the PC returns": no action takes effect after its window.
NeverAfterWindow == [][performed' # performed => now <= claim.due + Grace]_vars

\* ScheduledActionService.cs:8, "Serializes schedule replacement/execution and
\* refuses stale or missed actions": replacing a schedule by itself does not
\* carry it out twice.
NeverTwice ==
  \A i, j \in DOMAIN performed : i # j => performed[i].due # performed[j].due

-------------------------------------------------------------------------------
\* Liveness

\* Every armed schedule is carried out, skipped, cancelled or replaced in the
\* end: the one-minute re-arming never loses it, as long as the clock is not set
\* back for ever.
EventuallyResolved ==
  \A g \in 1 .. (MaxGeneration + 2) :
     (isScheduled /\ generation = g) ~> ~(isScheduled /\ generation = g)
=============================================================================
