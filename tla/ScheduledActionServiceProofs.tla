--------------------- MODULE ScheduledActionServiceProofs ---------------------
(***************************************************************************)
(* What ScheduledActionService keeps for every choice of its constants:    *)
(* its invariants, its action properties and the promise of OneShotAction. *)
(* The bounds only restrict when the users act, so nothing here depends on *)
(* their values.                                                           *)
(***************************************************************************)
EXTENDS ScheduledActionService, TLAPS

USE TimeAssumption, BoundAssumption

\* A schedule is armed only in a running process, never while a callback holds
\* the lock, and every countdown in progress is its own.
ArmedAlone ==
  /\ isScheduled => life = "running" /\ callback = "idle"
  /\ arming # {} => life = "running"
  /\ \A t \in timer : isScheduled /\ t.generation = generation /\ t.wait <= MaxDelay

\* The timer of an armed schedule runs, or its callback is queued.
Awaited == isScheduled => timer # {} \/ generation \in queue

\* What has been or is being carried out was due.
PastDue ==
  ~ClockMayGoBack =>
     /\ callback # "idle" => claim.due <= now
     /\ \A i \in DOMAIN performed : performed[i].due <= now

\* Only a claim made in time reaches the executor.
ClaimInTime == callback = "execute" => ~claim.missed

IInv == /\ TypeOK
        /\ ArmedAlone
        /\ Awaited
        /\ DisarmedBeforeExecution
        /\ PastDue
        /\ ClaimInTime

-------------------------------------------------------------------------------
\* Lemmas about the helpers

LEMMA SomeActionType == SomeAction \in Actions
BY DEF SomeAction

LEMMA NoClaimType == NoSettings \in Settings /\ NoClaim \in Claims
BY SomeActionType DEF NoSettings, NoClaim, Settings, Claims, Times

LEMMA DisarmedType ==
  ASSUME NEW s \in Settings
  PROVE  DisarmedSettings(s) \in Settings /\ ~DisarmedSettings(s).enabled
BY DEF DisarmedSettings, Settings

\* GetNextDelay stays between nothing and a minute.
LEMMA NextDelayType ==
  ASSUME now \in Times, NEW due \in Times
  PROVE  NextDelay(due) \in Nat /\ NextDelay(due) <= MaxDelay
BY DEF NextDelay, Times

\* A countdown keeps its generation and never grows.
LEMMA CountDownType ==
  ASSUME timer \subseteq Timers
  PROVE  /\ CountDown \subseteq Timers
         /\ timer # {} => CountDown # {}
         /\ \A u \in CountDown : \E t \in timer :
               u.generation = t.generation /\ u.wait <= t.wait
<1>1. ASSUME NEW t \in Timers
      PROVE  OneLess(t) \in Timers /\ OneLess(t).generation = t.generation /\ OneLess(t).wait <= t.wait
  BY DEF Timers, OneLess
<1>2. CountDown = {OneLess(t) : t \in timer}
  BY DEF CountDown
<1>. QED  BY <1>1, <1>2

\* CancelCore leaves nothing armed and no countdown.
LEMMA CancelCoreType ==
  ASSUME TypeOK, NEW n \in Nat, CancelCore(n)
  PROVE  /\ generation' \in Nat
         /\ isScheduled' = FALSE
         /\ timer' = {}
         /\ action' \in Actions
         /\ dueAt' \in Times
BY DEF TypeOK, CancelCore

LEMMA AcceptableType ==
  ASSUME NEW at \in Times \cup {Unreadable}, Acceptable(at)
  PROVE  at \in Times /\ at > now
BY DEF Acceptable, Resolves

\* Restore leaves nothing armed and never enables what was disabled.
LEMMA RestoreSavedType ==
  ASSUME TypeOK, RestoreSaved
  PROVE  /\ generation' \in Nat
         /\ isScheduled' = FALSE
         /\ timer' = {}
         /\ action' \in Actions
         /\ dueAt' \in Times
         /\ arming' \subseteq Schedules
         /\ lastError' \in Errors
         /\ saved' \in Settings
         /\ ~saved.enabled => ~saved'.enabled
<1>1. saved \in Settings
  BY DEF TypeOK
<1>2. CASE ~saved.enabled /\ CancelCore(1) /\ arming' = {} /\ lastError' = "none" /\ UNCHANGED saved
  BY <1>1, <1>2, CancelCoreType DEF Errors
<1>3. CASE /\ Acceptable(saved.at)
           /\ CancelCore(1)
           /\ arming' = {[action |-> saved.action, due |-> saved.at]}
           /\ lastError' = "none"
           /\ UNCHANGED saved
  <2>1. saved.action \in Actions /\ saved.at \in Times
    BY <1>1, <1>3, AcceptableType DEF Settings
  <2>2. arming' \subseteq Schedules
    BY <1>3, <2>1 DEF Schedules
  <2>. QED  BY <1>1, <1>3, <2>2, CancelCoreType DEF Errors
<1>4. CASE Discard
  <2>1. CancelCore(2)
    BY <1>4 DEF Discard
  <2>. QED  BY <1>1, <1>4, <2>1, CancelCoreType, DisarmedType DEF Discard, Errors
<1>. QED  BY <1>2, <1>3, <1>4 DEF RestoreSaved

\* The clock that only goes forward keeps past what is past.
LEMMA PastDueKept ==
  ASSUME TypeOK, PastDue, now' \in Times, now <= now',
         UNCHANGED <<callback, claim, performed>>
  PROVE  PastDue'
<1>. SUFFICES ASSUME ~ClockMayGoBack
              PROVE  /\ callback # "idle" => claim.due <= now'
                     /\ \A i \in DOMAIN performed : performed[i].due <= now'
  BY DEF PastDue
<1>1. claim.due \in Nat /\ now \in Nat /\ now' \in Nat
  BY DEF TypeOK, Claims, Times
<1>2. ASSUME NEW i \in DOMAIN performed
      PROVE  performed[i].due <= now'
  <2>1. performed[i] \in Schedules
    BY DEF TypeOK
  <2>2. performed[i].due \in Nat
    BY <2>1 DEF Schedules, Times
  <2>. QED  BY <1>1, <2>2 DEF PastDue
<1>. QED  BY <1>1, <1>2 DEF PastDue

-------------------------------------------------------------------------------
\* The inductive invariant

LEMMA InitIInv == Init => IInv
<1>. SUFFICES ASSUME Init PROVE IInv
  OBVIOUS
<1>1. TypeOK
  <2>1. performed \in Seq(Schedules)
    BY DEF Init
  <2>2. 0 \in Times /\ "none" \in Errors
    BY DEF Times, Errors
  <2>. QED  BY <2>1, <2>2, SomeActionType, NoClaimType DEF Init, TypeOK
<1>2. ArmedAlone /\ Awaited
  BY DEF Init, ArmedAlone, Awaited
<1>3. DisarmedBeforeExecution /\ PastDue /\ ClaimInTime
  BY DEF Init, DisarmedBeforeExecution, PastDue, ClaimInTime
<1>. QED  BY <1>1, <1>2, <1>3 DEF IInv

LEMMA StepIInv == IInv /\ [Next]_vars => IInv'
<1>. SUFFICES ASSUME IInv, [Next]_vars
              PROVE  IInv'
  OBVIOUS
<1>. USE DEF IInv
<1>0. ClaimInTime'
  BY DEF ClaimInTime, Next, UserStep, CallbackStep, vars, Tick, Suspend, SetClockBack, TimerFires,
         SaveSettings, Schedule, Arm, Cancel, Restore, Dispose, OnTimerStale, OnTimerEarly,
         OnTimerClaim, PersistFails, PersistMissed, PersistDue, Execute, ExecuteFails, Return,
         Crash, Start, callbackVars
<1>1. CASE Tick
  <2>1. TypeOK'
    BY <1>1, CountDownType DEF TypeOK, Tick, callbackVars, ghostVars, Times
  <2>2. ArmedAlone'
    <3>1. timer' = CountDown /\ timer \subseteq Timers
      BY <1>1 DEF Tick, TypeOK
    <3>2. ASSUME NEW u \in timer'
          PROVE  isScheduled' /\ u.generation = generation' /\ u.wait <= MaxDelay
      <4>1. PICK t \in timer : u.generation = t.generation /\ u.wait <= t.wait
        BY <3>1, CountDownType
      <4>2. t.wait \in Nat /\ u.wait \in Nat
        BY <3>1, CountDownType DEF Timers
      <4>. QED  BY <1>1, <4>1, <4>2 DEF Tick, ArmedAlone
    <3>. QED  BY <1>1, <3>2 DEF ArmedAlone, Tick, callbackVars
  <2>3. Awaited'
    BY <1>1, CountDownType DEF TypeOK, Awaited, Tick
  <2>4. DisarmedBeforeExecution'
    BY <1>1, CountDownType DEF TypeOK, DisarmedBeforeExecution, Tick, callbackVars, ghostVars, Times
  <2>5. PastDue'
    BY <1>1, PastDueKept DEF TypeOK, Tick, callbackVars, ghostVars, Times
  <2>. QED  BY <1>0, <2>1, <2>2, <2>3, <2>4, <2>5
<1>2. CASE Suspend
  <2>1. TypeOK'
    BY <1>2 DEF TypeOK, Suspend, scheduleVars, callbackVars, ghostVars, Times
  <2>2. ArmedAlone'
    BY <1>2 DEF TypeOK, ArmedAlone, Suspend, scheduleVars, callbackVars, ghostVars, Times
  <2>3. Awaited'
    BY <1>2 DEF TypeOK, ArmedAlone, Awaited, Suspend, scheduleVars, callbackVars, ghostVars, Times
  <2>4. DisarmedBeforeExecution'
    BY <1>2 DEF TypeOK, DisarmedBeforeExecution, Suspend, scheduleVars, callbackVars, ghostVars, Times
  <2>5. PastDue'
    BY <1>2, PastDueKept DEF TypeOK, Suspend, callbackVars, ghostVars, Times
  <2>. QED  BY <1>0, <2>1, <2>2, <2>3, <2>4, <2>5
<1>3. CASE SetClockBack
  <2>1. TypeOK'
    BY <1>3 DEF TypeOK, SetClockBack, scheduleVars, callbackVars, ghostVars, Times
  <2>2. ArmedAlone'
    BY <1>3 DEF TypeOK, ArmedAlone, SetClockBack, scheduleVars, callbackVars, ghostVars, Times
  <2>3. Awaited'
    BY <1>3 DEF TypeOK, ArmedAlone, Awaited, SetClockBack, scheduleVars, callbackVars, ghostVars, Times
  <2>4. DisarmedBeforeExecution'
    BY <1>3 DEF TypeOK, DisarmedBeforeExecution, SetClockBack, scheduleVars, callbackVars, ghostVars, Times
  <2>5. PastDue'
    BY <1>3 DEF TypeOK, PastDue, SetClockBack, scheduleVars, callbackVars, ghostVars, Times
  <2>. QED  BY <1>0, <2>1, <2>2, <2>3, <2>4, <2>5
<1>4. CASE TimerFires
  <2>1. TypeOK'
    BY <1>4 DEF TypeOK, TimerFires, callbackVars, ghostVars, Timers
  <2>2. ArmedAlone'
    BY <1>4 DEF TypeOK, ArmedAlone, TimerFires, callbackVars, ghostVars, Timers
  <2>3. Awaited'
    BY <1>4 DEF TypeOK, ArmedAlone, Awaited, TimerFires, callbackVars, ghostVars, Timers
  <2>4. DisarmedBeforeExecution'
    BY <1>4 DEF TypeOK, DisarmedBeforeExecution, TimerFires, callbackVars, ghostVars, Timers
  <2>5. PastDue'
    BY <1>4 DEF TypeOK, PastDue, TimerFires, callbackVars, ghostVars, Timers
  <2>. QED  BY <1>0, <2>1, <2>2, <2>3, <2>4, <2>5
<1>5. ASSUME NEW settings \in Settings, SaveSettings(settings)
      PROVE  IInv'
  <2>1. TypeOK'
    BY <1>5 DEF TypeOK, SaveSettings, scheduleVars, callbackVars
  <2>2. ArmedAlone'
    BY <1>5 DEF TypeOK, ArmedAlone, SaveSettings, scheduleVars, callbackVars
  <2>3. Awaited'
    BY <1>5 DEF TypeOK, ArmedAlone, Awaited, SaveSettings, scheduleVars, callbackVars
  <2>4. DisarmedBeforeExecution'
    BY <1>5 DEF TypeOK, DisarmedBeforeExecution, SaveSettings, scheduleVars, callbackVars
  <2>5. PastDue'
    BY <1>5 DEF TypeOK, PastDue, SaveSettings, scheduleVars, callbackVars
  <2>. QED  BY <1>0, <2>1, <2>2, <2>3, <2>4, <2>5
<1>6. ASSUME NEW s \in Schedules, Schedule(s)
      PROVE  IInv'
  <2>1. TypeOK'
    BY <1>6 DEF TypeOK, Schedule, scheduleVars, callbackVars, ghostVars
  <2>2. ArmedAlone'
    BY <1>6 DEF TypeOK, ArmedAlone, UiFree, Schedule, scheduleVars, callbackVars, ghostVars
  <2>3. Awaited'
    BY <1>6 DEF TypeOK, ArmedAlone, Awaited, Schedule, scheduleVars, callbackVars, ghostVars
  <2>4. DisarmedBeforeExecution'
    BY <1>6 DEF TypeOK, DisarmedBeforeExecution, Schedule, scheduleVars, callbackVars, ghostVars
  <2>5. PastDue'
    BY <1>6 DEF TypeOK, PastDue, Schedule, scheduleVars, callbackVars, ghostVars
  <2>. QED  BY <1>0, <2>1, <2>2, <2>3, <2>4, <2>5
<1>7. ASSUME NEW s \in arming, Arm(s)
      PROVE  IInv'
  <2>1. TypeOK'
    BY <1>7, NextDelayType DEF TypeOK, Arm, LockFree, callbackVars, ghostVars, Timers, Schedules, Errors
  <2>2. ArmedAlone'
    BY <1>7, NextDelayType DEF TypeOK, ArmedAlone, Arm, LockFree, callbackVars, ghostVars, Timers, Schedules, Errors
  <2>3. Awaited'
    BY <1>7 DEF TypeOK, ArmedAlone, Awaited, Arm, LockFree, callbackVars, ghostVars, Timers, Schedules, Errors
  <2>4. DisarmedBeforeExecution'
    BY <1>7, NextDelayType DEF TypeOK, DisarmedBeforeExecution, Arm, LockFree, callbackVars, ghostVars, Timers, Schedules, Errors
  <2>5. PastDue'
    BY <1>7 DEF TypeOK, PastDue, Arm, LockFree, callbackVars, ghostVars, Timers, Schedules, Errors
  <2>. QED  BY <1>0, <2>1, <2>2, <2>3, <2>4, <2>5
<1>8. CASE Cancel
  <2>1. TypeOK'
    <3>. CancelCore(1)
      BY <1>8 DEF Cancel
    <3>. QED  BY <1>8, CancelCoreType DEF TypeOK, Cancel, callbackVars, ghostVars, Errors
  <2>2. ArmedAlone'
    BY <1>8 DEF TypeOK, ArmedAlone, Cancel, CancelCore, callbackVars, ghostVars, Errors
  <2>3. Awaited'
    BY <1>8 DEF TypeOK, ArmedAlone, Awaited, Cancel, CancelCore, callbackVars, ghostVars, Errors
  <2>4. DisarmedBeforeExecution'
    BY <1>8 DEF TypeOK, DisarmedBeforeExecution, Cancel, CancelCore, callbackVars, ghostVars, Errors
  <2>5. PastDue'
    BY <1>8 DEF TypeOK, PastDue, Cancel, CancelCore, callbackVars, ghostVars, Errors
  <2>. QED  BY <1>0, <2>1, <2>2, <2>3, <2>4, <2>5
<1>9. CASE Restore
  <2>1. TypeOK'
    BY <1>9, RestoreSavedType DEF TypeOK, Restore, callbackVars, ghostVars
  <2>2. ArmedAlone'
    BY <1>9, RestoreSavedType DEF ArmedAlone, UiFree, LockFree, Restore, callbackVars, ghostVars
  <2>3. Awaited'
    BY <1>9, RestoreSavedType DEF Awaited, Restore, callbackVars, ghostVars
  <2>4. DisarmedBeforeExecution'
    BY <1>9, RestoreSavedType DEF DisarmedBeforeExecution, Restore, callbackVars, ghostVars
  <2>5. PastDue'
    BY <1>9, RestoreSavedType DEF PastDue, Restore, callbackVars, ghostVars
  <2>. QED  BY <1>0, <2>1, <2>2, <2>3, <2>4, <2>5
<1>10. CASE Dispose
  <2>1. TypeOK'
    <3>. CancelCore(1)
      BY <1>10 DEF Dispose
    <3>. QED  BY <1>10, CancelCoreType DEF TypeOK, Dispose, callbackVars, ghostVars
  <2>2. ArmedAlone'
    BY <1>10 DEF TypeOK, ArmedAlone, UiFree, Dispose, CancelCore, callbackVars, ghostVars
  <2>3. Awaited'
    BY <1>10 DEF TypeOK, ArmedAlone, Awaited, Dispose, CancelCore, callbackVars, ghostVars
  <2>4. DisarmedBeforeExecution'
    BY <1>10 DEF TypeOK, DisarmedBeforeExecution, Dispose, CancelCore, callbackVars, ghostVars
  <2>5. PastDue'
    BY <1>10 DEF TypeOK, PastDue, Dispose, CancelCore, callbackVars, ghostVars
  <2>. QED  BY <1>0, <2>1, <2>2, <2>3, <2>4, <2>5
<1>11. ASSUME NEW g \in queue, OnTimerStale(g)
      PROVE  IInv'
  <2>1. TypeOK'
    BY <1>11 DEF TypeOK, OnTimerStale, Current, scheduleVars, callbackVars, ghostVars
  <2>2. ArmedAlone'
    BY <1>11 DEF TypeOK, ArmedAlone, OnTimerStale, Current, scheduleVars, callbackVars, ghostVars
  <2>3. Awaited'
    BY <1>11 DEF TypeOK, ArmedAlone, Awaited, OnTimerStale, Current, scheduleVars, callbackVars, ghostVars
  <2>4. DisarmedBeforeExecution'
    BY <1>11 DEF TypeOK, DisarmedBeforeExecution, OnTimerStale, Current, scheduleVars, callbackVars, ghostVars
  <2>5. PastDue'
    BY <1>11 DEF TypeOK, PastDue, OnTimerStale, Current, scheduleVars, callbackVars, ghostVars
  <2>. QED  BY <1>0, <2>1, <2>2, <2>3, <2>4, <2>5
<1>12. ASSUME NEW g \in queue, OnTimerEarly(g)
      PROVE  IInv'
  <2>1. TypeOK'
    BY <1>12, NextDelayType DEF TypeOK, OnTimerEarly, Current, LockFree, callbackVars, ghostVars, Timers
  <2>2. ArmedAlone'
    BY <1>12, NextDelayType DEF TypeOK, ArmedAlone, OnTimerEarly, Current, LockFree, callbackVars, ghostVars, Timers
  <2>3. Awaited'
    BY <1>12 DEF TypeOK, ArmedAlone, Awaited, OnTimerEarly, Current, LockFree, callbackVars, ghostVars, Timers
  <2>4. DisarmedBeforeExecution'
    BY <1>12, NextDelayType DEF TypeOK, DisarmedBeforeExecution, OnTimerEarly, Current, LockFree, callbackVars, ghostVars, Timers
  <2>5. PastDue'
    BY <1>12 DEF TypeOK, PastDue, OnTimerEarly, Current, LockFree, callbackVars, ghostVars, Timers
  <2>. QED  BY <1>0, <2>1, <2>2, <2>3, <2>4, <2>5
<1>13. ASSUME NEW g \in queue, OnTimerClaim(g)
      PROVE  IInv'
  <2>1. TypeOK'
    <3>1. CancelCore(1)
      BY <1>13 DEF OnTimerClaim
    <3>2. claim' \in Claims
      BY <1>13 DEF OnTimerClaim, TypeOK, Claims
    <3>. QED  BY <1>13, <3>1, <3>2, CancelCoreType DEF TypeOK, OnTimerClaim, ghostVars
  <2>2. ArmedAlone'
    BY <1>13 DEF TypeOK, ArmedAlone, OnTimerClaim, CancelCore, LockFree, ghostVars, Claims
  <2>3. Awaited'
    BY <1>13 DEF TypeOK, ArmedAlone, Awaited, OnTimerClaim, CancelCore, LockFree, ghostVars, Claims
  <2>4. DisarmedBeforeExecution'
    BY <1>13 DEF TypeOK, DisarmedBeforeExecution, OnTimerClaim, CancelCore, LockFree, ghostVars, Claims
  <2>5. PastDue'
    BY <1>13 DEF TypeOK, PastDue, OnTimerClaim, CancelCore, LockFree, ghostVars, Claims
  <2>. QED  BY <1>0, <2>1, <2>2, <2>3, <2>4, <2>5
<1>14. CASE PersistFails
  <2>1. TypeOK'
    BY <1>14, NoClaimType DEF TypeOK, PersistFails, Return, scheduleVars, ghostVars, Errors
  <2>2. ArmedAlone'
    BY <1>14, NoClaimType DEF TypeOK, ArmedAlone, PersistFails, Return, scheduleVars, ghostVars, Errors
  <2>3. Awaited'
    BY <1>14 DEF TypeOK, ArmedAlone, Awaited, PersistFails, Return, scheduleVars, ghostVars, Errors
  <2>4. DisarmedBeforeExecution'
    BY <1>14, NoClaimType DEF TypeOK, DisarmedBeforeExecution, PersistFails, Return, scheduleVars, ghostVars, Errors
  <2>5. PastDue'
    BY <1>14 DEF TypeOK, PastDue, PersistFails, Return, scheduleVars, ghostVars, Errors
  <2>. QED  BY <1>0, <2>1, <2>2, <2>3, <2>4, <2>5
<1>15. CASE PersistMissed
  <2>1. TypeOK'
    BY <1>15, NoClaimType, DisarmedType DEF TypeOK, PersistMissed, Return, scheduleVars, ghostVars, Errors, Claims
  <2>2. ArmedAlone'
    BY <1>15, NoClaimType, DisarmedType DEF TypeOK, ArmedAlone, PersistMissed, Return, scheduleVars, ghostVars, Errors, Claims
  <2>3. Awaited'
    BY <1>15 DEF TypeOK, ArmedAlone, Awaited, PersistMissed, Return, scheduleVars, ghostVars, Errors, Claims
  <2>4. DisarmedBeforeExecution'
    BY <1>15, NoClaimType, DisarmedType DEF TypeOK, DisarmedBeforeExecution, PersistMissed, Return, scheduleVars, ghostVars, Errors, Claims
  <2>5. PastDue'
    BY <1>15 DEF TypeOK, PastDue, PersistMissed, Return, scheduleVars, ghostVars, Errors, Claims
  <2>. QED  BY <1>0, <2>1, <2>2, <2>3, <2>4, <2>5
<1>16. CASE PersistDue
  <2>1. TypeOK'
    BY <1>16, DisarmedType DEF TypeOK, PersistDue, scheduleVars, Claims
  <2>2. ArmedAlone'
    BY <1>16, DisarmedType DEF TypeOK, ArmedAlone, PersistDue, scheduleVars, Claims
  <2>3. Awaited'
    BY <1>16 DEF TypeOK, ArmedAlone, Awaited, PersistDue, scheduleVars, Claims
  <2>4. DisarmedBeforeExecution'
    BY <1>16, DisarmedType DEF TypeOK, DisarmedBeforeExecution, PersistDue, scheduleVars, Claims
  <2>5. PastDue'
    BY <1>16 DEF TypeOK, PastDue, PersistDue, scheduleVars, Claims
  <2>. QED  BY <1>0, <2>1, <2>2, <2>3, <2>4, <2>5
<1>17. CASE Execute
  <2>1. TypeOK'
    BY <1>17, NoClaimType DEF TypeOK, Execute, Executed, Return, scheduleVars, Errors, Claims, Schedules
  <2>2. ArmedAlone'
    BY <1>17, NoClaimType DEF TypeOK, ArmedAlone, Execute, Executed, Return, scheduleVars, Errors, Claims, Schedules
  <2>3. Awaited'
    BY <1>17 DEF TypeOK, ArmedAlone, Awaited, Execute, Executed, Return, scheduleVars, Errors, Claims, Schedules
  <2>4. DisarmedBeforeExecution'
    BY <1>17, NoClaimType DEF TypeOK, DisarmedBeforeExecution, Execute, Executed, Return, scheduleVars, Errors, Claims, Schedules
  <2>5. PastDue'
    BY <1>17 DEF TypeOK, PastDue, Execute, Executed, Return, scheduleVars, Errors, Claims, Schedules
  <2>. QED  BY <1>0, <2>1, <2>2, <2>3, <2>4, <2>5
<1>18. CASE ExecuteFails
  <2>1. TypeOK'
    BY <1>18, NoClaimType DEF TypeOK, ExecuteFails, Return, scheduleVars, ghostVars, Errors
  <2>2. ArmedAlone'
    BY <1>18, NoClaimType DEF TypeOK, ArmedAlone, ExecuteFails, Return, scheduleVars, ghostVars, Errors
  <2>3. Awaited'
    BY <1>18 DEF TypeOK, ArmedAlone, Awaited, ExecuteFails, Return, scheduleVars, ghostVars, Errors
  <2>4. DisarmedBeforeExecution'
    BY <1>18, NoClaimType DEF TypeOK, DisarmedBeforeExecution, ExecuteFails, Return, scheduleVars, ghostVars, Errors
  <2>5. PastDue'
    BY <1>18 DEF TypeOK, PastDue, ExecuteFails, Return, scheduleVars, ghostVars, Errors
  <2>. QED  BY <1>0, <2>1, <2>2, <2>3, <2>4, <2>5
<1>19. CASE Crash
  <2>1. TypeOK'
    BY <1>19, NoClaimType DEF TypeOK, Crash, ghostVars, Errors
  <2>2. ArmedAlone'
    BY <1>19, NoClaimType DEF TypeOK, ArmedAlone, Crash, ghostVars, Errors
  <2>3. Awaited'
    BY <1>19 DEF TypeOK, ArmedAlone, Awaited, Crash, ghostVars, Errors
  <2>4. DisarmedBeforeExecution'
    BY <1>19, NoClaimType DEF TypeOK, DisarmedBeforeExecution, Crash, ghostVars, Errors
  <2>5. PastDue'
    BY <1>19 DEF TypeOK, PastDue, Crash, ghostVars, Errors
  <2>. QED  BY <1>0, <2>1, <2>2, <2>3, <2>4, <2>5
<1>20. CASE Start
  <2>1. TypeOK'
    BY <1>20, RestoreSavedType DEF TypeOK, Start, callbackVars, ghostVars
  <2>2. ArmedAlone'
    BY <1>20, RestoreSavedType DEF ArmedAlone, Start, callbackVars, ghostVars
  <2>3. Awaited'
    BY <1>20, RestoreSavedType DEF Awaited, Start, callbackVars, ghostVars
  <2>4. DisarmedBeforeExecution'
    BY <1>20, RestoreSavedType DEF DisarmedBeforeExecution, Start, callbackVars, ghostVars
  <2>5. PastDue'
    BY <1>20, RestoreSavedType DEF PastDue, Start, callbackVars, ghostVars
  <2>. QED  BY <1>0, <2>1, <2>2, <2>3, <2>4, <2>5
<1>21. CASE UNCHANGED vars
  <2>1. TypeOK'
    BY <1>21 DEF TypeOK, vars, scheduleVars, callbackVars, ghostVars
  <2>2. ArmedAlone'
    BY <1>21 DEF TypeOK, ArmedAlone, vars, scheduleVars, callbackVars, ghostVars
  <2>3. Awaited'
    BY <1>21 DEF TypeOK, ArmedAlone, Awaited, vars, scheduleVars, callbackVars, ghostVars
  <2>4. DisarmedBeforeExecution'
    BY <1>21 DEF TypeOK, DisarmedBeforeExecution, vars, scheduleVars, callbackVars, ghostVars
  <2>5. PastDue'
    BY <1>21 DEF TypeOK, PastDue, vars, scheduleVars, callbackVars, ghostVars
  <2>. QED  BY <1>0, <2>1, <2>2, <2>3, <2>4, <2>5
<1>. QED
  BY <1>1, <1>2, <1>3, <1>4, <1>5, <1>6, <1>7, <1>8, <1>9, <1>10, <1>11, <1>12, <1>13, <1>14, <1>15, <1>16, <1>17, <1>18, <1>19, <1>20, <1>21 DEF Next, UserStep, CallbackStep

\* The inductive invariant holds of every behaviour.
THEOREM Invariance == Spec => []IInv
BY InitIInv, StepIInv, PTL DEF Spec

-------------------------------------------------------------------------------
\* Safety

\* Every variable keeps its type, GetNextDelay's delays included.
THEOREM TypeCorrect == Spec => []TypeOK
BY Invariance, PTL DEF IInv

\* An armed schedule always has its wake-up on its way.
THEOREM WakeupNeverLost == Spec => []NoLostWakeup
<1>1. IInv => NoLostWakeup
  BY DEF IInv, ArmedAlone, Awaited, NoLostWakeup
<1>. QED  BY <1>1, Invariance, PTL

\* The settings are disarmed before the executor is called, and stay so.
THEOREM ExecutionDisarmed == Spec => []DisarmedBeforeExecution
BY Invariance, PTL DEF IInv

\* Appending makes a sequence longer, so an execution always changes the log.
LEMMA ExecutedDiffers ==
  ASSUME TypeOK
  PROVE  Executed # performed
<1>1. [action |-> claim.action, due |-> claim.due] \in Schedules
  BY DEF TypeOK, Claims, Schedules
<1>2. Len(Executed) = Len(performed) + 1 /\ Len(performed) \in Nat
  BY <1>1 DEF TypeOK, Executed
<1>. QED  BY <1>2

\* A claimed schedule that is not carried out leaves a reason.
THEOREM SkipReported == Spec => NoSilentSkip
<1>1. ASSUME TypeOK, [Next]_vars,
             callback # "idle", callback' = "idle", life' # "down", performed' = performed
      PROVE  lastError' # "none"
  <2>1. CASE PersistFails \/ PersistMissed \/ ExecuteFails
    BY <2>1 DEF PersistFails, PersistMissed, ExecuteFails, Return
  <2>2. ~Execute
    BY <1>1, ExecutedDiffers DEF Execute
  <2>3. ~PersistDue /\ ~Crash
    BY <1>1 DEF PersistDue, Crash
  <2>4. callback' # callback
    BY <1>1
  <2>5. ~UserStep
    BY <2>4 DEF UserStep, SaveSettings, Schedule, Arm, Cancel, Restore, Dispose, callbackVars
  <2>6. ~(Tick \/ Suspend \/ SetClockBack \/ TimerFires \/ Start \/ UNCHANGED vars)
    BY <2>4 DEF Tick, Suspend, SetClockBack, TimerFires, Start, callbackVars, vars
  <2>7. ~ \E g \in queue : OnTimerStale(g) \/ OnTimerEarly(g) \/ OnTimerClaim(g)
    BY <1>1, <2>4 DEF OnTimerStale, OnTimerEarly, OnTimerClaim, callbackVars, LockFree
  <2>. QED  BY <1>1, <2>1, <2>2, <2>3, <2>5, <2>6, <2>7 DEF Next, CallbackStep
<1>2. IInv /\ [Next]_vars =>
        [(callback # "idle" /\ callback' = "idle" /\ life' # "down" /\ performed' = performed)
            => lastError' # "none"]_vars
  BY <1>1 DEF IInv
<1>. QED  BY <1>2, Invariance, PTL DEF Spec, NoSilentSkip

\* While the clock is not set back, what was carried out is never accepted again.
THEOREM CarriedOutStaysPast == ~ClockMayGoBack => (Spec => FreshArming)
<1>. SUFFICES ASSUME ~ClockMayGoBack
              PROVE  Spec => FreshArming
  OBVIOUS
<1>1. ASSUME IInv, [Next]_vars, NEW s \in arming' \ arming, NEW i \in DOMAIN performed
      PROVE  performed[i].due < s.due
  <2>1. performed[i] \in Schedules /\ performed[i].due <= now
    BY <1>1 DEF IInv, TypeOK, PastDue
  <2>2. s.due > now /\ s.due \in Nat
    <3>1. CASE \E r \in Schedules : Schedule(r)
      <4>1. PICK r \in Schedules : Schedule(r)
        BY <3>1
      <4>2. s = r
        BY <1>1, <4>1 DEF Schedule
      <4>. QED  BY <4>1, <4>2 DEF Schedule, Acceptable, Resolves, Schedules, Times
    <3>2. CASE Restore \/ Start
      <4>1. /\ Acceptable(saved.at)
            /\ s = [action |-> saved.action, due |-> saved.at]
        BY <1>1, <3>2 DEF Restore, Start, RestoreSaved, Discard
      <4>2. saved.at \in Times /\ saved.at > now
        BY <1>1, <4>1, AcceptableType DEF IInv, TypeOK, Settings
      <4>. QED  BY <4>1, <4>2 DEF Times
    <3>3. ~(arming' \subseteq arming)
      BY <1>1
    <3>4. ~(Tick \/ Suspend \/ SetClockBack \/ TimerFires \/ Crash \/ UNCHANGED vars)
      BY <3>3 DEF Tick, Suspend, SetClockBack, TimerFires, Crash, vars
    <3>5. ~CallbackStep
      BY <3>3 DEF CallbackStep, OnTimerStale, OnTimerEarly, OnTimerClaim, PersistFails,
                  PersistMissed, PersistDue, Execute, ExecuteFails
    <3>6. /\ ~ \E r \in Settings : SaveSettings(r)
          /\ ~ \E r \in arming : Arm(r)
          /\ ~Cancel
          /\ ~Dispose
      BY <3>3 DEF SaveSettings, Arm, Cancel, Dispose
    <3>. QED  BY <1>1, <3>1, <3>2, <3>4, <3>5, <3>6 DEF Next, UserStep
  <2>3. performed[i].due \in Nat /\ now \in Nat
    BY <1>1, <2>1 DEF IInv, TypeOK, Schedules, Times
  <2>. QED  BY <2>1, <2>2, <2>3
<1>2. IInv /\ [Next]_vars =>
        [\A s \in arming' \ arming : \A i \in DOMAIN performed : performed[i].due < s.due]_vars
  BY <1>1
<1>. QED  BY <1>2, Invariance, PTL DEF Spec, FreshArming

-------------------------------------------------------------------------------
\* The refinement

\* Every step of the service is a step of the promise, or changes nothing of it.
LEMMA StepPromise ==
  ASSUME IInv, [Next]_vars
  PROVE  [Promise!Next]_(Promise!vars)
<1>. USE DEF Promise!Next, Promise!vars
<1>1. CASE Tick \/ Suspend \/ SetClockBack
  <2>1. now' \in Nat
    BY <1>1 DEF Tick, Suspend, SetClockBack, IInv, TypeOK, Times
  <2>2. UNCHANGED <<Pending, Committed, performed>>
    <3>1. UNCHANGED <<isScheduled, action, dueAt, callback, claim, performed>>
      BY <1>1 DEF Tick, Suspend, SetClockBack, scheduleVars, callbackVars, ghostVars
    <3>. QED  BY <3>1 DEF Pending, Committed
  <2>. QED  BY <2>1, <2>2 DEF Promise!Advance
<1>2. CASE TimerFires \/ UNCHANGED vars
  BY <1>2 DEF TimerFires, vars, scheduleVars, callbackVars, ghostVars, Pending, Committed
<1>3. ASSUME NEW s \in arming, Arm(s)
      PROVE  [Promise!Next]_(Promise!vars)
  <2>1. s \in Schedules /\ s = [action |-> s.action, due |-> s.due]
    BY <1>3 DEF IInv, TypeOK, Schedules
  <2>2. Pending' = {s} /\ Committed = {} /\ UNCHANGED <<now, Committed, performed>>
    BY <1>3, <2>1 DEF Arm, LockFree, callbackVars, ghostVars, Pending, Committed
  <2>. QED  BY <2>1, <2>2 DEF Promise!Request
<1>4. CASE Cancel \/ Restore \/ Dispose \/ Start
  <2>1. CancelCore(1) \/ CancelCore(2)
    BY <1>4 DEF Cancel, Restore, Dispose, Start, RestoreSaved, Discard
  <2>2. Pending' = {}
    BY <2>1 DEF CancelCore, Pending
  <2>3. UNCHANGED <<now, Committed, performed>>
    BY <1>4 DEF Cancel, Restore, Dispose, Start, callbackVars, ghostVars, Committed
  <2>. QED  BY <2>2, <2>3 DEF Promise!Withdraw
<1>5. ASSUME \/ \E settings \in Settings : SaveSettings(settings)
             \/ \E s \in Schedules : Schedule(s)
             \/ \E g \in queue : OnTimerStale(g) \/ OnTimerEarly(g)
      PROVE  UNCHANGED Promise!vars
  <2>1. UNCHANGED <<now, isScheduled, action, dueAt, callback, claim, performed>>
    BY <1>5 DEF SaveSettings, Schedule, OnTimerStale, OnTimerEarly, scheduleVars, callbackVars,
                ghostVars
  <2>. QED  BY <2>1 DEF Pending, Committed
<1>6. ASSUME NEW g \in queue, OnTimerClaim(g)
      PROVE  [Promise!Next]_(Promise!vars)
  <2>. DEFINE s == [action |-> action, due |-> dueAt]
  <2>1. /\ isScheduled /\ now >= dueAt /\ callback = "idle"
        /\ isScheduled' = FALSE /\ callback' = "persist"
        /\ claim' = [action |-> action, due |-> dueAt, missed |-> now > dueAt + Grace, read |-> saved]
        /\ UNCHANGED <<now, performed>>
    BY <1>6 DEF OnTimerClaim, Current, LockFree, CancelCore, ghostVars
  <2>2. Pending = {s} /\ Pending' = {} /\ Committed = {}
    BY <2>1 DEF Pending, Committed
  <2>3. CASE now > dueAt + Grace
    <3>1. Committed' = {}
      BY <2>1, <2>3 DEF Committed
    <3>. QED  BY <2>1, <2>2, <3>1 DEF Promise!Withdraw
  <2>4. CASE ~(now > dueAt + Grace)
    <3>1. Committed' = {s}
      BY <2>1, <2>4 DEF Committed
    <3>2. now \in s.due .. (s.due + Grace)
      BY <2>1, <2>4 DEF IInv, TypeOK, Times
    <3>. QED  BY <2>1, <2>2, <3>1, <3>2 DEF Promise!Commit
  <2>. QED  BY <2>3, <2>4
<1>7. CASE PersistFails \/ ExecuteFails \/ Crash
  <2>1. Pending' = {}
    BY <1>7 DEF PersistFails, ExecuteFails, Crash, Pending, scheduleVars, IInv, ArmedAlone
  <2>2. Committed' = {} /\ UNCHANGED <<now, performed>>
    BY <1>7 DEF PersistFails, ExecuteFails, Crash, Return, Committed, ghostVars
  <2>. QED  BY <2>1, <2>2 DEF Promise!Abandon
<1>8. CASE PersistMissed
  BY <1>8 DEF PersistMissed, Return, Pending, Committed, scheduleVars, ghostVars
<1>9. CASE PersistDue
  BY <1>9 DEF PersistDue, Pending, Committed, scheduleVars
<1>10. CASE Execute
  <2>. DEFINE s == [action |-> claim.action, due |-> claim.due]
  <2>1. performed' = Append(performed, s) /\ Committed' = {} /\ UNCHANGED <<now, Pending>>
    BY <1>10 DEF Execute, Executed, Return, Committed, Pending, scheduleVars
  <2>2. Committed = {s}
    BY <1>10 DEF Execute, Committed, IInv, ClaimInTime
  <2>. QED  BY <2>1, <2>2 DEF Promise!Perform
<1>. QED
  BY <1>1, <1>2, <1>3, <1>4, <1>5, <1>6, <1>7, <1>8, <1>9, <1>10 DEF Next, UserStep, CallbackStep

\* The service implements OneShotAction: only the schedule armed last is taken
\* up, only inside its window, and it is carried out at most once.
THEOREM Refinement == Spec => PromiseKept
<1>1. Init => Promise!Init
  BY DEF Init, Promise!Init, Pending, Committed
<1>. QED  BY <1>1, Invariance, StepPromise, PTL DEF Spec, PromiseKept, Promise!Spec
=============================================================================
