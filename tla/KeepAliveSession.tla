--------------------------- MODULE KeepAliveSession ---------------------------
(***************************************************************************)
(* A keep-alive session from the button to the power request:              *)
(* KeepAliveEngine, KeepAwakeService, the session commands of              *)
(* DashboardViewModel and the tray commands of MainViewModel.              *)
(*                                                                         *)
(* Concurrent actors: the UI thread; the run of each session (RunAsync and *)
(* the rest of StartAsync), which is on the UI thread up to its first      *)
(* delay and on pool threads after it; Windows, which locks and unlocks    *)
(* the session and lets pulses fall due.  Status changes reach the UI as   *)
(* callbacks posted to the dispatcher, in order and ahead of user input.   *)
(***************************************************************************)
EXTENDS Naturals, Sequences, FiniteSets

CONSTANTS MaxSessions,  \* bound: how often StartAsync is entered
          MaxPosted     \* bound: how far the UI thread lags behind the engine

ASSUME SessionAssumption == MaxSessions \in Nat \ {0} /\ MaxPosted \in Nat \ {0}

Sessions == 1 .. MaxSessions
None == 0

\* Where the run of a session is.  "release" to "ended" are the finally block
\* of RunAsync, "completed", "clear" and "forget" that of StartAsync.
Places == {"unused", "enter", "check", "power", "pulse", "notify", "delay",
           "release", "clearRunning", "ended", "completed", "clear", "forget", "done"}

VARIABLES
  canInject,    \* ISessionMonitor.CanInject
  pulseDue,     \* _clock.GetUtcNow() >= nextPulse
  running,      \* _running
  keepAwake,    \* _keepAwake
  power,        \* KeepAwakeService.IsEnabled
  pc,           \* where each session's run is
  available,    \* its local of that name
  rejected,     \* whether RunAsync refused it as a second session
  token,        \* its CancellationTokenSource: "live", "cancelled" or "disposed"
  latePulses,   \* ghost: its pulses since Windows locked the session
  cancellation, \* _cancellation, as the session it belongs to
  runTask,      \* _runTask, likewise
  last,         \* the session StartAsync was last entered for
  overlapped,   \* ghost: it was entered while an older run was about to forget its token
  isRunning,    \* DashboardViewModel.IsRunning
  toggle,       \* DashboardViewModel.KeepAwakeEnabled
  tray,         \* MainViewModel._isRunning
  notices,      \* how many "Keep-alive stopped" notifications were sent
  monitoring,   \* the idle monitor runs and the engine is observed
  posted,       \* IsRunning of the status callbacks posted to the UI thread
  uiCall,       \* the UI thread: "free", "start", "stop", "exiting", "disposing", "gone"
  disposed      \* DashboardViewModel._disposed

windowsVars == <<canInject, pulseDue>>
engineVars == <<running, keepAwake, power, available, rejected, latePulses>>
commandVars == <<token, cancellation, runTask, last, overlapped>>
viewVars == <<isRunning, toggle, tray, notices, monitoring>>
uiVars == <<uiCall, disposed>>
vars == <<windowsVars, engineVars, pc, commandVars, viewVars, posted, uiVars>>

\* The types; a view that announces no session more than once keeps notices in range.
TypeOK ==
  /\ canInject \in BOOLEAN /\ pulseDue \in BOOLEAN
  /\ running \in BOOLEAN /\ keepAwake \in BOOLEAN /\ power \in BOOLEAN
  /\ pc \in [Sessions -> Places]
  /\ available \in [Sessions -> BOOLEAN]
  /\ rejected \in [Sessions -> BOOLEAN]
  /\ token \in [Sessions -> {"live", "cancelled", "disposed"}]
  /\ latePulses \in [Sessions -> Nat]
  /\ cancellation \in Sessions \cup {None}
  /\ runTask \in Sessions \cup {None}
  /\ last \in Sessions \cup {None} /\ overlapped \in BOOLEAN
  /\ isRunning \in BOOLEAN /\ toggle \in BOOLEAN /\ tray \in BOOLEAN
  /\ notices \in 0 .. MaxSessions
  /\ monitoring \in BOOLEAN
  /\ posted \in Seq(BOOLEAN)
  /\ uiCall \in {"free", "start", "stop", "exiting", "disposing", "gone"}
  /\ disposed \in BOOLEAN

Init ==
  /\ canInject \in BOOLEAN
  /\ pulseDue = FALSE
  /\ running = FALSE
  /\ keepAwake = FALSE
  /\ power = FALSE
  /\ pc = [s \in Sessions |-> "unused"]
  /\ available = [s \in Sessions |-> FALSE]
  /\ rejected = [s \in Sessions |-> FALSE]
  /\ token = [s \in Sessions |-> "live"]
  /\ latePulses = [s \in Sessions |-> 0]
  /\ cancellation = None
  /\ runTask = None
  /\ last = None /\ overlapped = FALSE
  /\ isRunning = FALSE
  /\ toggle \in BOOLEAN
  /\ tray = FALSE
  /\ notices = 0
  /\ monitoring = TRUE
  /\ posted = <<>>
  /\ uiCall = "free"
  /\ disposed = FALSE

-------------------------------------------------------------------------------
\* Windows

LockChanges ==
  /\ canInject' = ~canInject
  /\ latePulses' = [s \in Sessions |-> 0]
  /\ UNCHANGED <<pulseDue, running, keepAwake, power, available, rejected, pc,
                 commandVars, viewVars, posted, uiVars>>

\* The interval since the last pulse has elapsed.
PulseFallsDue ==
  /\ ~pulseDue
  /\ pulseDue' = TRUE
  /\ UNCHANGED <<canInject, engineVars, pc, commandVars, viewVars, posted, uiVars>>

-------------------------------------------------------------------------------
\* The run of session s: KeepAliveEngine.RunAsync

Goto(s, place) == pc' = [pc EXCEPT ![s] = place]

\* StartAsync is still in the synchronous part of the run it starts.
OnUiThread(s) == uiCall = "start" /\ last = s

\* Dispatch: a status is posted to the UI thread, or dropped once disposed.
Post(isOn) == posted' = IF disposed THEN posted ELSE Append(posted, isOn)

\* The compare-and-swap of RunAsync; the loser's task is faulted.  The winner's
\* first pulse is due at once.
Enter(s) ==
  /\ pc[s] = "enter"
  /\ IF running
       THEN /\ rejected' = [rejected EXCEPT ![s] = TRUE]
            /\ Goto(s, "completed")
            /\ UNCHANGED <<running, keepAwake, pulseDue>>
       ELSE /\ running' = TRUE
            /\ keepAwake' = toggle
            /\ pulseDue' = TRUE
            /\ Goto(s, "check")
            /\ UNCHANGED rejected
  /\ UNCHANGED <<canInject, power, available, latePulses, commandVars, viewVars, posted, uiVars>>

\* Mutant: the loop does not look at the cancellation.
Check_NotCancelled(s) ==
  /\ pc[s] = "check"
  /\ Goto(s, "power")
  /\ available' = [available EXCEPT ![s] = canInject]
  /\ UNCHANGED <<windowsVars, running, keepAwake, power, rejected, latePulses,
                 commandVars, viewVars, posted, uiVars>>

\* Mutant: a session once found available is not looked at again.
Check_AvailableOnce(s) ==
  /\ pc[s] = "check"
  /\ IF token[s] = "cancelled"
       THEN Goto(s, "release") /\ UNCHANGED available
       ELSE Goto(s, "power") /\ available' = [available EXCEPT ![s] = @ \/ canInject]
  /\ UNCHANGED <<windowsVars, running, keepAwake, power, rejected, latePulses,
                 commandVars, viewVars, posted, uiVars>>

\* The top of the loop: cancellation, then the state of the Windows session.
Check(s) ==
  /\ pc[s] = "check"
  /\ IF token[s] = "cancelled"
       THEN Goto(s, "release") /\ UNCHANGED available
       ELSE Goto(s, "power") /\ available' = [available EXCEPT ![s] = canInject]
  /\ UNCHANGED <<windowsVars, running, keepAwake, power, rejected, latePulses,
                 commandVars, viewVars, posted, uiVars>>

\* Mutant: the power request is only ever created in the loop.
Power_NeverReleased(s) ==
  /\ pc[s] = "power"
  /\ power' = (power \/ (keepAwake /\ available[s]))
  /\ Goto(s, "pulse")
  /\ UNCHANGED <<windowsVars, running, keepAwake, available, rejected, latePulses,
                 commandVars, viewVars, posted, uiVars>>

\* The power request follows the toggle and the session.  Creating it may fail,
\* which ends the run.
Power(s) ==
  /\ pc[s] = "power"
  /\ LET wanted == keepAwake /\ available[s]
     IN  \/ power' = wanted /\ Goto(s, "pulse")
         \/ wanted /\ ~power /\ UNCHANGED power /\ Goto(s, "release")
  /\ UNCHANGED <<windowsVars, running, keepAwake, available, rejected, latePulses,
                 commandVars, viewVars, posted, uiVars>>

\* A due pulse is sent to the session found available; a failure ends the run.
Pulse(s) ==
  /\ pc[s] = "pulse"
  /\ \/ /\ available[s] /\ pulseDue
        /\ pulseDue' = FALSE
        /\ latePulses' = [latePulses EXCEPT ![s] = IF canInject THEN 0 ELSE @ + 1]
        /\ Goto(s, "notify")
     \/ /\ available[s] /\ pulseDue
        /\ Goto(s, "release")
        /\ UNCHANGED <<pulseDue, latePulses>>
     \/ /\ ~(available[s] /\ pulseDue)
        /\ Goto(s, "notify")
        /\ UNCHANGED <<pulseDue, latePulses>>
  /\ UNCHANGED <<canInject, running, keepAwake, power, available, rejected,
                 commandVars, viewVars, posted, uiVars>>

\* StatusChanged(true), then the one-second delay.  The first delay of a run
\* gives the UI thread back with _runTask set.
Notify(s) ==
  /\ pc[s] = "notify"
  /\ disposed \/ Len(posted) < MaxPosted
  /\ Post(TRUE)
  /\ Goto(s, "delay")
  /\ uiCall' = IF OnUiThread(s) THEN "free" ELSE uiCall
  /\ runTask' = IF OnUiThread(s) THEN s ELSE runTask
  /\ UNCHANGED <<windowsVars, engineVars, token, cancellation, last, overlapped, viewVars, disposed>>

\* The delay elapses, or is cancelled.
Delay(s) ==
  /\ pc[s] = "delay"
  /\ \/ Goto(s, "check")
     \/ token[s] = "cancelled" /\ Goto(s, "release")
  /\ UNCHANGED <<windowsVars, engineVars, commandVars, viewVars, posted, uiVars>>

\* Mutant: the finally block leaves the power request open.
Release_KeepsPower(s) ==
  /\ pc[s] = "release"
  /\ Goto(s, "clearRunning")
  /\ UNCHANGED <<windowsVars, engineVars, commandVars, viewVars, posted, uiVars>>

\* Mutant: the end is announced before _running is reset.
Release_AnnouncesFirst(s) ==
  /\ pc[s] = "release"
  /\ power' = FALSE
  /\ Post(FALSE)
  /\ Goto(s, "clearRunning")
  /\ UNCHANGED <<windowsVars, running, keepAwake, available, rejected, latePulses,
                 commandVars, viewVars, uiVars>>

\* The finally block: Disable closes the power request,
Release(s) ==
  /\ pc[s] = "release"
  /\ power' = FALSE
  /\ Goto(s, "clearRunning")
  /\ UNCHANGED <<windowsVars, running, keepAwake, available, rejected, latePulses,
                 commandVars, viewVars, posted, uiVars>>

\* then _running is reset,
ClearRunning(s) ==
  /\ pc[s] = "clearRunning"
  /\ running' = FALSE
  /\ Goto(s, "ended")
  /\ UNCHANGED <<windowsVars, keepAwake, power, available, rejected, latePulses,
                 commandVars, viewVars, posted, uiVars>>

\* then StatusChanged(false) is raised and the task of the run completes.
Ended(s) ==
  /\ pc[s] = "ended"
  /\ Post(FALSE)
  /\ Goto(s, "completed")
  /\ UNCHANGED <<windowsVars, engineVars, commandVars, viewVars, uiVars>>

\* StartAsync's finally: the token source is disposed,
DisposeToken(s) ==
  /\ pc[s] = "completed"
  /\ token' = [token EXCEPT ![s] = "disposed"]
  /\ runTask' = IF OnUiThread(s) THEN s ELSE runTask
  /\ Goto(s, "clear")
  /\ UNCHANGED <<windowsVars, engineVars, cancellation, last, overlapped, viewVars, posted, uiVars>>

\* StartAsync returns.  The exception of a rejected session reaches
\* OnUnhandledException, which shuts down.
Return(s) ==
  /\ Goto(s, "done")
  /\ uiCall' = IF rejected[s] THEN "exiting" ELSE IF OnUiThread(s) THEN "free" ELSE uiCall

\* Mutant: the token source is forgotten without the ReferenceEquals test.
CompareToken_Not(s) ==
  /\ pc[s] = "clear"
  /\ Goto(s, "forget")
  /\ UNCHANGED uiCall
  /\ UNCHANGED <<windowsVars, engineVars, commandVars, viewVars, posted, disposed>>

\* it is compared with the one that is held, which a newer session may have replaced,
CompareToken(s) ==
  /\ pc[s] = "clear"
  /\ \/ cancellation = s /\ Goto(s, "forget") /\ UNCHANGED uiCall
     \/ cancellation # s /\ Return(s)
  /\ UNCHANGED <<windowsVars, engineVars, commandVars, viewVars, posted, disposed>>

\* and the one that is held by now is forgotten: nothing keeps the UI thread from
\* starting a session in between.
ForgetToken(s) ==
  /\ pc[s] = "forget"
  /\ cancellation' = None
  /\ Return(s)
  /\ UNCHANGED <<windowsVars, engineVars, token, runTask, last, overlapped, viewVars, posted, disposed>>

RunStep(s) == \/ Enter(s) \/ Check(s) \/ Power(s) \/ Pulse(s) \/ Notify(s) \/ Delay(s)
              \/ Release(s) \/ ClearRunning(s) \/ Ended(s) \/ DisposeToken(s)
              \/ CompareToken(s) \/ ForgetToken(s)

-------------------------------------------------------------------------------
\* The UI thread

\* The dispatcher takes user input only when no posted callback waits.
TakesInput == uiCall = "free" /\ posted = <<>>

\* Mutant: every status of a running view is announced as its end.
Deliver_AnnouncesAll ==
  /\ uiCall = "free"
  /\ posted # <<>>
  /\ posted' = Tail(posted)
  /\ isRunning' = Head(posted)
  /\ tray' = Head(posted)
  /\ notices' = IF isRunning THEN notices + 1 ELSE notices
  /\ UNCHANGED <<windowsVars, engineVars, pc, commandVars, toggle, monitoring, uiVars>>

\* Mutant: the tray is told of starts only.
Deliver_TrayMissesEnd ==
  /\ uiCall = "free"
  /\ posted # <<>>
  /\ posted' = Tail(posted)
  /\ isRunning' = Head(posted)
  /\ tray' = (tray \/ Head(posted))
  /\ notices' = IF isRunning /\ ~Head(posted) THEN notices + 1 ELSE notices
  /\ UNCHANGED <<windowsVars, engineVars, pc, commandVars, toggle, monitoring, uiVars>>

\* A posted status: the view and, through KeepAliveStatusMessage, the tray follow.
Deliver ==
  /\ uiCall = "free"
  /\ posted # <<>>
  /\ posted' = Tail(posted)
  /\ isRunning' = Head(posted)
  /\ tray' = Head(posted)
  /\ notices' = IF isRunning /\ ~Head(posted) THEN notices + 1 ELSE notices
  /\ UNCHANGED <<windowsVars, engineVars, pc, commandVars, toggle, monitoring, uiVars>>

\* StartCommand's button asks CanStart and waits for the command's last task;
\* the tray asks only its own flag.
ButtonStarts == ~isRunning /\ \A s \in Sessions : pc[s] \in {"unused", "done"}
TrayStarts == ~tray

\* StartAsync up to its call of RunAsync.
Start(s) ==
  /\ TakesInput
  /\ ButtonStarts \/ TrayStarts
  /\ pc[s] = "unused"
  /\ \A r \in Sessions : r < s => pc[r] # "unused"
  /\ cancellation' = s
  /\ last' = s
  /\ overlapped' = (\E r \in Sessions : pc[r] = "forget")
  /\ isRunning' = TRUE
  /\ uiCall' = "start"
  /\ Goto(s, "enter")
  /\ UNCHANGED <<windowsVars, engineVars, token, runTask, toggle, tray, notices,
                 monitoring, posted, disposed>>

\* Stop and TrayStop: the command finds itself executable,
Stop ==
  /\ TakesInput
  /\ isRunning \/ tray
  /\ uiCall' = "stop"
  /\ UNCHANGED <<windowsVars, engineVars, pc, commandVars, viewVars, posted, disposed>>

\* and cancels the token source of the session, if there is one.  One that is
\* disposed throws, which shuts the application down.
CancelSession ==
  /\ uiCall = "stop"
  /\ \/ /\ cancellation = None
        /\ uiCall' = "free"
        /\ UNCHANGED token
     \/ /\ cancellation # None
        /\ token[cancellation] # "disposed"
        /\ token' = [token EXCEPT ![cancellation] = "cancelled"]
        /\ uiCall' = "free"
     \/ /\ cancellation # None
        /\ token[cancellation] = "disposed"
        /\ uiCall' = "exiting"
        /\ UNCHANGED token
  /\ UNCHANGED <<windowsVars, engineVars, pc, cancellation, runTask, last, overlapped, viewVars,
                 posted, disposed>>

\* Mutant: a running session is not told of the toggle.
Toggle_NotForwarded ==
  /\ TakesInput
  /\ toggle' = ~toggle
  /\ UNCHANGED <<windowsVars, engineVars, pc, commandVars, isRunning, tray, notices,
                 monitoring, posted, uiVars>>

\* The keep-awake toggle; a running session is told.
Toggle ==
  /\ TakesInput
  /\ toggle' = ~toggle
  /\ keepAwake' = IF isRunning THEN ~toggle ELSE keepAwake
  /\ UNCHANGED <<windowsVars, running, power, available, rejected, latePulses, pc,
                 commandVars, isRunning, tray, notices, monitoring, posted, uiVars>>

\* Mutant: the session is awaited without being cancelled.
DisposeAsync_NoCancel ==
  /\ uiCall \in {"free", "exiting"}
  /\ disposed' = TRUE
  /\ uiCall' = "disposing"
  /\ UNCHANGED <<windowsVars, engineVars, pc, commandVars, viewVars, posted>>

\* DisposeAsync from the host's Dispose, at the end of the application: the
\* session is cancelled.  A token source that is disposed throws here as well,
\* and the host carries on without the rest of DisposeAsync.
DisposeAsync ==
  /\ uiCall \in {"free", "exiting"}
  /\ disposed' = TRUE
  /\ IF cancellation # None /\ token[cancellation] = "disposed"
       THEN uiCall' = "gone" /\ UNCHANGED token
       ELSE /\ uiCall' = "disposing"
            /\ token' = IF cancellation = None THEN token
                        ELSE [token EXCEPT ![cancellation] = "cancelled"]
  /\ UNCHANGED <<windowsVars, engineVars, pc, cancellation, runTask, last, overlapped, viewVars,
                 posted>>

\* Mutant: the last run is not awaited.
DisposeWaits_Not ==
  /\ uiCall = "disposing"
  /\ monitoring' = FALSE
  /\ uiCall' = "gone"
  /\ UNCHANGED <<windowsVars, engineVars, pc, commandVars, isRunning, toggle, tray,
                 notices, posted, disposed>>

\* It waits for the last run and stops observing, unless that run was rejected.
DisposeWaits ==
  /\ uiCall = "disposing"
  /\ runTask # None => pc[runTask] \in {"completed", "clear", "forget", "done"}
  /\ monitoring' = (runTask # None /\ rejected[runTask])
  /\ uiCall' = "gone"
  /\ UNCHANGED <<windowsVars, engineVars, pc, commandVars, isRunning, toggle, tray,
                 notices, posted, disposed>>

UiStep == \/ Deliver
          \/ \E s \in Sessions : Start(s)
          \/ Stop
          \/ CancelSession
          \/ Toggle
          \/ DisposeAsync
          \/ DisposeWaits

Next == \/ LockChanges
        \/ PulseFallsDue
        \/ \E s \in Sessions : RunStep(s)
        \/ UiStep

Spec == Init /\ [][Next]_vars

\* Every run goes on, the dispatcher delivers what is posted, and a command that
\* has begun ends.  No input, lock or due pulse has to come.
Fairness == /\ \A s \in Sessions : WF_vars(RunStep(s))
            /\ WF_vars(Deliver)
            /\ WF_vars(CancelSession)
            /\ WF_vars(DisposeWaits)

FairSpec == Spec /\ Fairness

-------------------------------------------------------------------------------
\* Safety

\* KeepAliveEngine's finally disables before it resets _running: the power
\* request never outlives the session that asked for it.
PowerOnlyInSession == power => running

\* A view that is out of date never starts a second session: the status that
\* ends a run is raised after _running is reset, so RunAsync refuses nobody.
NeverRejected == \A s \in Sessions : ~rejected[s]

\* Stop finds the session that runs, although StartAsync's finally compares the
\* token source that is held with its own and only then forgets it: the one
\* exception is a session started exactly between the two.
StopReachesSession ==
  running /\ uiCall # "start" /\ ~overlapped
    => cancellation = last /\ pc[last] \notin {"unused", "completed", "clear", "forget", "done"}

\* The engine asks for the session before every pulse: locking the session lets
\* through at most the one pulse whose check was already made.
AtMostOneLatePulse == \A s \in Sessions : latePulses[s] <= 1

\* The running engine uses the toggle the user sees, whatever was toggled
\* before, between and during sessions.
ToggleFollowed == running => keepAwake = toggle

\* Once every run is over and every status delivered, the window and the tray
\* show no session and each session has been announced exactly once.
SettledView ==
  (/\ \A s \in Sessions : pc[s] \in {"unused", "done"}
   /\ posted = <<>>
   /\ uiCall = "free")
  => /\ ~isRunning /\ ~tray
     /\ cancellation = None
     /\ notices = Cardinality({s \in Sessions : pc[s] = "done"})

\* The exit leaves no session behind: DisposeAsync returns after the engine has
\* released its power request, and where a disposed token source makes it throw
\* instead, the session it belonged to is over.
ExitReleases == uiCall = "gone" => ~running /\ ~power

\* KeepAliveEngine and DisposeAsync: neither the power request nor the pulses outlive what the
\* user and Windows allow, however a run ends.
PowerHeld == PowerOnlyInSession /\ AtMostOneLatePulse /\ ExitReleases

\* The commands of window and tray, each with a view that may be out of date, reach the session
\* they mean, and the views agree with it in the end.
CommandsReach == NeverRejected /\ StopReachesSession /\ ToggleFollowed /\ SettledView

-------------------------------------------------------------------------------
\* Liveness

\* A cancelled session ends and its power request is released.
StopStops == \A s \in Sessions : token[s] = "cancelled" ~> pc[s] = "done"

\* A power request that is no longer wanted, because the toggle was switched off
\* or the Windows session locked, is released unless that changes back.
PowerFollows == /\ (power /\ ~toggle) ~> (~power \/ toggle)
                /\ (power /\ ~canInject) ~> (~power \/ canInject)

\* The application does not hang on exit, unless the session that runs was started
\* while the one before it was about to forget its token source.
ExitCompletes == disposed ~> (uiCall = "gone" \/ (running /\ overlapped))
=============================================================================
