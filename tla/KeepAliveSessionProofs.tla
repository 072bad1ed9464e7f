------------------------- MODULE KeepAliveSessionProofs -------------------------
(***************************************************************************)
(* Proofs about KeepAliveSession for any number of sessions and any lag of *)
(* the dispatcher.                                                         *)
(***************************************************************************)
EXTENDS KeepAliveSession, FiniteSetTheorems, SequenceTheorems, TLAPS

\* From the call of StartAsync to the last status of the run; the part of it in which _running is
\* set; and after it.
Active == {"enter", "check", "power", "pulse", "notify", "delay", "release", "clearRunning", "ended"}
Held == Active \ {"enter", "ended"}
Over == {"completed", "clear", "forget", "done"}

InSession == last # None /\ pc[last] \in Active
Finished == {s \in Sessions : pc[s] \in Over}

\* The session started last is the only one that can be active, its task is the one DisposeAsync
\* waits for, and unless it overlapped with the end of another its token source is the one held.
OneActive ==
  /\ \A s \in Sessions : pc[s] \in Active => last = s
  /\ cancellation \in {last, None}
  /\ cancellation # None => pc[cancellation] \in Active \cup {"completed", "clear", "forget"}
  /\ InSession => cancellation = last \/ overlapped
  /\ \A s \in Sessions : pc[s] = "forget" => last = s \/ overlapped
  /\ running <=> last # None /\ pc[last] \in Held
  /\ \A s \in Sessions : rejected[s] = FALSE
  /\ \A s \in Sessions : token[s] = "disposed" => pc[s] \in {"clear", "forget", "done"}
  /\ \A s \in Sessions : pc[s] = "enter" => uiCall = "start"
  /\ uiCall = "start" => last # None /\ pc[last] # "delay"
  /\ InSession /\ uiCall # "start" => runTask = last
  /\ uiCall = "gone" => running = FALSE

\* The power request and the toggle belong to the session that runs.
PowerInv ==
  /\ power = TRUE => running = TRUE
  /\ \A s \in Sessions : pc[s] = "clearRunning" => power = FALSE
  /\ running = TRUE => keepAwake = toggle

\* A pulse is late only if the session was locked after the check that allowed it.
PulseInv ==
  \A s \in Sessions :
    /\ latePulses[s] \in {0, 1}
    /\ canInject = TRUE => latePulses[s] = 0
    /\ pc[s] \in {"power", "pulse"} /\ available[s] = TRUE => latePulses[s] = 0

\* What the window and the tray show once everything posted is delivered.
Shown == IF posted = <<>> THEN tray ELSE posted[Len(posted)]
Pending == IF posted # <<>> /\ posted[Len(posted)] = FALSE THEN 1 ELSE 0

\* Until the exit the end of a session is the last status posted, and the views follow it.
ViewInv ==
  /\ disposed = TRUE <=> uiCall \in {"disposing", "gone"}
  /\ tray = TRUE => isRunning = TRUE
  /\ \A i \in 1 .. Len(posted) : i < Len(posted) => posted[i] = TRUE
  /\ disposed = FALSE =>
       /\ InSession /\ uiCall = "start" => posted = <<>>
       /\ InSession /\ uiCall # "start" => Shown = TRUE
       /\ ~InSession => Shown = FALSE
       /\ InSession \/ posted # <<>> => isRunning = TRUE
       /\ ~InSession /\ posted = <<>> => isRunning = FALSE

\* Every session that is over was announced, or its announcement is on the way.
CountInv ==
  /\ notices + Pending <= Cardinality(Finished)
  /\ disposed = FALSE => notices + Pending = Cardinality(Finished)

\* The parts of TypeOK that are inductive by themselves: the bound on notices comes from CountInv.
EngineTypes ==
  /\ canInject \in BOOLEAN /\ pulseDue \in BOOLEAN
  /\ running \in BOOLEAN /\ keepAwake \in BOOLEAN /\ power \in BOOLEAN
  /\ pc \in [Sessions -> Places]
  /\ available \in [Sessions -> BOOLEAN]
  /\ rejected \in [Sessions -> BOOLEAN]
  /\ latePulses \in [Sessions -> Nat]
CommandTypes ==
  /\ token \in [Sessions -> {"live", "cancelled", "disposed"}]
  /\ cancellation \in Sessions \cup {None}
  /\ runTask \in Sessions \cup {None}
  /\ last \in Sessions \cup {None} /\ overlapped \in BOOLEAN
  /\ uiCall \in {"free", "start", "stop", "exiting", "disposing", "gone"}
  /\ disposed \in BOOLEAN
ViewTypes ==
  /\ isRunning \in BOOLEAN /\ toggle \in BOOLEAN /\ tray \in BOOLEAN
  /\ notices \in Nat
  /\ monitoring \in BOOLEAN
  /\ posted \in Seq(BOOLEAN)
SessionTypes == EngineTypes /\ CommandTypes /\ ViewTypes

SessionInv == SessionTypes /\ OneActive /\ PowerInv /\ PulseInv /\ ViewInv /\ CountInv

-------------------------------------------------------------------------------

LEMMA NoneIsNoSession == None \notin Sessions
  BY DEF None, Sessions

\* What is posted after one more status, and after one is taken.
LEMMA Posting ==
  ASSUME NEW q \in Seq(BOOLEAN), NEW isOn \in BOOLEAN
  PROVE  /\ Append(q, isOn) \in Seq(BOOLEAN) /\ Append(q, isOn) # <<>>
         /\ Len(Append(q, isOn)) = Len(q) + 1 /\ Append(q, isOn)[Len(q) + 1] = isOn
         /\ \A i \in 1 .. Len(q) : Append(q, isOn)[i] = q[i]
  OBVIOUS

LEMMA Taking ==
  ASSUME NEW q \in Seq(BOOLEAN), q # <<>>
  PROVE  /\ Tail(q) \in Seq(BOOLEAN) /\ Head(q) = q[1] /\ Head(q) \in BOOLEAN
         /\ Len(q) \in Nat \ {0} /\ Len(Tail(q)) = Len(q) - 1
         /\ \A i \in 1 .. Len(q) - 1 : Tail(q)[i] = q[i + 1]
         /\ Tail(q) = <<>> <=> Len(q) = 1
  <1>1. Tail(q) \in Seq(BOOLEAN) /\ Head(q) = q[1] /\ Head(q) \in BOOLEAN
    BY HeadTailProperties
  <1>2. Len(q) \in Nat \ {0} /\ Len(Tail(q)) = Len(q) - 1
    BY HeadTailProperties, EmptySeq, LenProperties
  <1>3. \A i \in 1 .. Len(q) - 1 : Tail(q)[i] = q[i + 1]
    BY <1>2, HeadTailProperties
  <1>4. Len(<<>>) = 0 /\ (Tail(q) # <<>> => Len(Tail(q)) \in Nat \ {0})
    <2>1. \A t \in Seq(BOOLEAN) : t # <<>> => Len(t) \in Nat \ {0}
      BY EmptySeq
    <2> QED
      BY <1>1, <2>1
  <1>5. ASSUME Tail(q) = <<>> PROVE Len(q) = 1
    <2>1. Len(Tail(q)) = Len(<<>>)
      BY <1>5, Zenon
    <2> QED
      BY <2>1, <1>2, <1>4
  <1>6. Len(q) = 1 => Tail(q) = <<>>
    BY <1>2, <1>4
  <1> QED
    BY <1>1, <1>2, <1>3, <1>5, <1>6

\* A run goes on to its next place.
LEMMA Moves ==
  ASSUME NEW s \in Sessions, NEW place \in Places, pc \in [Sessions -> Places], Goto(s, place)
  PROVE  pc' \in [Sessions -> Places] /\ pc'[s] = place /\ \A r \in Sessions \ {s} : pc'[r] = pc[r]
  BY DEF Goto

\* Whichever way a session is started, no other is active.
LEMMA NothingRuns ==
  ASSUME SessionInv, TakesInput, ButtonStarts \/ TrayStarts
  PROVE  \A s \in Sessions : pc[s] \notin Active
  BY NoneIsNoSession
     DEF SessionInv, SessionTypes, EngineTypes, CommandTypes, ViewTypes, TakesInput, ButtonStarts,
        TrayStarts, OneActive, ViewInv, Shown, InSession, Active

\* Each step keeps the types of the engine,
LEMMA EngineTypesStep == SessionInv /\ [Next]_vars => EngineTypes'
  <1> SUFFICES ASSUME SessionInv, [Next]_vars PROVE EngineTypes'
    OBVIOUS
  <1> USE NoneIsNoSession DEF SessionInv, SessionTypes,
        windowsVars, engineVars, commandVars, viewVars, uiVars, EngineTypes
  <1>1. CASE LockChanges
    BY <1>1 DEF LockChanges
  <1>2. CASE PulseFallsDue
    BY <1>2 DEF PulseFallsDue
  <1>3. ASSUME NEW s \in Sessions, Enter(s) PROVE EngineTypes'
    <2>1. pc' \in [Sessions -> Places]
      BY <1>3, Moves DEF Enter, Places
    <2>2. rejected' \in [Sessions -> BOOLEAN]
      BY <1>3 DEF Enter
    <2>3. running' \in BOOLEAN /\ keepAwake' \in BOOLEAN /\ pulseDue' \in BOOLEAN
      BY <1>3 DEF Enter, ViewTypes
    <2> QED
      BY <1>3, <2>1, <2>2, <2>3 DEF Enter
  <1>4. ASSUME NEW s \in Sessions, Check(s) PROVE EngineTypes'
    <2>1. pc' \in [Sessions -> Places]
      BY <1>4, Moves DEF Check, Places
    <2> QED
      BY <1>4, <2>1 DEF Check
  <1>5. ASSUME NEW s \in Sessions, Power(s) PROVE EngineTypes'
    <2>1. pc' \in [Sessions -> Places]
      BY <1>5, Moves DEF Power, Places
    <2> QED
      BY <1>5, <2>1 DEF Power
  <1>6. ASSUME NEW s \in Sessions, Pulse(s) PROVE EngineTypes'
    <2>1. pc' \in [Sessions -> Places]
      BY <1>6, Moves DEF Pulse, Places
    <2>2. latePulses' \in [Sessions -> Nat]
      BY <1>6 DEF Pulse
    <2>3. pulseDue' \in BOOLEAN
      BY <1>6 DEF Pulse
    <2> QED
      BY <1>6, <2>1, <2>2, <2>3 DEF Pulse
  <1>7. ASSUME NEW s \in Sessions, Notify(s) PROVE EngineTypes'
    <2>1. pc' \in [Sessions -> Places]
      BY <1>7, Moves DEF Notify, Places
    <2> QED
      BY <1>7, <2>1 DEF Notify
  <1>8. ASSUME NEW s \in Sessions, Delay(s) PROVE EngineTypes'
    <2>1. pc' \in [Sessions -> Places]
      BY <1>8, Moves DEF Delay, Places
    <2> QED
      BY <1>8, <2>1 DEF Delay
  <1>9. ASSUME NEW s \in Sessions, Release(s) PROVE EngineTypes'
    <2>1. pc' \in [Sessions -> Places]
      BY <1>9, Moves DEF Release, Places
    <2> QED
      BY <1>9, <2>1 DEF Release
  <1>10. ASSUME NEW s \in Sessions, ClearRunning(s) PROVE EngineTypes'
    <2>1. pc' \in [Sessions -> Places]
      BY <1>10, Moves DEF ClearRunning, Places
    <2> QED
      BY <1>10, <2>1 DEF ClearRunning
  <1>11. ASSUME NEW s \in Sessions, Ended(s) PROVE EngineTypes'
    <2>1. pc' \in [Sessions -> Places]
      BY <1>11, Moves DEF Ended, Places
    <2> QED
      BY <1>11, <2>1 DEF Ended
  <1>12. ASSUME NEW s \in Sessions, DisposeToken(s) PROVE EngineTypes'
    <2>1. pc' \in [Sessions -> Places]
      BY <1>12, Moves DEF DisposeToken, Places
    <2> QED
      BY <1>12, <2>1 DEF DisposeToken
  <1>13. ASSUME NEW s \in Sessions, ForgetToken(s) PROVE EngineTypes'
    <2>1. pc' \in [Sessions -> Places]
      BY <1>13, Moves DEF ForgetToken, Return, Places
    <2> QED
      BY <1>13, <2>1 DEF ForgetToken, Return
  <1>22. ASSUME NEW s \in Sessions, CompareToken(s) PROVE EngineTypes'
    <2>1. pc' \in [Sessions -> Places]
      BY <1>22, Moves DEF CompareToken, Return, Places
    <2> QED
      BY <1>22, <2>1 DEF CompareToken, Return
  <1>14. ASSUME NEW s \in Sessions, Start(s) PROVE EngineTypes'
    <2>1. pc' \in [Sessions -> Places]
      BY <1>14, Moves DEF Start, TakesInput, Places
    <2> QED
      BY <1>14, <2>1 DEF Start, TakesInput
  <1>15. CASE Deliver
    BY <1>15 DEF Deliver
  <1>16. CASE Stop
    BY <1>16 DEF Stop, TakesInput
  <1>17. CASE CancelSession
    BY <1>17 DEF CancelSession
  <1>18. CASE Toggle
    BY <1>18 DEF Toggle, TakesInput
  <1>19. CASE DisposeAsync
    BY <1>19 DEF DisposeAsync
  <1>20. CASE DisposeWaits
    BY <1>20 DEF DisposeWaits
  <1>21. CASE UNCHANGED vars
    BY <1>21 DEF vars
  <1> QED
    BY <1>1, <1>2, <1>3, <1>4, <1>5, <1>6, <1>7, <1>8, <1>9, <1>10, <1>11, <1>12, <1>13, <1>14,
       <1>15, <1>16, <1>17, <1>18, <1>19, <1>20, <1>21, <1>22 DEF Next, RunStep, UiStep

\* of the commands and the UI thread,
LEMMA CommandTypesStep == SessionInv /\ [Next]_vars => CommandTypes'
  <1> SUFFICES ASSUME SessionInv, [Next]_vars PROVE CommandTypes'
    OBVIOUS
  <1> USE NoneIsNoSession DEF SessionInv, SessionTypes,
        windowsVars, engineVars, commandVars, viewVars, uiVars, CommandTypes, OnUiThread
  <1>1. CASE LockChanges
    BY <1>1 DEF LockChanges
  <1>2. CASE PulseFallsDue
    BY <1>2 DEF PulseFallsDue
  <1>3. ASSUME NEW s \in Sessions, Enter(s) PROVE CommandTypes'
    BY <1>3 DEF Enter
  <1>4. ASSUME NEW s \in Sessions, Check(s) PROVE CommandTypes'
    BY <1>4 DEF Check
  <1>5. ASSUME NEW s \in Sessions, Power(s) PROVE CommandTypes'
    BY <1>5 DEF Power
  <1>6. ASSUME NEW s \in Sessions, Pulse(s) PROVE CommandTypes'
    BY <1>6 DEF Pulse
  <1>7. ASSUME NEW s \in Sessions, Notify(s) PROVE CommandTypes'
    BY <1>7 DEF Notify
  <1>8. ASSUME NEW s \in Sessions, Delay(s) PROVE CommandTypes'
    BY <1>8 DEF Delay
  <1>9. ASSUME NEW s \in Sessions, Release(s) PROVE CommandTypes'
    BY <1>9 DEF Release
  <1>10. ASSUME NEW s \in Sessions, ClearRunning(s) PROVE CommandTypes'
    BY <1>10 DEF ClearRunning
  <1>11. ASSUME NEW s \in Sessions, Ended(s) PROVE CommandTypes'
    BY <1>11 DEF Ended
  <1>12. ASSUME NEW s \in Sessions, DisposeToken(s) PROVE CommandTypes'
    BY <1>12 DEF DisposeToken
  <1>13. ASSUME NEW s \in Sessions, ForgetToken(s) PROVE CommandTypes'
    BY <1>13 DEF ForgetToken, Return
  <1>22. ASSUME NEW s \in Sessions, CompareToken(s) PROVE CommandTypes'
    BY <1>22 DEF CompareToken, Return
  <1>14. ASSUME NEW s \in Sessions, Start(s) PROVE CommandTypes'
    BY <1>14 DEF Start, TakesInput
  <1>15. CASE Deliver
    BY <1>15 DEF Deliver
  <1>16. CASE Stop
    BY <1>16 DEF Stop, TakesInput
  <1>17. CASE CancelSession
    BY <1>17 DEF CancelSession
  <1>18. CASE Toggle
    BY <1>18 DEF Toggle, TakesInput
  <1>19. CASE DisposeAsync
    BY <1>19 DEF DisposeAsync
  <1>20. CASE DisposeWaits
    BY <1>20 DEF DisposeWaits
  <1>21. CASE UNCHANGED vars
    BY <1>21 DEF vars
  <1> QED
    BY <1>1, <1>2, <1>3, <1>4, <1>5, <1>6, <1>7, <1>8, <1>9, <1>10, <1>11, <1>12, <1>13, <1>14,
       <1>15, <1>16, <1>17, <1>18, <1>19, <1>20, <1>21, <1>22 DEF Next, RunStep, UiStep

\* and of the views.
LEMMA ViewTypesStep == SessionInv /\ [Next]_vars => ViewTypes'
  <1> SUFFICES ASSUME SessionInv, [Next]_vars PROVE ViewTypes'
    OBVIOUS
  <1> USE NoneIsNoSession DEF SessionInv, SessionTypes,
        windowsVars, engineVars, commandVars, viewVars, uiVars, ViewTypes
  <1>1. CASE LockChanges
    BY <1>1 DEF LockChanges
  <1>2. CASE PulseFallsDue
    BY <1>2 DEF PulseFallsDue
  <1>3. ASSUME NEW s \in Sessions, Enter(s) PROVE ViewTypes'
    BY <1>3 DEF Enter
  <1>4. ASSUME NEW s \in Sessions, Check(s) PROVE ViewTypes'
    BY <1>4 DEF Check
  <1>5. ASSUME NEW s \in Sessions, Power(s) PROVE ViewTypes'
    BY <1>5 DEF Power
  <1>6. ASSUME NEW s \in Sessions, Pulse(s) PROVE ViewTypes'
    BY <1>6 DEF Pulse
  <1>7. ASSUME NEW s \in Sessions, Notify(s) PROVE ViewTypes'
    <2>1. posted' \in Seq(BOOLEAN)
      BY <1>7, Posting DEF Notify, Post
    <2> QED
      BY <1>7, <2>1 DEF Notify
  <1>8. ASSUME NEW s \in Sessions, Delay(s) PROVE ViewTypes'
    BY <1>8 DEF Delay
  <1>9. ASSUME NEW s \in Sessions, Release(s) PROVE ViewTypes'
    BY <1>9 DEF Release
  <1>10. ASSUME NEW s \in Sessions, ClearRunning(s) PROVE ViewTypes'
    BY <1>10 DEF ClearRunning
  <1>11. ASSUME NEW s \in Sessions, Ended(s) PROVE ViewTypes'
    <2>1. posted' \in Seq(BOOLEAN)
      BY <1>11, Posting DEF Ended, Post
    <2> QED
      BY <1>11, <2>1 DEF Ended
  <1>12. ASSUME NEW s \in Sessions, DisposeToken(s) PROVE ViewTypes'
    BY <1>12 DEF DisposeToken
  <1>13. ASSUME NEW s \in Sessions, ForgetToken(s) PROVE ViewTypes'
    BY <1>13 DEF ForgetToken, Return
  <1>22. ASSUME NEW s \in Sessions, CompareToken(s) PROVE ViewTypes'
    BY <1>22 DEF CompareToken, Return
  <1>14. ASSUME NEW s \in Sessions, Start(s) PROVE ViewTypes'
    BY <1>14 DEF Start, TakesInput
  <1>15. CASE Deliver
    <2>1. posted' \in Seq(BOOLEAN) /\ isRunning' \in BOOLEAN /\ tray' \in BOOLEAN
      BY <1>15, Taking DEF Deliver
    <2>2. notices' = notices \/ notices' = notices + 1
      BY <1>15, Zenon DEF Deliver
    <2>3. UNCHANGED <<toggle, monitoring>>
      BY <1>15 DEF Deliver
    <2> QED
      BY <2>1, <2>2, <2>3
  <1>16. CASE Stop
    BY <1>16 DEF Stop, TakesInput
  <1>17. CASE CancelSession
    BY <1>17 DEF CancelSession
  <1>18. CASE Toggle
    BY <1>18 DEF Toggle, TakesInput
  <1>19. CASE DisposeAsync
    BY <1>19 DEF DisposeAsync
  <1>20. CASE DisposeWaits
    BY <1>20 DEF DisposeWaits
  <1>21. CASE UNCHANGED vars
    BY <1>21 DEF vars
  <1> QED
    BY <1>1, <1>2, <1>3, <1>4, <1>5, <1>6, <1>7, <1>8, <1>9, <1>10, <1>11, <1>12, <1>13, <1>14,
       <1>15, <1>16, <1>17, <1>18, <1>19, <1>20, <1>21, <1>22 DEF Next, RunStep, UiStep

\* Each step keeps one session active at most: only Start begins one, when nothing runs.
LEMMA OneActiveStep == SessionInv /\ [Next]_vars => OneActive'
  <1> SUFFICES ASSUME SessionInv, [Next]_vars PROVE OneActive'
    OBVIOUS
  <1> USE NoneIsNoSession DEF SessionInv, SessionTypes, EngineTypes, CommandTypes, ViewTypes,
        windowsVars, engineVars, commandVars, viewVars, uiVars, OneActive, InSession, Active, Held
  <1>1. CASE LockChanges
    BY <1>1 DEF LockChanges
  <1>2. CASE PulseFallsDue
    BY <1>2 DEF PulseFallsDue
  <1>3. ASSUME NEW s \in Sessions, Enter(s) PROVE OneActive'
    <2>1. pc[s] = "enter" /\ pc'[s] \in {"check", "completed"} /\ \A r \in Sessions \ {s} : pc'[r] = pc[r]
      BY <1>3, Moves DEF Enter, Places
    <2>2. last = s /\ cancellation \in {last, None} /\ running = FALSE
      BY <1>3, <2>1 DEF Enter
    <2>3. running' = TRUE /\ pc'[s] = "check" /\ UNCHANGED <<rejected, uiCall, commandVars>>
      BY <1>3, <2>1, <2>2, Moves DEF Enter, Places
    <2> QED
      BY <2>1, <2>2, <2>3
  <1>4. ASSUME NEW s \in Sessions, Check(s) PROVE OneActive'
    <2>1. pc[s] = "check" /\ pc'[s] \in {"power", "release"} /\ \A r \in Sessions \ {s} : pc'[r] = pc[r]
      BY <1>4, Moves DEF Check, Places
    <2> QED
      BY <1>4, <2>1 DEF Check
  <1>5. ASSUME NEW s \in Sessions, Power(s) PROVE OneActive'
    <2>1. pc[s] = "power" /\ pc'[s] \in {"pulse", "release"} /\ \A r \in Sessions \ {s} : pc'[r] = pc[r]
      BY <1>5, Moves DEF Power, Places
    <2> QED
      BY <1>5, <2>1 DEF Power
  <1>6. ASSUME NEW s \in Sessions, Pulse(s) PROVE OneActive'
    <2>1. pc[s] = "pulse" /\ pc'[s] \in {"notify", "release"} /\ \A r \in Sessions \ {s} : pc'[r] = pc[r]
      BY <1>6, Moves DEF Pulse, Places
    <2> QED
      BY <1>6, <2>1 DEF Pulse
  <1>7. ASSUME NEW s \in Sessions, Notify(s) PROVE OneActive'
    <2>1. pc[s] = "notify" /\ pc'[s] \in {"delay"} /\ \A r \in Sessions \ {s} : pc'[r] = pc[r]
      BY <1>7, Moves DEF Notify, Places
    <2> QED
      BY <1>7, <2>1 DEF Notify, OnUiThread
  <1>8. ASSUME NEW s \in Sessions, Delay(s) PROVE OneActive'
    <2>1. pc[s] = "delay" /\ pc'[s] \in {"check", "release"} /\ \A r \in Sessions \ {s} : pc'[r] = pc[r]
      BY <1>8, Moves DEF Delay, Places
    <2> QED
      BY <1>8, <2>1 DEF Delay
  <1>9. ASSUME NEW s \in Sessions, Release(s) PROVE OneActive'
    <2>1. pc[s] = "release" /\ pc'[s] \in {"clearRunning"} /\ \A r \in Sessions \ {s} : pc'[r] = pc[r]
      BY <1>9, Moves DEF Release, Places
    <2> QED
      BY <1>9, <2>1 DEF Release
  <1>10. ASSUME NEW s \in Sessions, ClearRunning(s) PROVE OneActive'
    <2>1. pc[s] = "clearRunning" /\ pc'[s] \in {"ended"} /\ \A r \in Sessions \ {s} : pc'[r] = pc[r]
      BY <1>10, Moves DEF ClearRunning, Places
    <2> QED
      BY <1>10, <2>1 DEF ClearRunning
  <1>11. ASSUME NEW s \in Sessions, Ended(s) PROVE OneActive'
    <2>1. pc[s] = "ended" /\ pc'[s] \in {"completed"} /\ \A r \in Sessions \ {s} : pc'[r] = pc[r]
      BY <1>11, Moves DEF Ended, Places
    <2> QED
      BY <1>11, <2>1 DEF Ended
  <1>12. ASSUME NEW s \in Sessions, DisposeToken(s) PROVE OneActive'
    <2>1. pc[s] = "completed" /\ pc'[s] \in {"clear"} /\ \A r \in Sessions \ {s} : pc'[r] = pc[r]
      BY <1>12, Moves DEF DisposeToken, Places
    <2> QED
      BY <1>12, <2>1 DEF DisposeToken, OnUiThread
  <1>13. ASSUME NEW s \in Sessions, ForgetToken(s) PROVE OneActive'
    <2>1. pc[s] = "forget" /\ pc'[s] \in {"done"} /\ \A r \in Sessions \ {s} : pc'[r] = pc[r]
      BY <1>13, Moves DEF ForgetToken, Return, Places
    <2>2. uiCall' = uiCall \/ (uiCall = "start" /\ last = s /\ uiCall' = "free")
      BY <1>13 DEF ForgetToken, Return, OnUiThread
    <2>3. UNCHANGED <<running, rejected, token, runTask, last, overlapped>> /\ cancellation' = None
      BY <1>13 DEF ForgetToken
    <2>4. \A r \in Sessions : pc'[r] \in Active => r # s /\ pc[r] \in Active /\ last = r
      BY <2>1
    <2> QED
      BY <2>1, <2>2, <2>3, <2>4
  <1>22. ASSUME NEW s \in Sessions, CompareToken(s) PROVE OneActive'
    <2>1. pc[s] = "clear" /\ pc'[s] \in {"forget", "done"} /\ \A r \in Sessions \ {s} : pc'[r] = pc[r]
      BY <1>22, Moves DEF CompareToken, Return, Places
    <2>2. uiCall' = uiCall \/ (uiCall = "start" /\ last = s /\ uiCall' = "free")
      BY <1>22 DEF CompareToken, Return, OnUiThread
    <2>3. UNCHANGED <<running, rejected, token, runTask, last, overlapped, cancellation>>
      BY <1>22 DEF CompareToken
    <2>4. \A r \in Sessions : pc'[r] \in Active => r # s /\ pc[r] \in Active /\ last = r
      BY <2>1
    <2>5. pc'[s] = "forget" => cancellation = s /\ last = s
      BY <1>22, <2>1 DEF CompareToken, Return, Goto
    <2>6. cancellation = s => pc'[s] = "forget"
      BY <1>22, <2>1 DEF CompareToken, Return, Goto
    <2> QED
      BY <2>1, <2>2, <2>3, <2>4, <2>5, <2>6
  <1>14. ASSUME NEW s \in Sessions, Start(s) PROVE OneActive'
    <2>1. \A r \in Sessions : pc[r] \notin Active
      BY <1>14, NothingRuns DEF Start
    <2>2. pc'[s] = "enter" /\ \A r \in Sessions \ {s} : pc'[r] = pc[r]
      BY <1>14, Moves DEF Start, Places
    <2> QED
      BY <1>14, <2>1, <2>2 DEF Start, TakesInput
  <1>15. CASE Deliver
    BY <1>15 DEF Deliver
  <1>16. CASE Stop
    BY <1>16 DEF Stop, TakesInput
  <1>17. CASE CancelSession
    BY <1>17 DEF CancelSession
  <1>18. CASE Toggle
    BY <1>18 DEF Toggle, TakesInput
  <1>19. CASE DisposeAsync
    BY <1>19 DEF DisposeAsync
  <1>20. CASE DisposeWaits
    BY <1>20 DEF DisposeWaits
  <1>21. CASE UNCHANGED vars
    BY <1>21 DEF vars
  <1> QED
    BY <1>1, <1>2, <1>3, <1>4, <1>5, <1>6, <1>7, <1>8, <1>9, <1>10, <1>11, <1>12, <1>13, <1>14,
       <1>15, <1>16, <1>17, <1>18, <1>19, <1>20, <1>21, <1>22 DEF Next, RunStep, UiStep

\* Each step keeps the power request and the toggle with the session that runs.
LEMMA PowerStep == SessionInv /\ [Next]_vars => PowerInv'
  <1> SUFFICES ASSUME SessionInv, [Next]_vars PROVE PowerInv'
    OBVIOUS
  <1> USE NoneIsNoSession DEF SessionInv, SessionTypes, EngineTypes, CommandTypes, ViewTypes,
        windowsVars, engineVars, commandVars, viewVars, uiVars,
        Goto, PowerInv, OneActive, Held, Active, ViewInv, Shown, InSession
  <1>1. CASE LockChanges
    BY <1>1 DEF LockChanges
  <1>2. CASE PulseFallsDue
    BY <1>2 DEF PulseFallsDue
  <1>3. ASSUME NEW s \in Sessions, Enter(s) PROVE PowerInv'
    BY <1>3 DEF Enter
  <1>4. ASSUME NEW s \in Sessions, Check(s) PROVE PowerInv'
    BY <1>4 DEF Check
  <1>5. ASSUME NEW s \in Sessions, Power(s) PROVE PowerInv'
    BY <1>5 DEF Power
  <1>6. ASSUME NEW s \in Sessions, Pulse(s) PROVE PowerInv'
    BY <1>6 DEF Pulse
  <1>7. ASSUME NEW s \in Sessions, Notify(s) PROVE PowerInv'
    BY <1>7 DEF Notify
  <1>8. ASSUME NEW s \in Sessions, Delay(s) PROVE PowerInv'
    BY <1>8 DEF Delay
  <1>9. ASSUME NEW s \in Sessions, Release(s) PROVE PowerInv'
    BY <1>9 DEF Release
  <1>10. ASSUME NEW s \in Sessions, ClearRunning(s) PROVE PowerInv'
    BY <1>10 DEF ClearRunning
  <1>11. ASSUME NEW s \in Sessions, Ended(s) PROVE PowerInv'
    BY <1>11 DEF Ended
  <1>12. ASSUME NEW s \in Sessions, DisposeToken(s) PROVE PowerInv'
    BY <1>12 DEF DisposeToken
  <1>13. ASSUME NEW s \in Sessions, ForgetToken(s) PROVE PowerInv'
    BY <1>13 DEF ForgetToken, Return
  <1>22. ASSUME NEW s \in Sessions, CompareToken(s) PROVE PowerInv'
    BY <1>22 DEF CompareToken, Return
  <1>14. ASSUME NEW s \in Sessions, Start(s) PROVE PowerInv'
    BY <1>14 DEF Start, TakesInput
  <1>15. CASE Deliver
    BY <1>15 DEF Deliver
  <1>16. CASE Stop
    BY <1>16 DEF Stop, TakesInput
  <1>17. CASE CancelSession
    BY <1>17 DEF CancelSession
  <1>18. CASE Toggle
    BY <1>18 DEF Toggle, TakesInput
  <1>19. CASE DisposeAsync
    BY <1>19 DEF DisposeAsync
  <1>20. CASE DisposeWaits
    BY <1>20 DEF DisposeWaits
  <1>21. CASE UNCHANGED vars
    BY <1>21 DEF vars
  <1> QED
    BY <1>1, <1>2, <1>3, <1>4, <1>5, <1>6, <1>7, <1>8, <1>9, <1>10, <1>11, <1>12, <1>13, <1>14,
       <1>15, <1>16, <1>17, <1>18, <1>19, <1>20, <1>21, <1>22 DEF Next, RunStep, UiStep

\* Each step keeps late pulses to the one that was checked before the lock.
LEMMA PulseStep == SessionInv /\ [Next]_vars => PulseInv'
  <1> SUFFICES ASSUME SessionInv, [Next]_vars PROVE PulseInv'
    OBVIOUS
  <1> USE NoneIsNoSession DEF SessionInv, SessionTypes, EngineTypes, CommandTypes, ViewTypes,
        windowsVars, engineVars, commandVars, viewVars, uiVars, Goto, PulseInv
  <1>1. CASE LockChanges
    BY <1>1 DEF LockChanges
  <1>2. CASE PulseFallsDue
    BY <1>2 DEF PulseFallsDue
  <1>3. ASSUME NEW s \in Sessions, Enter(s) PROVE PulseInv'
    BY <1>3 DEF Enter
  <1>4. ASSUME NEW s \in Sessions, Check(s) PROVE PulseInv'
    BY <1>4 DEF Check
  <1>5. ASSUME NEW s \in Sessions, Power(s) PROVE PulseInv'
    BY <1>5 DEF Power
  <1>6. ASSUME NEW s \in Sessions, Pulse(s) PROVE PulseInv'
    BY <1>6 DEF Pulse
  <1>7. ASSUME NEW s \in Sessions, Notify(s) PROVE PulseInv'
    BY <1>7 DEF Notify
  <1>8. ASSUME NEW s \in Sessions, Delay(s) PROVE PulseInv'
    BY <1>8 DEF Delay
  <1>9. ASSUME NEW s \in Sessions, Release(s) PROVE PulseInv'
    BY <1>9 DEF Release
  <1>10. ASSUME NEW s \in Sessions, ClearRunning(s) PROVE PulseInv'
    BY <1>10 DEF ClearRunning
  <1>11. ASSUME NEW s \in Sessions, Ended(s) PROVE PulseInv'
    BY <1>11 DEF Ended
  <1>12. ASSUME NEW s \in Sessions, DisposeToken(s) PROVE PulseInv'
    BY <1>12 DEF DisposeToken
  <1>13. ASSUME NEW s \in Sessions, ForgetToken(s) PROVE PulseInv'
    BY <1>13 DEF ForgetToken, Return
  <1>22. ASSUME NEW s \in Sessions, CompareToken(s) PROVE PulseInv'
    BY <1>22 DEF CompareToken, Return
  <1>14. ASSUME NEW s \in Sessions, Start(s) PROVE PulseInv'
    BY <1>14 DEF Start, TakesInput
  <1>15. CASE Deliver
    BY <1>15 DEF Deliver
  <1>16. CASE Stop
    BY <1>16 DEF Stop, TakesInput
  <1>17. CASE CancelSession
    BY <1>17 DEF CancelSession
  <1>18. CASE Toggle
    BY <1>18 DEF Toggle, TakesInput
  <1>19. CASE DisposeAsync
    BY <1>19 DEF DisposeAsync
  <1>20. CASE DisposeWaits
    BY <1>20 DEF DisposeWaits
  <1>21. CASE UNCHANGED vars
    BY <1>21 DEF vars
  <1> QED
    BY <1>1, <1>2, <1>3, <1>4, <1>5, <1>6, <1>7, <1>8, <1>9, <1>10, <1>11, <1>12, <1>13, <1>14,
       <1>15, <1>16, <1>17, <1>18, <1>19, <1>20, <1>21, <1>22 DEF Next, RunStep, UiStep

\* Each step keeps the end of a session the last thing posted.
LEMMA ViewStep == SessionInv /\ [Next]_vars => ViewInv'
  <1> SUFFICES ASSUME SessionInv, [Next]_vars PROVE ViewInv'
    OBVIOUS
  <1> USE NoneIsNoSession DEF SessionInv, SessionTypes, EngineTypes, CommandTypes, ViewTypes,
        windowsVars, engineVars, commandVars, viewVars, uiVars, Goto, ViewInv, Shown, OneActive, InSession, Active
  <1>1. CASE LockChanges
    BY <1>1 DEF LockChanges
  <1>2. CASE PulseFallsDue
    BY <1>2 DEF PulseFallsDue
  <1>3. ASSUME NEW s \in Sessions, Enter(s) PROVE ViewInv'
    <2>1. pc[s] = "enter" /\ ~running
      BY <1>3 DEF Enter, Held
    <2>2. pc'[s] = "check" /\ \A r \in Sessions \ {s} : pc'[r] = pc[r]
      BY <1>3, <2>1, Moves DEF Enter, Places
    <2> QED
      BY <1>3, <2>1, <2>2 DEF Enter
  <1>4. ASSUME NEW s \in Sessions, Check(s) PROVE ViewInv'
    BY <1>4 DEF Check
  <1>5. ASSUME NEW s \in Sessions, Power(s) PROVE ViewInv'
    BY <1>5 DEF Power
  <1>6. ASSUME NEW s \in Sessions, Pulse(s) PROVE ViewInv'
    BY <1>6 DEF Pulse
  <1>7. ASSUME NEW s \in Sessions, Notify(s) PROVE ViewInv'
    <2>1. pc[s] = "notify" /\ pc'[s] \in {"delay"} /\ \A r \in Sessions \ {s} : pc'[r] = pc[r]
      BY <1>7, Moves DEF Notify, Places
    <2>2. CASE disposed
      BY <1>7, <2>1, <2>2 DEF Notify, Post, OnUiThread
    <2>3. CASE ~disposed
      <3>1. posted' = Append(posted, TRUE) /\ uiCall' # "start"
        BY <1>7, <2>3 DEF Notify, Post, OnUiThread
      <3>2. Shown' = TRUE /\ posted' # <<>>
        BY <3>1, Posting
      <3>0. isRunning = TRUE
        BY <2>1, <2>3
      <3>3. \A i \in 1 .. Len(posted') : i < Len(posted') => posted'[i] = TRUE
        BY <1>7, <2>1, <2>3, <3>1, Posting DEF Notify
      <3> QED
        BY <1>7, <2>1, <2>3, <3>0, <3>1, <3>2, <3>3 DEF Notify, OnUiThread
    <2> QED
      BY <2>2, <2>3
  <1>8. ASSUME NEW s \in Sessions, Delay(s) PROVE ViewInv'
    BY <1>8 DEF Delay
  <1>9. ASSUME NEW s \in Sessions, Release(s) PROVE ViewInv'
    BY <1>9 DEF Release
  <1>10. ASSUME NEW s \in Sessions, ClearRunning(s) PROVE ViewInv'
    BY <1>10 DEF ClearRunning
  <1>11. ASSUME NEW s \in Sessions, Ended(s) PROVE ViewInv'
    <2>1. pc[s] = "ended" /\ pc'[s] \in {"completed"} /\ \A r \in Sessions \ {s} : pc'[r] = pc[r]
      BY <1>11, Moves DEF Ended, Places
    <2>2. CASE disposed
      BY <1>11, <2>1, <2>2 DEF Ended, Post
    <2>3. CASE ~disposed
      <3>1. posted' = Append(posted, FALSE)
        BY <1>11, <2>3 DEF Ended, Post
      <3>2. Shown' = FALSE /\ posted' # <<>>
        BY <3>1, Posting
      <3>0. isRunning = TRUE
        BY <2>1, <2>3
      <3>3. \A i \in 1 .. Len(posted') : i < Len(posted') => posted'[i] = TRUE
        BY <1>11, <2>1, <2>3, <3>1, Posting DEF Ended
      <3>4. ~InSession'
        BY <1>11, <2>1 DEF Ended
      <3> QED
        BY <1>11, <2>3, <3>0, <3>1, <3>2, <3>3, <3>4 DEF Ended
    <2> QED
      BY <2>2, <2>3
  <1>12. ASSUME NEW s \in Sessions, DisposeToken(s) PROVE ViewInv'
    <2>1. pc[s] = "completed" /\ pc'[s] \in {"clear"} /\ \A r \in Sessions \ {s} : pc'[r] = pc[r]
      BY <1>12, Moves DEF DisposeToken, Places
    <2>2. InSession' = InSession /\ Shown' = Shown
      BY <1>12, <2>1 DEF DisposeToken
    <2> HIDE DEF InSession, Shown, Goto
    <2> QED
      BY <1>12, <2>2 DEF DisposeToken
  <1>13. ASSUME NEW s \in Sessions, ForgetToken(s) PROVE ViewInv'
    <2>1. pc[s] = "forget" /\ pc'[s] \in {"done"} /\ \A r \in Sessions \ {s} : pc'[r] = pc[r]
      BY <1>13, Moves DEF ForgetToken, Return, Places
    <2>2. InSession' = InSession /\ Shown' = Shown
      BY <1>13, <2>1 DEF ForgetToken, Return
    <2>3. (InSession => uiCall' = uiCall) /\ (uiCall' # uiCall => uiCall = "start" /\ uiCall' = "free")
      BY <1>13, <2>1 DEF ForgetToken, Return, OnUiThread
    <2>4. UNCHANGED <<tray, isRunning, posted, disposed>>
      BY <1>13 DEF ForgetToken, Return
    <2> HIDE DEF InSession, Shown, Goto
    <2> QED
      BY <2>2, <2>3, <2>4
  <1>22. ASSUME NEW s \in Sessions, CompareToken(s) PROVE ViewInv'
    <2>1. pc[s] = "clear" /\ pc'[s] \in {"forget", "done"} /\ \A r \in Sessions \ {s} : pc'[r] = pc[r]
      BY <1>22, Moves DEF CompareToken, Return, Places
    <2>2. InSession' = InSession /\ Shown' = Shown
      BY <1>22, <2>1 DEF CompareToken, Return
    <2>3. (InSession => uiCall' = uiCall) /\ (uiCall' # uiCall => uiCall = "start" /\ uiCall' = "free")
      BY <1>22, <2>1 DEF CompareToken, Return, OnUiThread
    <2>4. UNCHANGED <<tray, isRunning, posted, disposed>>
      BY <1>22 DEF CompareToken, Return
    <2> HIDE DEF InSession, Shown, Goto
    <2> QED
      BY <2>2, <2>3, <2>4
  <1>14. ASSUME NEW s \in Sessions, Start(s) PROVE ViewInv'
    <2>1. \A r \in Sessions : pc[r] \notin Active
      BY <1>14, NothingRuns DEF Start
    <2>2. pc'[s] = "enter" /\ \A r \in Sessions \ {s} : pc'[r] = pc[r]
      BY <1>14, Moves DEF Start, Places
    <2> QED
      BY <1>14, <2>1, <2>2 DEF Start, TakesInput
  <1>15. CASE Deliver
    <2> DEFINE n == Len(posted)
    <2>1. /\ posted' = Tail(posted) /\ isRunning' = posted[1] /\ tray' = posted[1] /\ posted[1] \in BOOLEAN
          /\ n \in Nat \ {0} /\ Len(posted') = n - 1 /\ \A i \in 1 .. n - 1 : posted'[i] = posted[i + 1]
          /\ posted' = <<>> <=> n = 1
      BY <1>15, Taking DEF Deliver
    <2>2. disposed = FALSE /\ uiCall = "free" /\ UNCHANGED <<pc, last, uiCall, disposed>>
      BY <1>15 DEF Deliver
    <2>3. Shown = posted[n] /\ Shown' = posted[n]
      <3>1. n = 1 => posted' = <<>> /\ tray' = posted[n]
        BY <2>1
      <3>2. n # 1 => posted' # <<>> /\ posted'[Len(posted')] = posted[n]
        BY <2>1
      <3>3. posted # <<>>
        BY <1>15 DEF Deliver
      <3> QED
        BY <3>1, <3>2, <3>3
    <2>4. n > 1 => posted[1] = TRUE
      BY <2>1
    <2>5. \A i \in 1 .. Len(posted') : i < Len(posted') => posted'[i] = TRUE
      BY <2>1
    <2>6. InSession' = InSession
      BY <2>2
    <2> HIDE DEF n, Shown, InSession
    <2> QED
      BY <2>1, <2>2, <2>3, <2>4, <2>5, <2>6
  <1>16. CASE Stop
    BY <1>16 DEF Stop, TakesInput
  <1>17. CASE CancelSession
    BY <1>17 DEF CancelSession
  <1>18. CASE Toggle
    BY <1>18 DEF Toggle, TakesInput
  <1>19. CASE DisposeAsync
    BY <1>19 DEF DisposeAsync
  <1>20. CASE DisposeWaits
    BY <1>20 DEF DisposeWaits
  <1>21. CASE UNCHANGED vars
    BY <1>21 DEF vars
  <1> QED
    BY <1>1, <1>2, <1>3, <1>4, <1>5, <1>6, <1>7, <1>8, <1>9, <1>10, <1>11, <1>12, <1>13, <1>14,
       <1>15, <1>16, <1>17, <1>18, <1>19, <1>20, <1>21, <1>22 DEF Next, RunStep, UiStep

\* What is counted.
LEMMA FinishedIsFinite ==
  IsFiniteSet(Finished) /\ Cardinality(Finished) \in Nat /\ Cardinality(Finished) <= MaxSessions
  <1>1. IsFiniteSet(Sessions) /\ Cardinality(Sessions) = MaxSessions
    BY SessionAssumption, FS_Interval DEF Sessions
  <1> QED
    BY <1>1, FS_Subset, FS_CardinalityType, SessionAssumption DEF Finished

\* Each step keeps the count of the announcements: Ended posts one, Deliver makes it.
LEMMA CountStep == SessionInv /\ [Next]_vars => CountInv'
  <1> SUFFICES ASSUME SessionInv, [Next]_vars PROVE CountInv'
    OBVIOUS
  <1> USE NoneIsNoSession DEF SessionInv, SessionTypes, CommandTypes, ViewTypes, CountInv
  <1>0. pc \in [Sessions -> Places] /\ Cardinality(Finished) \in Nat /\ Pending \in {0, 1}
    BY FinishedIsFinite DEF EngineTypes, Pending
  <1> HIDE DEF Pending
  <1>1. ASSUME Finished' = Finished, Pending' = Pending, UNCHANGED <<notices, disposed>> PROVE CountInv'
    BY <1>0, <1>1
  <1>2. ASSUME NEW s \in Sessions, NEW place \in Places, Goto(s, place), pc[s] \in Over <=> place \in Over
        PROVE  Finished' = Finished
    BY <1>0, <1>2, Moves DEF Finished
  <1>3. ASSUME UNCHANGED pc PROVE Finished' = Finished
    BY <1>3 DEF Finished
  <1>4. ASSUME UNCHANGED posted PROVE Pending' = Pending
    BY <1>4 DEF Pending
  <1>5. ASSUME NEW s \in Sessions, NEW place \in Over, Goto(s, place), pc[s] \notin Over
        PROVE  Cardinality(Finished') = Cardinality(Finished) + 1
    <2>1. Finished' = Finished \cup {s} /\ s \notin Finished
      BY <1>0, <1>5, Moves DEF Finished, Over, Places
    <2> QED
      BY <2>1, FS_AddElement, FinishedIsFinite
  <1>6. CASE LockChanges
    BY <1>6, <1>1, <1>3, <1>4 DEF LockChanges, commandVars, viewVars, uiVars
  <1>7. CASE PulseFallsDue
    BY <1>7, <1>1, <1>3, <1>4 DEF PulseFallsDue, commandVars, viewVars, uiVars
  <1>8. CASE Stop
    BY <1>8, <1>1, <1>3, <1>4 DEF Stop, commandVars, viewVars, uiVars
  <1>9. CASE CancelSession
    BY <1>9, <1>1, <1>3, <1>4 DEF CancelSession, commandVars, viewVars, uiVars
  <1>10. CASE Toggle
    BY <1>10, <1>1, <1>3, <1>4 DEF Toggle, commandVars, viewVars, uiVars
  <1>11. ASSUME NEW s \in Sessions, Check(s) PROVE CountInv'
    <2>1. Finished' = Finished
      BY <1>11, <1>2 DEF Check, Over, Places
    <2> QED
      BY <1>11, <2>1, <1>1, <1>4 DEF Check, viewVars, uiVars
  <1>12. ASSUME NEW s \in Sessions, Power(s) PROVE CountInv'
    <2>1. Finished' = Finished
      BY <1>12, <1>2 DEF Power, Over, Places
    <2> QED
      BY <1>12, <2>1, <1>1, <1>4 DEF Power, viewVars, uiVars
  <1>13. ASSUME NEW s \in Sessions, Pulse(s) PROVE CountInv'
    <2>1. Finished' = Finished
      BY <1>13, <1>2 DEF Pulse, Over, Places
    <2> QED
      BY <1>13, <2>1, <1>1, <1>4 DEF Pulse, viewVars, uiVars
  <1>14. ASSUME NEW s \in Sessions, Delay(s) PROVE CountInv'
    <2>1. Finished' = Finished
      BY <1>14, <1>2 DEF Delay, Over, Places
    <2> QED
      BY <1>14, <2>1, <1>1, <1>4 DEF Delay, viewVars, uiVars
  <1>15. ASSUME NEW s \in Sessions, Release(s) PROVE CountInv'
    <2>1. Finished' = Finished
      BY <1>15, <1>2 DEF Release, Over, Places
    <2> QED
      BY <1>15, <2>1, <1>1, <1>4 DEF Release, viewVars, uiVars
  <1>16. ASSUME NEW s \in Sessions, ClearRunning(s) PROVE CountInv'
    <2>1. Finished' = Finished
      BY <1>16, <1>2 DEF ClearRunning, Over, Places
    <2> QED
      BY <1>16, <2>1, <1>1, <1>4 DEF ClearRunning, viewVars, uiVars
  <1>17. ASSUME NEW s \in Sessions, DisposeToken(s) PROVE CountInv'
    <2>1. Finished' = Finished
      BY <1>17, <1>2 DEF DisposeToken, Over, Places
    <2> QED
      BY <1>17, <2>1, <1>1, <1>4 DEF DisposeToken, viewVars, uiVars
  <1>18. ASSUME NEW s \in Sessions, ForgetToken(s) PROVE CountInv'
    <2>1. Finished' = Finished
      BY <1>18, <1>2 DEF ForgetToken, Return, Over, Places
    <2> QED
      BY <1>18, <2>1, <1>1, <1>4 DEF ForgetToken, Return, viewVars, uiVars
  <1>27. ASSUME NEW s \in Sessions, CompareToken(s) PROVE CountInv'
    <2>1. Finished' = Finished
      BY <1>27, <1>2 DEF CompareToken, Return, Over, Places
    <2> QED
      BY <1>27, <2>1, <1>1, <1>4 DEF CompareToken, Return, viewVars, uiVars
  <1>19. ASSUME NEW s \in Sessions, Enter(s) PROVE CountInv'
    <2>1. ~running
      BY <1>19 DEF Enter, OneActive, Active, Held
    <2>2. Finished' = Finished
      BY <1>19, <2>1, <1>2 DEF Enter, Over, Places
    <2> QED
      BY <1>19, <2>2, <1>1, <1>4 DEF Enter, viewVars, uiVars
  <1>20. ASSUME NEW s \in Sessions, Start(s) PROVE CountInv'
    <2>1. Finished' = Finished
      BY <1>20, <1>2 DEF Start, Over, Places
    <2> QED
      BY <1>20, <2>1, <1>1, <1>4 DEF Start
  <1>21. ASSUME NEW s \in Sessions, Notify(s) PROVE CountInv'
    <2>1. Finished' = Finished
      BY <1>21, <1>2 DEF Notify, Over, Places
    <2>2. UNCHANGED <<notices, disposed>>
      BY <1>21 DEF Notify, viewVars
    <2>3. Pending' = Pending
      <3>1. CASE disposed
        BY <1>21, <3>1, <1>4 DEF Notify, Post
      <3>2. CASE ~disposed
        <4>1. posted' = Append(posted, TRUE) /\ InSession
          BY <1>21, <3>2 DEF Notify, Post, OneActive, InSession, Active
        <4>2. Pending' = 0
          BY <4>1, Posting DEF Pending
        <4>3. Pending = 0
          BY <3>2, <4>1 DEF Pending, ViewInv, Shown
        <4> QED
          BY <4>2, <4>3
      <3> QED
        BY <3>1, <3>2
    <2> QED
      BY <2>1, <2>2, <2>3, <1>1
  <1>22. ASSUME NEW s \in Sessions, Ended(s) PROVE CountInv'
    <2>1. Cardinality(Finished') = Cardinality(Finished) + 1
      BY <1>22, <1>5 DEF Ended, Over, Places
    <2>2. UNCHANGED <<notices, disposed>>
      BY <1>22 DEF Ended, viewVars, uiVars
    <2>3. CASE disposed
      BY <1>22, <1>0, <1>4, <2>1, <2>2, <2>3 DEF Ended, Post
    <2>4. CASE ~disposed
      <3>1. posted' = Append(posted, FALSE) /\ InSession
        BY <1>22, <2>4 DEF Ended, Post, OneActive, InSession, Active
      <3>2. Pending' = 1
        BY <3>1, Posting DEF Pending
      <3>3. Pending = 0
        BY <2>4, <3>1 DEF Pending, ViewInv, Shown
      <3> QED
        BY <1>0, <2>1, <2>2, <2>4, <3>2, <3>3
    <2> QED
      BY <2>3, <2>4
  <1>23. CASE Deliver
    <2>1. Finished' = Finished /\ disposed = FALSE /\ disposed' = FALSE
      BY <1>23, <1>3 DEF Deliver, uiVars, ViewInv
    <2>2. /\ posted' = Tail(posted) /\ posted # <<>> /\ Head(posted) = posted[1] /\ posted[1] \in BOOLEAN
          /\ Len(posted) \in Nat \ {0} /\ Len(posted') = Len(posted) - 1
          /\ \A i \in 1 .. Len(posted) - 1 : posted'[i] = posted[i + 1]
          /\ posted' = <<>> <=> Len(posted) = 1
      BY <1>23, Taking DEF Deliver
    <2>3. isRunning = TRUE
      BY <1>23, <2>1, <2>2 DEF ViewInv
    <2>4. CASE posted[1] = TRUE
      <3>1. notices' = notices
        BY <1>23, <2>2, <2>4 DEF Deliver
      <3>2. CASE Len(posted) = 1
        BY <1>0, <2>1, <2>2, <2>4, <3>1, <3>2 DEF Pending
      <3>3. CASE Len(posted) # 1
        <4>1. posted' # <<>> /\ posted'[Len(posted')] = posted[Len(posted)]
          BY <2>2, <3>3
        <4>2. Pending' = Pending
          BY <2>2, <4>1 DEF Pending
        <4> QED
          BY <2>1, <3>1, <4>2, <1>1
      <3> QED
        BY <3>2, <3>3
    <2>5. CASE posted[1] = FALSE
      <3>1. notices' = notices + 1
        BY <1>23, <2>2, <2>3, <2>5 DEF Deliver
      <3>2. Len(posted) = 1
        BY <2>2, <2>5 DEF ViewInv
      <3>3. Pending = 1 /\ Pending' = 0
        BY <2>2, <2>5, <3>2 DEF Pending
      <3> QED
        BY <1>0, <2>1, <3>1, <3>3
    <2> QED
      BY <2>2, <2>4, <2>5
  <1>24. CASE DisposeAsync
    <2>1. Finished' = Finished /\ Pending' = Pending /\ notices' = notices /\ disposed' \in {disposed, TRUE}
      BY <1>24, <1>3, <1>4 DEF DisposeAsync, viewVars
    <2> QED
      BY <1>0, <2>1
  <1>25. CASE DisposeWaits
    <2>1. Finished' = Finished /\ Pending' = Pending /\ notices' = notices /\ disposed' \in {disposed, TRUE}
      BY <1>25, <1>3, <1>4 DEF DisposeWaits, viewVars
    <2> QED
      BY <1>0, <2>1
  <1>26. CASE UNCHANGED vars
    BY <1>26, <1>1, <1>3, <1>4 DEF vars, viewVars, uiVars
  <1> QED
    BY <1>6, <1>7, <1>8, <1>9, <1>10, <1>11, <1>12, <1>13, <1>14, <1>15, <1>16, <1>17, <1>18,
       <1>19, <1>20, <1>21, <1>22, <1>23, <1>24, <1>25, <1>26, <1>27 DEF Next, RunStep, UiStep

-------------------------------------------------------------------------------

LEMMA SessionInitInv == Init => SessionInv
  <1> SUFFICES ASSUME Init PROVE SessionInv
    OBVIOUS
  <1> USE NoneIsNoSession DEF Init
  <1>1. SessionTypes
    BY EmptySeq DEF SessionTypes, EngineTypes, CommandTypes, ViewTypes, Places
  <1>2. OneActive /\ PowerInv /\ PulseInv
    BY DEF OneActive, PowerInv, PulseInv, InSession, Active, Held
  <1>3. ViewInv
    BY EmptySeq DEF ViewInv, InSession, Shown
  <1>4. Finished = {} /\ Pending = 0
    BY DEF Finished, Pending, Over
  <1>5. CountInv
    BY <1>4, FS_EmptySet DEF CountInv
  <1> QED
    BY <1>1, <1>2, <1>3, <1>5 DEF SessionInv

LEMMA SessionStep == SessionInv /\ [Next]_vars => SessionInv'
  BY EngineTypesStep, CommandTypesStep, ViewTypesStep, OneActiveStep, PowerStep, PulseStep,
     ViewStep, CountStep
     DEF SessionInv, SessionTypes

LEMMA SessionInvariant == Spec => []SessionInv
  BY SessionInitInv, SessionStep, PTL DEF Spec

\* The types of the session, its commands and its views; no end of a session is announced twice.
THEOREM SessionTypeCorrect == Spec => []TypeOK
  <1>1. ASSUME SessionInv PROVE notices \in 0 .. MaxSessions
    BY <1>1, FinishedIsFinite, SessionAssumption DEF SessionInv, SessionTypes, ViewTypes, CountInv, Pending
  <1>2. SessionInv => TypeOK
    BY <1>1 DEF SessionInv, SessionTypes, EngineTypes, CommandTypes, ViewTypes, TypeOK
  <1> QED
    BY SessionInvariant, <1>2, PTL

\* The power request is open only while a session runs, the exit leaves neither behind, and a
\* locked session gets at most the one pulse that was already checked.
THEOREM PowerIsHeld == Spec => []PowerHeld
  <1>1. ASSUME SessionInv PROVE PowerHeld
    <2>1. PowerOnlyInSession
      BY <1>1 DEF SessionInv, SessionTypes, EngineTypes, PowerInv, PowerOnlyInSession
    <2>2. AtMostOneLatePulse
      BY <1>1 DEF SessionInv, PulseInv, AtMostOneLatePulse
    <2>3. ExitReleases
      BY <1>1, <2>1 DEF SessionInv, OneActive, PowerOnlyInSession, ExitReleases
    <2> QED
      BY <2>1, <2>2, <2>3 DEF PowerHeld
  <1> QED
    BY SessionInvariant, <1>1, PTL

\* No command of window or tray is refused or goes astray because its view was out of date, and
\* once every run is over the views say so and each was announced once.
THEOREM CommandsReachSession == Spec => []CommandsReach
  <1>1. ASSUME SessionInv PROVE CommandsReach
    <2> USE <1>1, NoneIsNoSession DEF SessionInv, SessionTypes
    <2>1. NeverRejected
      BY DEF OneActive, NeverRejected
    <2>2. StopReachesSession
      BY DEF OneActive, StopReachesSession, InSession, EngineTypes, CommandTypes, Active, Held
    <2>3. ToggleFollowed
      BY DEF PowerInv, ToggleFollowed, EngineTypes
    <2>4. ASSUME \A s \in Sessions : pc[s] \in {"unused", "done"}, posted = <<>>, uiCall = "free"
          PROVE  ~isRunning /\ ~tray /\ cancellation = None
                 /\ notices = Cardinality({s \in Sessions : pc[s] = "done"})
      <3>1. cancellation = None
        BY <2>4 DEF OneActive, CommandTypes, Active
      <3>2. disposed = FALSE
        BY <2>4 DEF ViewInv, CommandTypes
      <3>3. ~isRunning /\ ~tray
        BY <2>4, <3>2 DEF ViewInv, InSession, Shown, CommandTypes, ViewTypes, Active
      <3>4. Finished = {s \in Sessions : pc[s] = "done"}
        BY <2>4 DEF Finished, Over
      <3>5. Pending = 0
        BY <2>4 DEF Pending
      <3>6. notices = Cardinality(Finished)
        BY <3>2, <3>5 DEF CountInv, ViewTypes
      <3> QED
        BY <3>1, <3>3, <3>4, <3>6
    <2>5. SettledView
      BY <2>4 DEF SettledView
    <2> QED
      BY <2>1, <2>2, <2>3, <2>5 DEF CommandsReach
  <1> QED
    BY SessionInvariant, <1>1, PTL
===============================================================================
