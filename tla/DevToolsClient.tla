---------------------------- MODULE DevToolsClient ----------------------------
(***************************************************************************)
(* The client of the DevTools protocol in lib/cdp.mjs: numbered requests   *)
(* with a timer each, events to registered listeners, and Page.goto, which *)
(* listens for the load event, asks for the navigation and waits for the   *)
(* event or a deadline.  Chrome answers late, in any order, or dies; its   *)
(* page may open a dialog, which stops everything until it is handled.     *)
(***************************************************************************)
EXTENDS Naturals, Sequences, SequencesExt

CONSTANT MaxRequests    \* bound: requests of one page
ASSUME ClientAssumption == MaxRequests \in Nat

VARIABLES nextId,    \* the number of the next request
          unanswered,   \* pending requests: their number and what they ask
          asked,     \* requests Chrome has received and not answered
          wire,      \* messages of Chrome to the client, in order
          goto,      \* the navigation: its phase, and how it ended
          loaded,    \* the load event has reached the listener of the navigation
          page,      \* the page in Chrome
          dialog,    \* it has a dialog open
          alive      \* Chrome is alive

clientVars == <<nextId, unanswered, asked, wire, goto, loaded, page, dialog, alive>>

ClientRequests == [id : 1 .. MaxRequests, for : {"navigate", "handle", "evaluate"}]
Messages == [kind : {"answer", "error"}, id : 1 .. MaxRequests]
            \cup [kind : {"load", "dialog"}, id : {0}]
OnWire(kind) == \E m \in ToSet(wire) : m.kind = kind

\* Requests, messages and phases are those of the protocol.
ClientTypeOK ==
  /\ nextId \in 1 .. MaxRequests + 1
  /\ unanswered \subseteq ClientRequests /\ asked \subseteq ClientRequests
  /\ wire \in Seq(Messages)
  /\ goto \in {"none", "navigating", "waiting", "load", "timeout", "failed"}
  /\ page \in {"blank", "loading", "loaded", "refused"}
  /\ loaded \in BOOLEAN /\ dialog \in BOOLEAN /\ alive \in BOOLEAN

ClientInit ==
  /\ nextId = 1 /\ unanswered = {} /\ asked = {} /\ wire = <<>>
  /\ goto = "none" /\ loaded = FALSE
  /\ page = "blank" /\ dialog = FALSE /\ alive = TRUE

-------------------------------------------------------------------------------

\* Browser.send: a socket that is closed drops the request; its timer runs all the same.
Ask(for) ==
  LET request == [id |-> nextId, for |-> for] IN
    /\ nextId <= MaxRequests
    /\ nextId' = nextId + 1
    /\ unanswered' = unanswered \cup {request}
    /\ asked' = IF alive THEN asked \cup {request} ELSE asked

\* goto listens for the load event from before it asks until it stops waiting.
\* Mutant: it listens once the navigation has been answered.
Listening_Late == goto = "waiting"
Listening == goto \in {"navigating", "waiting"}

GotoPage ==
  /\ goto = "none"
  /\ Ask("navigate")
  /\ goto' = "navigating"
  /\ UNCHANGED <<wire, loaded, page, dialog, alive>>

\* Any other request of the page, such as an evaluation.
Evaluate ==
  /\ goto \in {"load", "timeout"}
  /\ Ask("evaluate")
  /\ UNCHANGED <<wire, goto, loaded, page, dialog, alive>>

\* A request leaves pending by its answer, an error or its timer; the navigation goes on.
Settle(request, answered) ==
  /\ unanswered' = unanswered \ {request}
  /\ goto' = IF request.for # "navigate" THEN goto ELSE IF answered THEN "waiting" ELSE "failed"

TimesOut ==
  /\ \E request \in unanswered : Settle(request, FALSE)
  /\ UNCHANGED <<nextId, asked, wire, loaded, page, dialog, alive>>

\* An answer to a request that has timed out is dropped.
ReceiveAnswer(m) ==
  /\ m.kind \in {"answer", "error"}
  /\ \/ \E request \in unanswered : request.id = m.id /\ Settle(request, m.kind = "answer")
     \/ (\A request \in unanswered : request.id # m.id) /\ UNCHANGED <<unanswered, goto>>
  /\ UNCHANGED <<nextId, asked, loaded>>

ReceiveLoad(m) ==
  /\ m.kind = "load"
  /\ loaded' = (loaded \/ Listening)
  /\ UNCHANGED <<nextId, unanswered, asked, goto>>

\* Mutant: the dialog is only noted.
ReceiveDialog_Noted(m) ==
  /\ m.kind = "dialog"
  /\ UNCHANGED <<nextId, unanswered, asked, loaded, goto>>
ReceiveDialog(m) ==
  /\ m.kind = "dialog"
  /\ Ask("handle")
  /\ UNCHANGED <<loaded, goto>>

Receive ==
  /\ wire # <<>>
  /\ wire' = Tail(wire)
  /\ ReceiveAnswer(Head(wire)) \/ ReceiveLoad(Head(wire)) \/ ReceiveDialog(Head(wire))
  /\ UNCHANGED <<page, dialog, alive>>

\* The race of goto: the load event, or the deadline if the event has not come.
Race ==
  /\ goto = "waiting"
  /\ goto' = IF loaded THEN "load" ELSE "timeout"
  /\ UNCHANGED <<nextId, unanswered, asked, wire, loaded, page, dialog, alive>>

-------------------------------------------------------------------------------
\* Chrome.

ChromeSays(kind, id) == wire' = Append(wire, [kind |-> kind, id |-> id])

\* A page starts to load before, and may have loaded when, its navigation is answered.
ChromeStartsLoading ==
  /\ alive /\ page = "blank"
  /\ \E request \in asked : request.for = "navigate"
  /\ page' = "loading"
  /\ UNCHANGED <<nextId, unanswered, asked, wire, goto, loaded, dialog, alive>>

\* It answers in any order; an open dialog holds up everything but its own handling.
ChromeAnswers ==
  /\ alive
  /\ \E request \in asked :
       /\ asked' = asked \ {request}
       /\ \/ /\ request.for = "navigate"
             /\ \/ page # "blank" /\ ChromeSays("answer", request.id) /\ UNCHANGED page
                \/ page = "blank" /\ ChromeSays("error", request.id) /\ page' = "refused"
             /\ UNCHANGED dialog
          \/ /\ request.for = "handle"
             /\ dialog' = FALSE
             /\ ChromeSays("answer", request.id)
             /\ UNCHANGED page
          \/ /\ request.for = "evaluate" /\ ~dialog
             /\ ChromeSays("answer", request.id)
             /\ UNCHANGED <<page, dialog>>
  /\ UNCHANGED <<nextId, unanswered, goto, loaded, alive>>

ChromeLoads ==
  /\ alive /\ page = "loading" /\ ~dialog
  /\ page' = "loaded"
  /\ ChromeSays("load", 0)
  /\ UNCHANGED <<nextId, unanswered, asked, goto, loaded, dialog, alive>>

\* Bound: a page opens a dialog while requests are left to handle it with.
ChromeOpensDialog ==
  /\ alive /\ page = "loading" /\ ~dialog /\ ~OnWire("dialog")
  /\ nextId <= MaxRequests
  /\ dialog' = TRUE
  /\ ChromeSays("dialog", 0)
  /\ UNCHANGED <<nextId, unanswered, asked, goto, loaded, page, alive>>

ConnectionEnds ==
  /\ alive
  /\ alive' = FALSE
  /\ UNCHANGED <<nextId, unanswered, asked, wire, goto, loaded, page, dialog>>

ClientNext ==
  \/ GotoPage \/ Evaluate \/ TimesOut \/ Receive \/ Race
  \/ ChromeStartsLoading \/ ChromeAnswers \/ ChromeLoads \/ ChromeOpensDialog \/ ConnectionEnds

ClientSpec == ClientInit /\ [][ClientNext]_clientVars

-------------------------------------------------------------------------------

\* A load event that overtakes the answer to the navigation is not lost: while goto waits, a
\* page that has loaded has told it so or the event is on the wire.
LoadNotLost ==
  page = "loaded" /\ goto \in {"navigating", "waiting"} => loaded \/ OnWire("load")

\* A dialog never blocks the page for good: its event is on its way or Chrome has been asked
\* to handle it, whatever has timed out meanwhile.
DialogAttended ==
  dialog /\ alive => OnWire("dialog") \/ \E request \in asked : request.for = "handle"
===============================================================================
