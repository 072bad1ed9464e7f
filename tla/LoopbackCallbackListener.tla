------------------------ MODULE LoopbackCallbackListener ------------------------
(***************************************************************************)
(* LoopbackCallbackListener.ListenAsync: one of three ports is taken, the  *)
(* browser launched, and connections are served one after the other until  *)
(* one of them is the callback.  What connects to a loopback port is not   *)
(* only the browser's callback; a connection may ask for something else,   *)
(* say nothing, or break off.                                              *)
(***************************************************************************)
EXTENDS Naturals, Sequences

CONSTANTS Ports,        \* in the order in which they are tried: 49152, 49153, 49154
          Backlog,      \* connections that wait to be accepted: 4
          Visits,       \* bound: connections of one behaviour
          Waits,        \* bound: calls of ListenAsync
          NoPort

PortSet == {Ports[i] : i \in DOMAIN Ports}

ASSUME ListenerAssumption == /\ NoPort \notin PortSet
                             /\ Backlog \in Nat /\ Visits \in Nat /\ Waits \in Nat

VARIABLES
  occupied,  \* ports that other programs hold
  port,      \* the port this one holds
  wait,      \* where ListenAsync stands
  backlog,   \* connections not yet accepted
  serving,   \* the connection being served
  visits, waits,
  outcome    \* how the last wait ended

listenerVars == <<occupied, port, wait, backlog, serving, visits, waits, outcome>>

Visitors == {"callback", "other", "silent", "broken"}

\* The types; above all, never more connections wait than the socket takes.
ListenerTypeOK ==
  /\ occupied \subseteq PortSet /\ port \in PortSet \cup {NoPort}
  /\ wait \in {"idle", "launch", "accept", "read", "answer", "refuse"}
  /\ backlog \in Seq(Visitors) /\ Len(backlog) <= Backlog /\ serving \in Visitors \cup {"none"}
  /\ visits \in 0 .. Visits /\ waits \in 0 .. Waits
  /\ outcome \in {"none", "busy", "callback", "failed", "cancelled"}

ListenerInit ==
  /\ occupied \in SUBSET PortSet /\ port = NoPort
  /\ wait = "idle" /\ backlog = <<>> /\ serving = "none" /\ visits = 0 /\ waits = 0
  /\ outcome = "none"

-------------------------------------------------------------------------------

\* The first port that is free, or IOException.
Listen ==
  /\ wait = "idle" /\ waits < Waits
  /\ waits' = waits + 1
  /\ \/ \E i \in DOMAIN Ports :
          /\ Ports[i] \notin occupied /\ \A j \in 1 .. i - 1 : Ports[j] \in occupied
          /\ port' = Ports[i] /\ wait' = "launch" /\ outcome' = "none"
     \/ /\ \A i \in DOMAIN Ports : Ports[i] \in occupied
        /\ outcome' = "busy" /\ UNCHANGED <<port, wait>>
  /\ UNCHANGED <<occupied, backlog, serving, visits>>

\* The wait is over, and the finally block stops the listener.
Ends(how) ==
  /\ wait' = "idle" /\ outcome' = how /\ port' = NoPort
  /\ backlog' = <<>> /\ serving' = "none"

Launch ==
  /\ wait = "launch"
  /\ \/ wait' = "accept" /\ UNCHANGED <<port, backlog, serving, outcome>>
     \/ Ends("failed")
  /\ UNCHANGED <<occupied, visits, waits>>

\* Somebody connects, from the moment the listener has started.
Visit(visitor) ==
  /\ port # NoPort /\ visits < Visits /\ Len(backlog) < Backlog
  /\ visits' = visits + 1
  /\ backlog' = Append(backlog, visitor)
  /\ UNCHANGED <<occupied, port, wait, serving, waits, outcome>>

Accept ==
  /\ wait = "accept" /\ backlog # <<>>
  /\ serving' = Head(backlog) /\ backlog' = Tail(backlog)
  /\ wait' = "read"
  /\ UNCHANGED <<occupied, port, visits, waits, outcome>>

\* The request line and the Host line tell the callback; the read timeout of a silent
\* connection, and the exception of a broken one, end the whole wait.
Read ==
  /\ wait = "read"
  /\ \/ serving = "callback" /\ wait' = "answer" /\ UNCHANGED <<port, backlog, serving, outcome>>
     \/ serving = "other" /\ wait' = "refuse" /\ UNCHANGED <<port, backlog, serving, outcome>>
     \/ serving = "silent" /\ Ends("cancelled")
     \/ serving = "broken" /\ Ends("failed")
  /\ UNCHANGED <<occupied, visits, waits>>

\* 400, and on to the next connection, unless the write fails.
Refuse ==
  /\ wait = "refuse"
  /\ \/ wait' = "accept" /\ serving' = "none" /\ UNCHANGED <<port, backlog, outcome>>
     \/ Ends("failed")
  /\ UNCHANGED <<occupied, visits, waits>>

\* 200, and the callback is returned, unless the write fails.
AnswerCallback ==
  /\ wait = "answer"
  /\ \/ Ends("callback")
     \/ Ends("failed")
  /\ UNCHANGED <<occupied, visits, waits>>

\* The five minutes are over, or the caller cancels, while the listener waits for something.
Expire ==
  /\ wait \in {"accept", "read", "refuse", "answer"}
  /\ Ends("cancelled")
  /\ UNCHANGED <<occupied, visits, waits>>

ListenerNext ==
  \/ Listen \/ Launch \/ Accept \/ Read \/ Refuse \/ AnswerCallback \/ Expire
  \/ \E visitor \in Visitors : Visit(visitor)

ListenerSpec == ListenerInit /\ [][ListenerNext]_listenerVars
===============================================================================
