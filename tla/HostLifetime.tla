------------------------------ MODULE HostLifetime ------------------------------
(***************************************************************************)
(* ApplicationHost: the processes a user starts in one session of Windows. *)
(* The first takes the mutex, serves the pipe and composes the services;   *)
(* the others ask it through the pipe to show its window, and leave.  Any  *)
(* of them may be killed, and the first may end while others ask it.       *)
(***************************************************************************)
EXTENDS Naturals, FiniteSets

CONSTANTS Processes,   \* bound: the processes of one behaviour
          MaxLaunches, \* bound: how often one of them is started
          Nobody

ASSUME HostAssumption == Nobody \notin Processes /\ MaxLaunches \in Nat

VARIABLES
  stage,      \* where each process stands
  mutex,      \* the process that owns the mutex
  alive,      \* the processes whose services are composed and not yet disposed
  pipe,       \* the task that serves the pipe of each process
  guest,      \* the process connected to it
  cancelled,  \* the processes whose _lifetime is cancelled
  shown,      \* the processes whose window is visible
  launches

hostVars == <<stage, mutex, alive, pipe, guest, cancelled, shown, launches>>

HostStages == {"off", "starting", "asking", "running", "ending", "waiting", "disposing"}
PipeStages == {"none", "listening", "reading", "invoking", "delay", "ended"}

\* The types; above all, the one instance of a pipe is connected exactly while it is read.
HostTypeOK ==
  /\ stage \in [Processes -> HostStages] /\ mutex \in Processes \cup {Nobody}
  /\ alive \subseteq Processes /\ cancelled \subseteq Processes /\ shown \subseteq Processes
  /\ pipe \in [Processes -> PipeStages] /\ guest \in [Processes -> Processes \cup {Nobody}]
  /\ \A p \in Processes : guest[p] # Nobody <=> pipe[p] = "reading"
  /\ launches \in 0 .. MaxLaunches

HostInit ==
  /\ stage = [p \in Processes |-> "off"] /\ mutex = Nobody
  /\ alive = {} /\ cancelled = {} /\ shown = {}
  /\ pipe = [p \in Processes |-> "none"] /\ guest = [p \in Processes |-> Nobody]
  /\ launches = 0

-------------------------------------------------------------------------------

\* OnStartup up to the question whose the mutex is: who creates it owns it.  While any other
\* process holds a handle of it, even one that only asks, it exists and is not taken over.
Launched(p) ==
  /\ stage[p] = "off" /\ launches < MaxLaunches
  /\ launches' = launches + 1
  /\ IF \A q \in Processes : stage[q] = "off"
       THEN /\ mutex' = p /\ stage' = [stage EXCEPT ![p] = "starting"]
            /\ pipe' = [pipe EXCEPT ![p] = "listening"]
       ELSE /\ stage' = [stage EXCEPT ![p] = "asking"]
            /\ UNCHANGED <<mutex, pipe>>
  /\ UNCHANGED <<alive, guest, cancelled, shown>>

\* The services are composed, the settings loaded and the window attached; an exception, which
\* may come after some of them, ends the application.
Composes(p, minimized) ==
  /\ stage[p] = "starting"
  /\ \/ /\ alive' = alive \cup {p} /\ stage' = [stage EXCEPT ![p] = "running"]
        /\ shown' = IF minimized THEN shown ELSE shown \cup {p}
     \/ /\ alive' \in {alive, alive \cup {p}} /\ stage' = [stage EXCEPT ![p] = "ending"]
        /\ UNCHANGED shown
  /\ UNCHANGED <<mutex, pipe, guest, cancelled, launches>>

\* The pipe of the host has one instance, which a second process connects to.
Connects(p, host) ==
  /\ stage[p] = "asking" /\ pipe[host] = "listening" /\ guest[host] = Nobody
  /\ guest' = [guest EXCEPT ![host] = p]
  /\ pipe' = [pipe EXCEPT ![host] = "reading"]
  /\ UNCHANGED <<stage, mutex, alive, cancelled, shown, launches>>

\* SHOW is written, or nobody listened for three seconds; either way the process leaves.
Asked(p) ==
  /\ stage[p] = "asking"
  /\ stage' = [stage EXCEPT ![p] = "off"]
  /\ UNCHANGED <<mutex, alive, pipe, guest, cancelled, shown, launches>>

-------------------------------------------------------------------------------
\* ListenAsync of the host

\* Mutant: a connection that does not say SHOW, or not in time, ends the task.
Reads_Once(host) ==
  /\ pipe[host] = "reading"
  /\ pipe' \in {[pipe EXCEPT ![host] = next] : next \in {"invoking", "ended"}}
  /\ guest' = [guest EXCEPT ![host] = Nobody]
  /\ UNCHANGED <<stage, mutex, alive, cancelled, shown, launches>>

\* Mutant: the connection is not disposed.
Reads_NotDisposed(host) ==
  /\ pipe[host] = "reading"
  /\ pipe' \in {[pipe EXCEPT ![host] = next] : next \in {"invoking", "listening", "delay"}}
  /\ UNCHANGED <<stage, mutex, alive, guest, cancelled, shown, launches>>

\* What the connection says within two seconds: SHOW, something else, or nothing.
Reads(host) ==
  /\ pipe[host] = "reading"
  /\ pipe' \in {[pipe EXCEPT ![host] = next] : next \in {"invoking", "listening", "delay"}}
  /\ guest' = [guest EXCEPT ![host] = Nobody]
  /\ UNCHANGED <<stage, mutex, alive, cancelled, shown, launches>>

\* The dispatcher runs what was posted once OnStartup has returned.
Shows(host) ==
  /\ pipe[host] = "invoking" /\ stage[host] = "running"
  /\ pipe' = [pipe EXCEPT ![host] = "listening"]
  /\ shown' = shown \cup {host}
  /\ UNCHANGED <<stage, mutex, alive, guest, cancelled, launches>>

\* A dispatcher that has shut down aborts what was posted.
Aborts(host) ==
  /\ pipe[host] = "invoking" /\ stage[host] \in {"ending", "waiting"}
  /\ pipe' = [pipe EXCEPT ![host] = "delay"]
  /\ UNCHANGED <<stage, mutex, alive, guest, cancelled, shown, launches>>

\* 250 milliseconds after an error it goes on.
Resumes(host) ==
  /\ pipe[host] = "delay" /\ host \notin cancelled
  /\ pipe' = [pipe EXCEPT ![host] = "listening"]
  /\ UNCHANGED <<stage, mutex, alive, guest, cancelled, shown, launches>>

\* Wherever it waits, the cancelled lifetime ends it.
PipeEnds(host) ==
  /\ host \in cancelled /\ pipe[host] \in PipeStages \ {"none", "ended"}
  /\ pipe' = [pipe EXCEPT ![host] = "ended"]
  /\ guest' = [guest EXCEPT ![host] = Nobody]
  /\ UNCHANGED <<stage, mutex, alive, cancelled, shown, launches>>

-------------------------------------------------------------------------------
\* The end of the host

\* The window is closed, which hides it.
Hides(p) ==
  /\ stage[p] = "running" /\ p \in shown
  /\ shown' = shown \ {p}
  /\ UNCHANGED <<stage, mutex, alive, pipe, guest, cancelled, launches>>

\* Exit, the end of the session, or an unhandled exception: the dispatcher shuts down.
ShutsDown(p) ==
  /\ stage[p] = "running"
  /\ stage' = [stage EXCEPT ![p] = "ending"]
  /\ shown' = shown \ {p}
  /\ UNCHANGED <<mutex, alive, pipe, guest, cancelled, launches>>

\* Dispose: the lifetime is cancelled,
Cancels(p) ==
  /\ stage[p] = "ending"
  /\ cancelled' = cancelled \cup {p}
  /\ stage' = [stage EXCEPT ![p] = "waiting"]
  /\ UNCHANGED <<mutex, alive, pipe, guest, shown, launches>>

\* the tasks are awaited,
TasksEnd(p) ==
  /\ stage[p] = "waiting" /\ pipe[p] \in {"none", "ended"}
  /\ stage' = [stage EXCEPT ![p] = "disposing"]
  /\ UNCHANGED <<mutex, alive, pipe, guest, cancelled, shown, launches>>

Gone(p) ==
  /\ stage' = [stage EXCEPT ![p] = "off"]
  /\ mutex' = IF mutex = p THEN Nobody ELSE mutex
  /\ pipe' = [pipe EXCEPT ![p] = "none"]
  /\ guest' = [guest EXCEPT ![p] = Nobody]
  /\ cancelled' = cancelled \ {p} /\ shown' = shown \ {p}

\* Mutant: the mutex is released before the services are disposed.
Disposes_MutexFirst(p) ==
  /\ stage[p] = "disposing"
  /\ IF mutex = p THEN mutex' = Nobody /\ UNCHANGED <<stage, alive, pipe, guest, cancelled, shown>>
     ELSE Gone(p) /\ alive' = alive \ {p}
  /\ UNCHANGED launches

\* the services disposed, and the mutex released last.
Disposes(p) ==
  /\ stage[p] = "disposing"
  /\ Gone(p)
  /\ alive' = alive \ {p}
  /\ UNCHANGED launches

\* Windows frees what a killed process held.
Killed(p) ==
  /\ stage[p] # "off"
  /\ Gone(p)
  /\ alive' = alive \ {p}
  /\ UNCHANGED launches

HostNext ==
  \E p \in Processes :
    \/ Launched(p) \/ Asked(p) \/ \E minimized \in BOOLEAN : Composes(p, minimized)
    \/ \E host \in Processes : Connects(p, host)
    \/ Reads(p) \/ Shows(p) \/ Aborts(p) \/ Resumes(p) \/ PipeEnds(p)
    \/ Hides(p) \/ ShutsDown(p) \/ Cancels(p) \/ TasksEnd(p) \/ Disposes(p) \/ Killed(p)

HostSpec == HostInit /\ [][HostNext]_hostVars

-------------------------------------------------------------------------------

\* However processes are started, killed and ended across each other, the services of two are
\* never alive at once: one keep-alive engine, one scheduler, one writer of the settings.
\* Whoever finds no mutex finds no services either.
OneHost == Cardinality(alive) <= 1 /\ (mutex = Nobody => alive = {})

\* The running host can always be asked to show its window, whoever connected before and
\* whatever was said: its pipe task has not ended.
HostAnswers == \A p \in Processes : stage[p] = "running" => pipe[p] \notin {"none", "ended"}

\* One process at most is the application, and it answers the others.
HostKept == OneHost /\ HostAnswers
===============================================================================
