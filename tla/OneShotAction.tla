---------------------------- MODULE OneShotAction ----------------------------
(***************************************************************************)
(* What the scheduler of system actions promises, without its timer, its   *)
(* lock, its generations or its settings file: at most one action is       *)
(* pending; a pending action may be replaced or withdrawn until it is      *)
(* taken up; it is taken up only inside its window [due, due + Grace] of   *)
(* the wall clock; what has been taken up is carried out at most once, and *)
(* nothing that was replaced or withdrawn is ever carried out.             *)
(***************************************************************************)
EXTENDS Naturals, Sequences

CONSTANTS Schedules,  \* what can be asked for: records with a field due
          Grace       \* how late an action may still be taken up

VARIABLES clock,      \* the wall clock
          pending,    \* the schedule that waits, as a set of at most one
          committed,  \* the schedule being carried out, as a set of at most one
          log         \* what has been carried out, in order

vars == <<clock, pending, committed, log>>

Init == /\ clock \in Nat
        /\ pending = {}
        /\ committed = {}
        /\ log = <<>>

\* The wall clock moves, or is set, at any time.
Advance == /\ clock' \in Nat
           /\ UNCHANGED <<pending, committed, log>>

\* A schedule is accepted and replaces the one that was pending.
Request(s) == /\ committed = {}
              /\ pending' = {s}
              /\ UNCHANGED <<clock, committed, log>>

\* The pending schedule is cancelled, discarded or lost with its process.
Withdraw == /\ pending' = {}
            /\ UNCHANGED <<clock, committed, log>>

\* The pending schedule is taken up: this is the only way to be carried out.
Commit == \E s \in pending :
             /\ clock \in s.due .. (s.due + Grace)
             /\ pending' = {}
             /\ committed = {}
             /\ committed' = {s}
             /\ UNCHANGED <<clock, log>>

\* The system action happens.
Perform == \E s \in committed :
              /\ committed' = {}
              /\ log' = Append(log, s)
              /\ UNCHANGED <<clock, pending>>

\* What was taken up fails without effect, or its process dies.
Abandon == /\ committed' = {}
           /\ pending' = {}
           /\ UNCHANGED <<clock, log>>

Next == \/ Advance
        \/ \E s \in Schedules : Request(s)
        \/ Withdraw
        \/ Commit
        \/ Perform
        \/ Abandon

Spec == Init /\ [][Next]_vars
=============================================================================
