----------------------------- MODULE RateLimiter -----------------------------
(***************************************************************************)
(* The request quota of the account service, backend/src/app.ts: a fixed   *)
(* window per authenticated subject, kept in a map that is purged only     *)
(* when it is full.  Between the verification of the token and the call of *)
(* the handler the middleware does not await, so each request is one step. *)
(***************************************************************************)
EXTENDS Naturals, FiniteSets, Functions

CONSTANTS Subjects,    \* payload.sub of verified tokens
          Limit,       \* 60 requests
          Window,      \* per 60000 milliseconds
          MaxTracked,  \* 10000 subjects before the map is purged
          MaxTime,     \* bound: the last instant of Date.now()
          MaxCount     \* bound: requests of a subject in one window

ASSUME LimiterAssumption == /\ IsFiniteSet(Subjects)
                            /\ Limit \in Nat \ {0}
                            /\ Window \in Nat \ {0}
                            /\ MaxTracked \in Nat
                            /\ MaxTime \in Nat
                            /\ MaxCount \in Nat

Times == 0 .. MaxTime
Entries == [count : Nat \ {0}, resetAt : Nat]
Statuses == {"none", "admitted", "rate_limited", "busy"}

VARIABLES now,       \* Date.now()
          requests,  \* the map: a partial function from subjects to entries
          reply,     \* what the limiter said last, and to whom
          admitted   \* ghost: the instants at which requests of a subject passed, numbered

vars == <<now, requests, reply, admitted>>

\* The types; above all, an entry of the map counts at least the request that made it.
TypeOK ==
  /\ now \in Times
  /\ DOMAIN requests \subseteq Subjects
  /\ \A s \in DOMAIN requests : requests[s] \in Entries
  /\ reply \in [subject : Subjects, status : Statuses]
  /\ admitted \in [Subjects -> SUBSET (Times \X Nat)]

Init ==
  /\ now = 0
  /\ requests = [s \in {} |-> [count |-> 0, resetAt |-> 0]]
  /\ reply \in [subject : Subjects, status : {"none"}]
  /\ admitted = [s \in Subjects |-> {}]

-------------------------------------------------------------------------------

Full(map) == Cardinality(DOMAIN map) > MaxTracked

\* Mutant: the purge forgets windows that are still open.
Purged_All(map) == IF Full(map) THEN Restrict(map, {}) ELSE map

\* A full map drops the windows that are over.
Purged(map) ==
  IF Full(map) THEN Restrict(map, {s \in DOMAIN map : map[s].resetAt > now}) ELSE map

\* Mutant: the request that opens a window is not counted.
Counted_FirstIsFree(map, s) ==
  IF s \in DOMAIN map /\ map[s].resetAt > now
    THEN [map[s] EXCEPT !.count = @ + 1]
    ELSE [count |-> 0, resetAt |-> now + Window]

\* Mutant: the window is over as soon as it opens.
Counted_NoWindow(map, s) ==
  IF s \in DOMAIN map /\ map[s].resetAt > now
    THEN [map[s] EXCEPT !.count = @ + 1]
    ELSE [count |-> 1, resetAt |-> now]

\* The entry of a subject with this request counted: its open window, or a new one.
Counted(map, s) ==
  IF s \in DOMAIN map /\ map[s].resetAt > now
    THEN [map[s] EXCEPT !.count = @ + 1]
    ELSE [count |-> 1, resetAt |-> now + Window]

\* Mutant: a full map is purged but still grows.
Turned_NeverBusy(s) == FALSE

\* The map stays full after its purge, and every request is turned away.
Turned(s) == Full(Purged(requests))

\* Mutant: the last request of the quota is refused.
OverLimit_Early(count) == count >= Limit

OverLimit(count) == count > Limit

\* One verified request of subject s.
Request(s) ==
  LET map == Purged(requests)
      current == Counted(map, s)
  IN  \/ /\ Turned(s)
         /\ requests' = map
         /\ reply' = [subject |-> s, status |-> "busy"]
         /\ UNCHANGED <<now, admitted>>
      \/ /\ ~Turned(s)
         /\ current.count <= MaxCount
         /\ requests' = [r \in DOMAIN map \cup {s} |-> IF r = s THEN current ELSE map[r]]
         /\ \/ /\ OverLimit(current.count)
               /\ reply' = [subject |-> s, status |-> "rate_limited"]
               /\ UNCHANGED admitted
            \/ /\ ~OverLimit(current.count)
               /\ reply' = [subject |-> s, status |-> "admitted"]
               /\ admitted' = [admitted EXCEPT ![s] = @ \cup {<<now, Cardinality(@)>>}]
         /\ UNCHANGED now

Tick ==
  /\ now < MaxTime
  /\ now' = now + 1
  /\ UNCHANGED <<requests, reply, admitted>>

Next == Tick \/ \E s \in Subjects : Request(s)

Spec == Init /\ [][Next]_vars

-------------------------------------------------------------------------------

\* How many requests of s passed at the instants of a set.
Within(admissions, instants) == {a \in admissions : a[1] \in instants}
AdmittedIn(s, instants) == Cardinality(Within(admitted[s], instants))

\* The middleware purges and turns away before it adds: the map of app.ts never
\* holds more than one subject above its limit.
MapBounded == Cardinality(DOMAIN requests) <= MaxTracked + 1

\* However the windows of app.ts fall and whatever its purge dropped, no subject
\* gets as much as two quotas through in any span as long as a window: of two windows
\* that meet in it, the request that opened the first is outside.
TwoQuotasPerSpan ==
  \A s \in Subjects, t \in Times : AdmittedIn(s, t .. (t + Window - 1)) < 2 * Limit

\* A subject whose entry is still open has had at most one quota since it opened,
\* whatever was purged and counted for others meanwhile.
OneQuotaPerWindow ==
  \A s \in DOMAIN requests :
     requests[s].resetAt > now
       => AdmittedIn(s, (requests[s].resetAt - Window) .. now) <= Limit

\* The instants of the last window.
LastWindow == {t \in Times : t <= now /\ now < t + Window}

\* A request is rate-limited only on account of its own subject: a whole quota of
\* it passed within the last window.
LimitedOnlyWhenSpent ==
  [][requests' # requests /\ reply'.status = "rate_limited" =>
       AdmittedIn(reply'.subject, LastWindow) >= Limit]_vars

\* What the middleware of app.ts promises of its quotas, whatever is purged when and however
\* the windows of the subjects fall.
QuotasKept == MapBounded /\ TwoQuotasPerSpan /\ OneQuotaPerWindow
=============================================================================
