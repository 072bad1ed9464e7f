------------------------ MODULE ServiceProgramsProofs -------------------------
(***************************************************************************)
(* Proofs about the account service and its hosted pages, RateLimiter,     *)
(* AccountService and AuthPages, for any subjects, requests, connections   *)
(* and names, any limit, window and size of the map, and about how they    *)
(* run in MCNodePrograms.                                                  *)
(***************************************************************************)
EXTENDS MCNodePrograms, FiniteSetTheorems, SequenceTheorems, TLAPS

-------------------------------------------------------------------------------

\* An admission is numbered by those before it, so each is a new element of its set.
Numbered ==
  \A s \in Subjects : /\ IsFiniteSet(admitted[s])
                      /\ \A a \in admitted[s] : a[1] <= now /\ a[2] < Cardinality(admitted[s])

Open(map, s) == s \in DOMAIN map /\ map[s].resetAt > now
Opened(slot) == slot.resetAt - Window
Spent(count) == IF count < Limit THEN count ELSE Limit

\* Since its window opened a subject has had as many requests through as its slot counts, up to
\* the quota, the one that opened it among them; of the time before, less than a quota is within
\* a window's length of it.
WindowKnown(map, s) ==
  /\ Opened(map[s]) \in 0 .. now
  /\ AdmittedIn(s, Opened(map[s]) .. now) = Spent(map[s].count)
  /\ \E a \in admitted[s] : a[1] = Opened(map[s])
  /\ \A t \in Times : t + Window > Opened(map[s]) => AdmittedIn(s, t .. (Opened(map[s]) - 1)) < Limit

\* Without an open window less than a quota is within the last one, and nothing at this instant.
WindowOver(s) == AdmittedIn(s, LastWindow) < Limit /\ \A a \in admitted[s] : a[1] < now

WindowsKnown(map) == \A s \in Subjects : IF Open(map, s) THEN WindowKnown(map, s) ELSE WindowOver(s)

LimiterInv == TypeOK /\ Numbered /\ MapBounded /\ WindowsKnown(requests) /\ TwoQuotasPerSpan

-------------------------------------------------------------------------------

\* The part of a set that lies within an interval is counted by a number.
LEMMA WithinCounts ==
  ASSUME NEW S, IsFiniteSet(S), NEW I
  PROVE  IsFiniteSet(Within(S, I)) /\ Cardinality(Within(S, I)) \in Nat
  BY FS_Subset, FS_CardinalityType DEF Within

\* A wider interval holds no less.
LEMMA WithinWider ==
  ASSUME NEW S, IsFiniteSet(S), NEW I, NEW J, \A a \in S : a[1] \in I => a[1] \in J
  PROVE  Cardinality(Within(S, I)) <= Cardinality(Within(S, J))
  <1>1. Within(S, I) \subseteq Within(S, J)
    BY DEF Within
  <1> QED
    BY <1>1, WithinCounts, FS_Subset

\* What lies within one of two intervals is at most what lies within each.
LEMMA WithinBoth ==
  ASSUME NEW S, IsFiniteSet(S), NEW I, NEW J, NEW K,
         \A a \in S : a[1] \in I => a[1] \in J \/ a[1] \in K
  PROVE  Cardinality(Within(S, I)) <= Cardinality(Within(S, J)) + Cardinality(Within(S, K))
  <1> DEFINE earlier == Within(S, I)  later == Within(S, J)  C == Within(S, K)
  <1>1. earlier \subseteq later \cup C
    BY DEF Within
  <1>2. IsFiniteSet(earlier) /\ IsFiniteSet(later) /\ IsFiniteSet(C)
    BY WithinCounts
  <1>3. /\ Cardinality(earlier) \in Nat /\ Cardinality(later) \in Nat /\ Cardinality(C) \in Nat
    BY WithinCounts
  <1>4. IsFiniteSet(later \cup C) /\ IsFiniteSet(later \cap C) /\ Cardinality(later \cup C) = Cardinality(later) + Cardinality(C) - Cardinality(later \cap C)
    BY <1>2, FS_Union, FS_Intersection
  <1>5. Cardinality(later \cap C) \in Nat
    BY <1>4, FS_CardinalityType
  <1>6. Cardinality(earlier) <= Cardinality(later \cup C)
    BY <1>1, <1>4, FS_Subset
  <1> HIDE DEF earlier, later, C
  <1>7. Cardinality(earlier) <= Cardinality(later) + Cardinality(C)
    BY <1>3, <1>4, <1>5, <1>6
  <1> QED
    BY <1>7 DEF earlier, later, C

\* One more admission counts once in the intervals of its time.
LEMMA WithinAdded ==
  ASSUME NEW S, IsFiniteSet(S), NEW x, x \notin S, NEW I
  PROVE  Cardinality(Within(S \cup {x}, I)) = Cardinality(Within(S, I)) + IF x[1] \in I THEN 1 ELSE 0
  <1>1. IsFiniteSet(Within(S, I)) /\ x \notin Within(S, I) /\ Cardinality(Within(S, I)) \in Nat
    BY WithinCounts DEF Within
  <1>2. CASE x[1] \in I
    <2>1. Within(S \cup {x}, I) = Within(S, I) \cup {x}
      BY <1>2 DEF Within
    <2> QED
      BY <1>1, <1>2, <2>1, FS_AddElement
  <1>3. CASE x[1] \notin I
    <2>1. Within(S \cup {x}, I) = Within(S, I)
      BY <1>3 DEF Within
    <2> QED
      BY <1>1, <1>3, <2>1
  <1> QED
    BY <1>2, <1>3

\* AdmittedIn counts the admissions of a subject within an interval.
LEMMA AdmittedWithin == ASSUME NEW s, NEW I PROVE AdmittedIn(s, I) = Cardinality(Within(admitted[s], I))
  BY DEF AdmittedIn

\* The purge keeps the windows that are open, and adds nobody.
LEMMA PurgeKeeps ==
  ASSUME TypeOK
  PROVE  /\ DOMAIN Purged(requests) \subseteq DOMAIN requests
         /\ \A s \in DOMAIN Purged(requests) : Purged(requests)[s] = requests[s]
         /\ \A s \in DOMAIN requests : requests[s].resetAt > now => s \in DOMAIN Purged(requests)
  BY DEF Purged, Restrict

\* The purge drops slots and changes none.
LEMMA PurgeKnown == ASSUME TypeOK, WindowsKnown(requests) PROVE WindowsKnown(Purged(requests))
  BY PurgeKeeps DEF WindowsKnown, WindowKnown, Open

\* What the numbering gives: the counts of two spans can be compared by their admissions.
LEMMA AdmittedWider ==
  ASSUME TypeOK, Numbered, NEW s \in Subjects, NEW I, NEW J, \A a \in admitted[s] : a[1] \in I => a[1] \in J
  PROVE  AdmittedIn(s, I) <= AdmittedIn(s, J)
  BY WithinWider, AdmittedWithin DEF Numbered

\* The admissions of an interval are counted by a number.
LEMMA AdmittedNat ==
  ASSUME Numbered, NEW s \in Subjects, NEW I PROVE AdmittedIn(s, I) \in Nat
  BY WithinCounts, AdmittedWithin DEF Numbered

\* The invariant holds at the start.
LEMMA LimiterInitInv == Init => LimiterInv
  <1> SUFFICES ASSUME Init PROVE LimiterInv
    OBVIOUS
  <1>1. \A s \in Subjects : admitted[s] = {}
    BY DEF Init
  <1>2. \A s \in Subjects : \A I : AdmittedIn(s, I) = 0
    <2> SUFFICES ASSUME NEW s \in Subjects, NEW I PROVE AdmittedIn(s, I) = 0
      OBVIOUS
    <2>1. Within({}, I) = {}
      BY DEF Within
    <2> QED
      BY <1>1, <2>1, FS_EmptySet, AdmittedWithin
  <1>3. DOMAIN requests = {}
    BY DEF Init
  <1>4. TypeOK
    BY LimiterAssumption DEF Init, TypeOK, Times, Statuses
  <1>5. Numbered
    BY <1>1, FS_EmptySet DEF Numbered
  <1>6. MapBounded
    BY <1>3, FS_EmptySet, LimiterAssumption DEF MapBounded
  <1>7. WindowsKnown(requests)
    BY <1>1, <1>2, <1>3, LimiterAssumption DEF WindowsKnown, WindowOver, Open
  <1>8. TwoQuotasPerSpan
    BY <1>2, LimiterAssumption DEF TwoQuotasPerSpan
  <1> QED
    BY <1>4, <1>5, <1>6, <1>7, <1>8 DEF LimiterInv

\* As time passes a window closes at most: all of its requests were within the last window.
LEMMA TickInv == LimiterInv /\ Tick => LimiterInv'
  <1> SUFFICES ASSUME LimiterInv, Tick PROVE LimiterInv'
    OBVIOUS
  <1> USE DEF LimiterInv
  <1>1. /\ now' = now + 1 /\ now' \in Times /\ now \in Nat /\ now \in Times
        /\ UNCHANGED <<requests, reply, admitted>>
    BY LimiterAssumption DEF Tick, TypeOK, Times
  <1>2. TypeOK'
    BY <1>1 DEF TypeOK
  <1>3. Numbered'
    BY <1>1, FS_CardinalityType DEF Numbered, TypeOK, Times
  <1>4. MapBounded'
    BY <1>1 DEF MapBounded
  <1>5. TwoQuotasPerSpan'
    BY <1>1 DEF TwoQuotasPerSpan, AdmittedIn
  <1>6. ASSUME NEW s \in Subjects PROVE IF Open(requests, s)' THEN WindowKnown(requests, s)' ELSE WindowOver(s)'
    <2>0. /\ \A a \in admitted[s] : a[1] \in Nat /\ a[1] <= now
          /\ Window \in Nat \ {0} /\ Limit \in Nat \ {0}
      BY LimiterAssumption DEF Numbered, TypeOK, Times
    <2>1. CASE Open(requests, s)'
      <3>1. Open(requests, s) /\ requests[s].resetAt \in Nat
        BY <1>1, <2>1 DEF Open, TypeOK, Entries
      <3>2. WindowKnown(requests, s)
        BY <3>1 DEF WindowsKnown
      <3>3. Opened(requests[s]) \in 0 .. now'
        BY <1>1, <3>2 DEF WindowKnown
      <3>4. AdmittedIn(s, Opened(requests[s]) .. now) = AdmittedIn(s, Opened(requests[s]) .. now')
        <4>1. Within(admitted[s], Opened(requests[s]) .. now) = Within(admitted[s], Opened(requests[s]) .. now')
          BY <1>1, <2>0, <3>2 DEF Within, WindowKnown
        <4> QED
          BY <4>1, AdmittedWithin
      <3>5. WindowKnown(requests, s)'
        BY <1>1, <3>2, <3>3, <3>4 DEF WindowKnown, AdmittedIn, Opened, Spent, Times
      <3> QED
        BY <2>1, <3>5
    <2>2. CASE ~Open(requests, s)'
      <3>1. \A a \in admitted[s] : a[1] \in LastWindow' => a[1] \in LastWindow
        BY <1>1, <2>0 DEF LastWindow, Times
      <3>2. AdmittedIn(s, LastWindow') < Limit
        <4>1. CASE Open(requests, s)
          <5>1. /\ WindowKnown(requests, s) /\ requests[s].resetAt = now' /\ requests[s].count \in Nat
                /\ Opened(requests[s]) \in 0 .. now /\ Opened(requests[s]) = now' - Window
            BY <1>1, <2>2, <4>1 DEF WindowsKnown, Open, TypeOK, Entries, Opened, WindowKnown
          <5>2. PICK first \in admitted[s] : first[1] = Opened(requests[s])
            BY <5>1 DEF WindowKnown
          <5>3. AdmittedIn(s, LastWindow') < AdmittedIn(s, Opened(requests[s]) .. now)
            <6> DEFINE late == Within(admitted[s], LastWindow')  all == Within(admitted[s], Opened(requests[s]) .. now)
            <6>1. late \subseteq all /\ first \in all /\ first \notin late
              BY <1>1, <2>0, <5>1, <5>2 DEF LastWindow, Times, Within
            <6>2. IsFiniteSet(all)
              BY WithinCounts DEF Numbered
            <6>3. /\ Cardinality(late) <= Cardinality(all)
                  /\ Cardinality(all) = Cardinality(late) => all = late
              <7>1. late \in SUBSET all
                BY <6>1
              <7> HIDE DEF late, all
              <7> QED
                BY <6>2, <7>1, FS_Subset
            <6>4. Cardinality(late) \in Nat /\ Cardinality(all) \in Nat
              BY WithinCounts DEF Numbered
            <6>5. all # late
              BY <6>1
            <6>6. Cardinality(late) < Cardinality(all)
              <7> HIDE DEF late, all
              <7> QED
                BY <6>3, <6>4, <6>5
            <6> QED
              BY <6>6, AdmittedWithin
          <5>4. AdmittedIn(s, Opened(requests[s]) .. now) <= Limit
            BY <2>0, <5>1 DEF WindowKnown, Spent
          <5>5. AdmittedIn(s, LastWindow') \in Nat /\ AdmittedIn(s, Opened(requests[s]) .. now) \in Nat
            BY AdmittedNat
          <5> QED
            BY <2>0, <5>3, <5>4, <5>5
        <4>2. CASE ~Open(requests, s)
          <5>1. AdmittedIn(s, LastWindow) < Limit
            BY <4>2 DEF WindowsKnown, WindowOver
          <5>2. AdmittedIn(s, LastWindow') <= AdmittedIn(s, LastWindow)
            BY <3>1, AdmittedWider
          <5>3. AdmittedIn(s, LastWindow') \in Nat /\ AdmittedIn(s, LastWindow) \in Nat
            BY AdmittedNat
          <5> QED
            BY <2>0, <5>1, <5>2, <5>3
        <4> QED
          BY <4>1, <4>2
      <3>3. WindowOver(s)'
        BY <1>1, <2>0, <3>2 DEF WindowOver, AdmittedIn
      <3> QED
        BY <2>2, <3>3
    <2> QED
      BY <2>1, <2>2
  <1>7. WindowsKnown(requests)'
    BY <1>6 DEF WindowsKnown
  <1> QED
    BY <1>2, <1>3, <1>4, <1>5, <1>7

\* A request that is turned away leaves the purged map.
LEMMA TurnedInv ==
  ASSUME LimiterInv, NEW map, map = Purged(requests), requests' = map, reply' \in [subject : Subjects, status : Statuses],
         UNCHANGED <<now, admitted>>
  PROVE  LimiterInv'
  <1> USE DEF LimiterInv
  <1>1. TypeOK'
    BY PurgeKeeps DEF TypeOK, Times
  <1>2. IsFiniteSet(DOMAIN requests) /\ IsFiniteSet(DOMAIN map) /\ Cardinality(DOMAIN map) <= Cardinality(DOMAIN requests)
        /\ Cardinality(DOMAIN requests) \in Nat /\ Cardinality(DOMAIN map) \in Nat
    BY PurgeKeeps, LimiterAssumption, FS_Subset, FS_CardinalityType DEF TypeOK
  <1>3. MapBounded'
    BY <1>2, LimiterAssumption DEF MapBounded
  <1>4. Numbered'
    BY DEF Numbered
  <1>5. TwoQuotasPerSpan'
    BY DEF TwoQuotasPerSpan, AdmittedIn
  <1>6. WindowsKnown(map)
    BY PurgeKnown
  <1>7. WindowsKnown(requests)'
    BY <1>6 DEF WindowsKnown, Open, WindowKnown, WindowOver, AdmittedIn, LastWindow, Opened, Spent, Times
  <1> QED
    BY <1>1, <1>3, <1>4, <1>5, <1>7

\* The slot of a counted request: the window it is in, and the quota spent before it.
LEMMA CountedEntry ==
  ASSUME LimiterInv, NEW s \in Subjects, NEW map, map = Purged(requests), NEW current, current = Counted(map, s)
  PROVE  /\ current \in Entries /\ current.resetAt > now
         /\ Opened(current) \in 0 .. now
         /\ AdmittedIn(s, Opened(current) .. now) \in Nat
         /\ \A t \in Times : t + Window > Opened(current) => AdmittedIn(s, t .. (Opened(current) - 1)) < Limit
         /\ \/ /\ Open(map, s) /\ current.count = map[s].count + 1 /\ AdmittedIn(s, Opened(current) .. now) = Spent(map[s].count)
               /\ \E a \in admitted[s] : a[1] = Opened(current)
            \/ current.count = 1 /\ Opened(current) = now /\ AdmittedIn(s, Opened(current) .. now) = 0
  <1> USE DEF LimiterInv
  <1>1. now \in Nat /\ now \in Times /\ Window \in Nat \ {0} /\ Limit \in Nat \ {0}
    BY LimiterAssumption DEF TypeOK, Times
  <1>2. AdmittedIn(s, Opened(current) .. now) \in Nat
    BY AdmittedNat
  <1>3. WindowsKnown(map)
    BY PurgeKnown
  <1>4. CASE Open(map, s)
    <2>1. WindowKnown(map, s) /\ map[s] \in Entries
      BY <1>3, <1>4, PurgeKeeps DEF WindowsKnown, Open, TypeOK
    <2>2. current = [map[s] EXCEPT !.count = @ + 1] /\ map[s].resetAt > now
      BY <1>4 DEF Counted, Open
    <2>3. current.resetAt = map[s].resetAt /\ current.count = map[s].count + 1 /\ current \in Entries
      BY <2>1, <2>2 DEF Entries
    <2> QED
      BY <1>2, <1>4, <2>1, <2>2, <2>3 DEF WindowKnown, Opened
  <1>5. CASE ~Open(map, s)
    <2>1. WindowOver(s)
      BY <1>3, <1>5 DEF WindowsKnown
    <2>2. current = [count |-> 1, resetAt |-> now + Window]
      BY <1>5 DEF Counted, Open
    <2>3. current.count = 1 /\ current.resetAt = now + Window /\ current \in Entries /\ Opened(current) = now
      BY <1>1, <2>2 DEF Entries, Opened
    <2>4. \A a \in admitted[s] : a[1] \in Times /\ a[1] <= now
      BY DEF Numbered, TypeOK
    <2>5. ASSUME NEW t \in Times, t + Window > now PROVE AdmittedIn(s, t .. (now - 1)) < Limit
      <3>1. \A a \in admitted[s] : a[1] \in t .. (now - 1) => a[1] \in LastWindow
        BY <1>1, <2>4, <2>5 DEF LastWindow, Times
      <3> QED
        BY <1>1, <2>1, <3>1, AdmittedWider, AdmittedNat DEF WindowOver
    <2>6. AdmittedIn(s, now .. now) = 0
      <3>1. Within(admitted[s], now .. now) = {}
        BY <1>1, <2>1, <2>4 DEF Within, WindowOver, Times
      <3> QED
        BY <3>1, AdmittedWithin, FS_EmptySet
    <2> QED
      BY <1>1, <1>2, <2>3, <2>5, <2>6
  <1> QED
    BY <1>4, <1>5

\* One element more is at most one more.
LEMMA OneMore ==
  ASSUME NEW S, IsFiniteSet(S), NEW x
  PROVE  Cardinality(S \cup {x}) <= Cardinality(S) + 1 /\ Cardinality(S \cup {x}) \in Nat
  <1>1. Cardinality(S) \in Nat
    BY FS_CardinalityType
  <1>2. /\ Cardinality(S \cup {x}) = IF x \in S THEN Cardinality(S) ELSE Cardinality(S) + 1
        /\ IsFiniteSet(S \cup {x})
    BY FS_AddElement
  <1> QED
    BY <1>1, <1>2

\* A counted request keeps the size of the map and the entries of the others.
LEMMA CountedTypes ==
  ASSUME LimiterInv, NEW s \in Subjects, NEW map, map = Purged(requests), ~Full(map),
         DOMAIN requests' = DOMAIN map \cup {s}, requests'[s] \in Entries,
         \A r \in DOMAIN map : r # s => requests'[r] = map[r]
  PROVE  /\ MapBounded'
         /\ DOMAIN requests' \subseteq Subjects /\ \A r \in DOMAIN requests' : requests'[r] \in Entries
  <1>1. DOMAIN map \subseteq Subjects /\ \A r \in DOMAIN map : map[r] \in Entries
    BY PurgeKeeps DEF LimiterInv, TypeOK
  <1>2. IsFiniteSet(DOMAIN map) /\ Cardinality(DOMAIN map) \in Nat
    BY <1>1, LimiterAssumption, FS_Subset, FS_CardinalityType
  <1>3. Cardinality(DOMAIN requests') <= Cardinality(DOMAIN map) + 1 /\ Cardinality(DOMAIN requests') \in Nat
    BY <1>2, OneMore
  <1>4. Cardinality(DOMAIN map) <= MaxTracked
    BY <1>2, LimiterAssumption DEF Full
  <1>5. MapBounded'
    BY <1>2, <1>3, <1>4, LimiterAssumption DEF MapBounded
  <1> QED
    BY <1>1, <1>5

\* The windows of the others are not touched by a request of s.
LEMMA OthersKnown ==
  ASSUME LimiterInv, NEW s \in Subjects, NEW map, map = Purged(requests), NEW current,
         requests' = [r \in DOMAIN map \cup {s} |-> IF r = s THEN current ELSE map[r]],
         now' = now, \A r \in Subjects : r # s => admitted'[r] = admitted[r]
  PROVE  \A r \in Subjects : r # s => IF Open(requests, r)' THEN WindowKnown(requests, r)' ELSE WindowOver(r)'
  <1> SUFFICES ASSUME NEW r \in Subjects, r # s
               PROVE  IF Open(requests, r)' THEN WindowKnown(requests, r)' ELSE WindowOver(r)'
    OBVIOUS
  <1>1. IF Open(map, r) THEN WindowKnown(map, r) ELSE WindowOver(r)
    BY PurgeKnown DEF LimiterInv, WindowsKnown
  <1>2. /\ admitted'[r] = admitted[r] /\ Open(requests, r)' = Open(map, r)
        /\ r \in DOMAIN map => requests'[r] = map[r]
    BY DEF Open
  <1>3. CASE Open(map, r)
    <2>1. WindowKnown(map, r) /\ requests'[r] = map[r]
      BY <1>1, <1>2, <1>3 DEF Open
    <2>2. WindowKnown(requests, r)'
      BY <1>2, <2>1 DEF WindowKnown, AdmittedIn, Opened, Spent, Times
    <2> QED
      BY <1>2, <1>3, <2>2
  <1>4. CASE ~Open(map, r)
    <2>1. WindowOver(r)'
      BY <1>1, <1>2, <1>4 DEF WindowOver, AdmittedIn, LastWindow, Times
    <2> QED
      BY <1>2, <1>4, <2>1
  <1> QED
    BY <1>3, <1>4

\* A request over the quota is counted and not admitted.
LEMMA OverLimitInv ==
  ASSUME LimiterInv, NEW s \in Subjects, NEW map, map = Purged(requests), ~Full(map),
         NEW current, current = Counted(map, s), current.count > Limit,
         requests' = [r \in DOMAIN map \cup {s} |-> IF r = s THEN current ELSE map[r]],
         reply' \in [subject : Subjects, status : Statuses], UNCHANGED <<now, admitted>>
  PROVE  LimiterInv'
  <1>0. /\ current \in Entries /\ current.resetAt > now
        /\ Opened(current) \in 0 .. now
        /\ AdmittedIn(s, Opened(current) .. now) \in Nat
        /\ \A t \in Times : t + Window > Opened(current) => AdmittedIn(s, t .. (Opened(current) - 1)) < Limit
        /\ \/ /\ Open(map, s) /\ current.count = map[s].count + 1 /\ AdmittedIn(s, Opened(current) .. now) = Spent(map[s].count)
              /\ \E a \in admitted[s] : a[1] = Opened(current)
           \/ current.count = 1 /\ Opened(current) = now /\ AdmittedIn(s, Opened(current) .. now) = 0
    BY CountedEntry
  <1>t. /\ MapBounded' /\ DOMAIN requests' \subseteq Subjects
        /\ \A r \in DOMAIN requests' : requests'[r] \in Entries
    <2>1. /\ DOMAIN requests' = DOMAIN map \cup {s} /\ requests'[s] \in Entries
          /\ \A r \in DOMAIN map : r # s => requests'[r] = map[r]
      BY <1>0
    <2> QED
      BY <2>1, CountedTypes
  <1> USE DEF LimiterInv
  <1>1. Limit \in Nat \ {0} /\ Window \in Nat \ {0} /\ now \in Nat
    BY LimiterAssumption DEF TypeOK, Times
  <1>2. TypeOK' /\ MapBounded'
    BY <1>t DEF TypeOK, Times
  <1>3. Numbered' /\ TwoQuotasPerSpan'
    BY DEF Numbered, TwoQuotasPerSpan, AdmittedIn
  <1>4. WindowKnown(requests, s)' /\ Open(requests, s)'
    <2>1. requests'[s] = current /\ s \in DOMAIN requests'
      OBVIOUS
    <2>2. current.count \in Nat /\ Open(map, s) /\ current.count = map[s].count + 1 /\ map[s].count \in Nat
      BY <1>0, <1>1, PurgeKeeps DEF Entries, TypeOK, Open
    <2>3. AdmittedIn(s, Opened(current) .. now) = Spent(current.count)
      BY <1>0, <1>1, <2>2 DEF Spent
    <2>4. \E a \in admitted[s] : a[1] = Opened(current)
      BY <1>0, <1>1
    <2> QED
      BY <1>0, <2>1, <2>3, <2>4 DEF WindowKnown, Open, AdmittedIn, Opened, Spent, Times
  <1>5. WindowsKnown(requests)'
    BY <1>4, OthersKnown DEF WindowsKnown
  <1> QED
    BY <1>2, <1>3, <1>5

\* A request within the quota is counted and admitted.
LEMMA AdmittedInv ==
  ASSUME LimiterInv, NEW s \in Subjects, NEW map, map = Purged(requests), ~Full(map),
         NEW current, current = Counted(map, s), current.count <= Limit,
         requests' = [r \in DOMAIN map \cup {s} |-> IF r = s THEN current ELSE map[r]],
         reply' \in [subject : Subjects, status : Statuses], now' = now,
         admitted' = [admitted EXCEPT ![s] = @ \cup {<<now, Cardinality(@)>>}]
  PROVE  LimiterInv'
  <1>0. /\ current \in Entries /\ current.resetAt > now
        /\ Opened(current) \in 0 .. now
        /\ AdmittedIn(s, Opened(current) .. now) \in Nat
        /\ \A t \in Times : t + Window > Opened(current) => AdmittedIn(s, t .. (Opened(current) - 1)) < Limit
        /\ \/ /\ Open(map, s) /\ current.count = map[s].count + 1 /\ AdmittedIn(s, Opened(current) .. now) = Spent(map[s].count)
              /\ \E a \in admitted[s] : a[1] = Opened(current)
           \/ current.count = 1 /\ Opened(current) = now /\ AdmittedIn(s, Opened(current) .. now) = 0
    BY CountedEntry
  <1>t. /\ MapBounded' /\ DOMAIN requests' \subseteq Subjects
        /\ \A r \in DOMAIN requests' : requests'[r] \in Entries
    <2>1. /\ DOMAIN requests' = DOMAIN map \cup {s} /\ requests'[s] \in Entries
          /\ \A r \in DOMAIN map : r # s => requests'[r] = map[r]
      BY <1>0
    <2> QED
      BY <2>1, CountedTypes
  <1> USE DEF LimiterInv
  <1> DEFINE x == <<now, Cardinality(admitted[s])>>
  <1>1. Limit \in Nat \ {0} /\ Window \in Nat \ {0} /\ now \in Nat /\ now \in Times
    BY LimiterAssumption DEF TypeOK, Times
  <1>2. /\ admitted'[s] = admitted[s] \cup {x} /\ \A r \in Subjects : r # s => admitted'[r] = admitted[r]
        /\ admitted[s] \in SUBSET (Times \X Nat)
    BY DEF TypeOK
  <1>3. IsFiniteSet(admitted[s]) /\ Cardinality(admitted[s]) \in Nat /\ x \notin admitted[s] /\ x[1] = now
    BY FS_CardinalityType DEF Numbered
  <1>4. x \in Times \X Nat
    BY <1>1, <1>3
  <1>5. admitted' \in [Subjects -> SUBSET (Times \X Nat)]
    BY <1>2, <1>4 DEF TypeOK
  <1>6. TypeOK' /\ MapBounded'
    BY <1>5, <1>t DEF TypeOK, Times
  <1>7. IsFiniteSet(admitted'[s]) /\ Cardinality(admitted'[s]) = Cardinality(admitted[s]) + 1
    BY <1>2, <1>3, FS_AddElement
  <1>8. Numbered'
    <2>1. \A a \in admitted'[s] : a[1] <= now' /\ a[2] < Cardinality(admitted'[s])
      BY <1>1, <1>2, <1>3, <1>7 DEF Numbered, TypeOK
    <2> QED
      BY <1>2, <1>7, <2>1 DEF Numbered
  <1>9. \A I : Cardinality(Within(admitted'[s], I)) = AdmittedIn(s, I) + IF now \in I THEN 1 ELSE 0
    BY <1>2, <1>3, WithinAdded, AdmittedWithin
  <1>10. \A a \in admitted[s] : a[1] \in Times /\ a[1] <= now
    BY <1>2 DEF Numbered
  <1>12. WindowKnown(requests, s)' /\ Open(requests, s)'
    <2>1. requests'[s] = current /\ s \in DOMAIN requests'
      OBVIOUS
    <2>2. Cardinality(Within(admitted'[s], Opened(current) .. now)) = Spent(current.count)
      <3>1. Cardinality(Within(admitted'[s], Opened(current) .. now)) = AdmittedIn(s, Opened(current) .. now) + 1
        <4>1. now \in Opened(current) .. now
          BY <1>0, <1>1
        <4> QED
          BY <1>9, <4>1
      <3>2. CASE Open(map, s) /\ current.count = map[s].count + 1 /\ AdmittedIn(s, Opened(current) .. now) = Spent(map[s].count)
        <4>1. map[s].count \in Nat
          BY <3>2, PurgeKeeps DEF Entries, TypeOK, Open
        <4> QED
          BY <1>1, <3>1, <3>2, <4>1 DEF Spent
      <3>3. CASE current.count = 1 /\ AdmittedIn(s, Opened(current) .. now) = 0
        BY <1>1, <3>1, <3>3 DEF Spent
      <3> QED
        BY <1>0, <3>2, <3>3
    <2>3. ASSUME NEW t \in Times, t + Window > Opened(current)
          PROVE  Cardinality(Within(admitted'[s], t .. (Opened(current) - 1))) < Limit
      <3>1. now \notin t .. (Opened(current) - 1)
        BY <1>0, <1>1, <2>3 DEF Times
      <3>2. AdmittedIn(s, t .. (Opened(current) - 1)) < Limit
        BY <1>0, <2>3
      <3>3. AdmittedIn(s, t .. (Opened(current) - 1)) \in Nat
        BY AdmittedNat
      <3>4. Cardinality(Within(admitted'[s], t .. (Opened(current) - 1))) = AdmittedIn(s, t .. (Opened(current) - 1)) + 0
        BY <1>9, <3>1
      <3> QED
        BY <3>2, <3>3, <3>4
    <2>4. \E a \in admitted'[s] : a[1] = Opened(current)
      BY <1>0, <1>2, <1>3
    <2> QED
      BY <1>0, <2>1, <2>2, <2>3, <2>4 DEF WindowKnown, Open, Opened, AdmittedIn, Spent, Times
  <1>13. WindowsKnown(requests)'
    <2>1. \A r \in Subjects : r # s => IF Open(requests, r)' THEN WindowKnown(requests, r)' ELSE WindowOver(r)'
      BY <1>2, OthersKnown
    <2> QED
      BY <1>12, <2>1 DEF WindowsKnown
  <1>14. TwoQuotasPerSpan'
    <2> SUFFICES ASSUME NEW r \in Subjects, NEW t \in Times
                 PROVE  Cardinality(Within(admitted'[r], t .. (t + Window - 1))) < 2 * Limit
      BY DEF TwoQuotasPerSpan, AdmittedIn, Times
    <2> DEFINE span == t .. (t + Window - 1)
    <2>1. t \in Nat /\ AdmittedIn(r, span) < 2 * Limit
      BY DEF TwoQuotasPerSpan, Times
    <2>2. CASE r # s \/ now \notin span
      <3>1. CASE r # s
        BY <1>2, <2>1, <3>1 DEF AdmittedIn
      <3>2. CASE r = s /\ now \notin span
        <4>1. Cardinality(Within(admitted'[s], span)) = AdmittedIn(s, span) + 0 /\ AdmittedIn(s, span) \in Nat
          BY <1>9, <3>2, AdmittedNat
        <4> QED
          BY <2>1, <3>2, <4>1
      <3> QED
        BY <2>2, <3>1, <3>2
    <2>3. CASE r = s /\ now \in span
      <3>1. t + Window > Opened(current)
        BY <1>0, <1>1, <2>1, <2>3
      <3>2. AdmittedIn(s, t .. (Opened(current) - 1)) < Limit /\ AdmittedIn(s, t .. (Opened(current) - 1)) \in Nat
        BY <1>0, <3>1, AdmittedNat
      <3>3. AdmittedIn(s, Opened(current) .. now) + 1 <= Limit
        BY <1>0, <1>1, PurgeKeeps DEF Spent, Open, TypeOK, Entries
      <3>4. AdmittedIn(s, span) <= AdmittedIn(s, t .. (Opened(current) - 1)) + AdmittedIn(s, Opened(current) .. now)
        <4>1. \A a \in admitted[s] : a[1] \in span => a[1] \in t .. (Opened(current) - 1) \/ a[1] \in Opened(current) .. now
          BY <1>0, <1>1, <1>10, <2>1 DEF Times
        <4> QED
          BY <1>3, <4>1, WithinBoth, AdmittedWithin
      <3>5. Cardinality(Within(admitted'[s], span)) = AdmittedIn(s, span) + 1
        BY <1>9, <2>3
      <3>6. AdmittedIn(s, span) \in Nat
        BY AdmittedNat
      <3> QED
        BY <1>0, <1>1, <2>3, <3>2, <3>3, <3>4, <3>5, <3>6
    <2> QED
      BY <2>2, <2>3
  <1> QED
    BY <1>6, <1>8, <1>13, <1>14

\* Every step keeps the invariant.
LEMMA LimiterStep == LimiterInv /\ [Next]_vars => LimiterInv'
  <1> SUFFICES ASSUME LimiterInv, [Next]_vars PROVE LimiterInv'
    OBVIOUS
  <1>1. CASE Tick
    BY <1>1, TickInv
  <1>2. ASSUME NEW s \in Subjects, Request(s) PROVE LimiterInv'
    <2> DEFINE map == Purged(requests)  current == Counted(map, s)
    <2>0. [subject |-> s, status |-> "busy"] \in [subject : Subjects, status : Statuses]
          /\ [subject |-> s, status |-> "rate_limited"] \in [subject : Subjects, status : Statuses]
          /\ [subject |-> s, status |-> "admitted"] \in [subject : Subjects, status : Statuses]
      BY DEF Statuses
    <2>1. CASE Turned(s) /\ requests' = map /\ reply' = [subject |-> s, status |-> "busy"] /\ UNCHANGED <<now, admitted>>
      BY <2>0, <2>1, TurnedInv
    <2>2. CASE /\ ~Turned(s)
               /\ requests' = [r \in DOMAIN map \cup {s} |-> IF r = s THEN current ELSE map[r]]
               /\ OverLimit(current.count)
               /\ reply' = [subject |-> s, status |-> "rate_limited"]
               /\ UNCHANGED <<now, admitted>>
      BY <2>0, <2>2, OverLimitInv DEF Turned, OverLimit
    <2>3. CASE /\ ~Turned(s)
               /\ requests' = [r \in DOMAIN map \cup {s} |-> IF r = s THEN current ELSE map[r]]
               /\ ~OverLimit(current.count)
               /\ reply' = [subject |-> s, status |-> "admitted"]
               /\ admitted' = [admitted EXCEPT ![s] = @ \cup {<<now, Cardinality(@)>>}]
               /\ UNCHANGED now
      <3>1. current.count <= Limit
        <4>1. current.count \in Nat
          BY CountedEntry DEF Entries
        <4> QED
          BY <2>3, <4>1, LimiterAssumption DEF OverLimit
      <3> HIDE DEF map, current
      <3>2. map = Purged(requests) /\ current = Counted(map, s)
        BY DEF map, current
      <3> QED
        BY <2>0, <2>3, <3>1, <3>2, AdmittedInv DEF Turned
    <2> QED
      BY <1>2, <2>1, <2>2, <2>3 DEF Request
  <1>3. CASE UNCHANGED vars
    BY <1>3 DEF vars, LimiterInv, TypeOK, Numbered, MapBounded, WindowsKnown, WindowKnown, WindowOver, Open, Opened,
       Spent, LastWindow, TwoQuotasPerSpan, AdmittedIn, Times
  <1> QED
    BY <1>1, <1>2, <1>3 DEF Next

\* The invariant bounds the map, and the admissions of every window and span.
LEMMA QuotasOfInv == LimiterInv => QuotasKept
  <1> SUFFICES ASSUME LimiterInv PROVE QuotasKept
    OBVIOUS
  <1>1. ASSUME NEW s \in DOMAIN requests, requests[s].resetAt > now
        PROVE  AdmittedIn(s, (requests[s].resetAt - Window) .. now) <= Limit
    <2>1. WindowKnown(requests, s) /\ requests[s].count \in Nat
      BY <1>1 DEF LimiterInv, WindowsKnown, Open, TypeOK, Entries
    <2> QED
      BY <2>1, LimiterAssumption DEF WindowKnown, Opened, Spent
  <1> QED
    BY <1>1 DEF LimiterInv, QuotasKept, OneQuotaPerWindow

\* However the windows fall and whatever the purge drops, the map stays bounded and no subject gets
\* more through than the quotas of its windows, for any subjects, limit, window and size of the map
\* (the middleware of app.ts).
THEOREM QuotasAreKept == Spec => []QuotasKept
  BY LimiterInitInv, LimiterStep, QuotasOfInv, PTL DEF Spec

\* The quota that a limited subject has spent passed within the last window.
LEMMA LimitedSpent ==
  ASSUME LimiterInv, NEW s \in Subjects, Request(s), reply'.status = "rate_limited"
  PROVE  reply'.subject = s /\ AdmittedIn(s, LastWindow) >= Limit
  <1> DEFINE map == Purged(requests)  current == Counted(map, s)
  <1>1. reply' = [subject |-> s, status |-> "rate_limited"] /\ OverLimit(current.count)
    BY DEF Request
  <1> HIDE DEF map, current
  <1>2. map = Purged(requests) /\ current = Counted(map, s)
    BY DEF map, current
  <1>3. /\ current \in Entries /\ current.resetAt > now /\ Opened(current) \in 0 .. now
        /\ \/ /\ Open(map, s) /\ current.count = map[s].count + 1 /\ AdmittedIn(s, Opened(current) .. now) = Spent(map[s].count)
              /\ \E a \in admitted[s] : a[1] = Opened(current)
           \/ current.count = 1
    BY <1>2, CountedEntry
  <1>4. Limit \in Nat \ {0} /\ Window \in Nat \ {0} /\ now \in Nat
    BY LimiterAssumption DEF LimiterInv, TypeOK, Times
  <1>5. Open(map, s) /\ map[s].count \in Nat
    BY <1>1, <1>2, <1>3, <1>4, PurgeKeeps DEF OverLimit, LimiterInv, TypeOK, Open, Entries
  <1>6. AdmittedIn(s, Opened(current) .. now) = Limit
    BY <1>1, <1>3, <1>4, <1>5 DEF OverLimit, Spent
  <1>7. \A a \in admitted[s] : a[1] \in Opened(current) .. now => a[1] \in LastWindow
    BY <1>3, <1>4 DEF LastWindow, LimiterInv, TypeOK, Times, Opened, Entries
  <1>8. AdmittedIn(s, Opened(current) .. now) <= AdmittedIn(s, LastWindow)
    BY <1>7, AdmittedWider DEF LimiterInv
  <1> QED
    BY <1>1, <1>4, <1>6, <1>8, AdmittedNat DEF LimiterInv

\* A request is limited on account of its own subject's admissions.
LEMMA LimitedStep ==
  LimiterInv /\ [Next]_vars =>
    (requests' # requests /\ reply'.status = "rate_limited" => AdmittedIn(reply'.subject, LastWindow) >= Limit)
  BY LimitedSpent DEF Next, Tick, vars

\* Nobody is limited for another's requests or for requests that a window no longer counts.
THEOREM LimitedOnlyIfSpent == Spec => LimitedOnlyWhenSpent
  <1>1. LimiterInv /\ [Next]_vars =>
          [requests' # requests /\ reply'.status = "rate_limited" => AdmittedIn(reply'.subject, LastWindow) >= Limit]_vars
    BY LimitedStep
  <1> QED
    BY LimiterInitInv, LimiterStep, <1>1, PTL DEF Spec, LimitedOnlyWhenSpent

-------------------------------------------------------------------------------

CallRecords == [phase : Phases, subject : Subjects \cup {NoOne}, body : Bodies,
                name : Names \cup {Registered}, shown : Names \cup {Registered}, answer : Answers,
                durable : BOOLEAN, lost : BOOLEAN]
ConnectionRecords == [holder : Calls \cup {NoOne}, open : BOOLEAN, scope : Subjects \cup {NoOne}, draft : Names \cup {NoOne}]
RecordsOK == /\ call \in [Calls -> CallRecords] /\ connection \in [Connections -> ConnectionRecords]
             /\ profile \in [Subjects -> Names \cup {Registered}]

\* Whoever holds a connection is in its transaction, and holds no other.
Working == Phases \ {"new", "connecting", "answered"}
PoolKnown ==
  /\ CleanPool
  /\ \A k \in Connections : connection[k].holder # NoOne => call[connection[k].holder].phase \in Working
  /\ \A k, j \in Connections : connection[k].holder = connection[j].holder /\ connection[k].holder # NoOne => k = j

\* How far a transaction has come tells what its connection carries.
Carries(c, k) ==
  /\ call[c].phase \in {"begin", "scope"} => connection[k].draft = NoOne
  /\ call[c].phase \in {"write", "read", "commit"} => connection[k].scope = call[c].subject
  /\ call[c].phase = "write" => connection[k].draft = NoOne /\ call[c].body = "valid"
  /\ call[c].phase \in {"read", "commit"} =>
       connection[k].draft = IF call[c].body = "valid" THEN call[c].name ELSE NoOne
  /\ call[c].phase = "commit" /\ call[c].body = "valid" => call[c].shown = call[c].name
  /\ call[c].phase = "committed" => connection[k] = [Free EXCEPT !.holder = c]
TransactionsKnown == \A k \in Connections : connection[k].holder # NoOne => Carries(connection[k].holder, k)

\* What a user has been told, and what became of the update.
CallKnown(c) ==
  /\ call[c].body = "valid" => call[c].name \in Names
  /\ call[c].phase \in Working => call[c].subject \in Subjects /\ call[c].answer = "none"
  /\ call[c].phase = "connecting" => call[c].subject \in Subjects /\ call[c].answer = "none"
  /\ call[c].phase = "new" => call[c].answer = "none"
  /\ call[c].answer = "ok" => call[c].phase = "answered"
  /\ call[c].phase = "committed" \/ call[c].answer = "ok" =>
       (call[c].body = "valid" => call[c].durable = TRUE /\ call[c].shown = call[c].name)
  /\ call[c].durable = TRUE =>
       \/ call[c].phase = "committed"
       \/ call[c].phase = "answered" /\ (call[c].answer = "ok" \/ (call[c].answer = "unavailable" /\ call[c].lost = TRUE))
CallsKnown == \A c \in Calls : CallKnown(c)

ServiceInv == LimiterInv /\ RecordsOK /\ PoolKnown /\ TransactionsKnown /\ CallsKnown

-------------------------------------------------------------------------------

\* The invariant holds at the start.
LEMMA ServiceInitInv == ServiceInit => ServiceInv
  <1> SUFFICES ASSUME ServiceInit PROVE ServiceInv
    OBVIOUS
  <1>1. LimiterInv
    BY LimiterInitInv DEF ServiceInit
  <1>2. RecordsOK
    BY DEF ServiceInit, RecordsOK, CallRecords, ConnectionRecords, Free, Phases, Bodies, Answers
  <1>3. PoolKnown /\ TransactionsKnown
    BY DEF ServiceInit, PoolKnown, TransactionsKnown, Carries, CleanPool, Free
  <1>4. CallsKnown
    BY DEF ServiceInit, CallsKnown, CallKnown, Working
  <1> QED
    BY <1>1, <1>2, <1>3, <1>4 DEF ServiceInv

\* What a step makes of the request it serves, and of the connection; the others stay.
Becomes(c, onward, shown, answer) ==
  /\ call' \in [Calls -> CallRecords]
  /\ \A d \in Calls : d # c => call'[d] = call[d]
  /\ call'[c].phase = onward /\ call'[c].shown = shown /\ call'[c].answer = answer
  /\ call'[c].subject = call[c].subject /\ call'[c].body = call[c].body /\ call'[c].name = call[c].name
Turns(k, holder, scope, draft) ==
  /\ connection' \in [Connections -> ConnectionRecords]
  /\ \A j \in Connections : j # k => connection'[j] = connection[j]
  /\ connection'[k].holder = holder /\ connection'[k].scope = scope /\ connection'[k].draft = draft
KeepsUpdate(c) == call'[c].durable = call[c].durable /\ call'[c].lost = call[c].lost

\* A call that goes on changes nothing but where it is.
LEMMA GotoBecomes ==
  ASSUME RecordsOK, NEW c \in Calls, NEW onward \in Phases, Goto(c, onward)
  PROVE  Becomes(c, onward, call[c].shown, call[c].answer) /\ KeepsUpdate(c)
  BY DEF RecordsOK, Goto, Becomes, KeepsUpdate, CallRecords

\* An answered call keeps what it has shown and saved.
LEMMA AnswerBecomes ==
  ASSUME RecordsOK, NEW c \in Calls, NEW answer \in Answers, Answer(c, answer)
  PROVE  Becomes(c, "answered", call[c].shown, answer) /\ KeepsUpdate(c)
  <1>1. call' = [call EXCEPT ![c] = [call[c] EXCEPT !.phase = "answered", !.answer = answer]]
    BY DEF Answer, RecordsOK
  <1>2. call[c] \in CallRecords
    BY DEF RecordsOK
  <1>3. [call[c] EXCEPT !.phase = "answered", !.answer = answer] \in CallRecords
    BY <1>2 DEF CallRecords, Phases
  <1> QED
    BY <1>1, <1>2, <1>3 DEF RecordsOK, Becomes, KeepsUpdate, CallRecords

\* The read shows what the transaction sees.
LEMMA ReadBecomes ==
  ASSUME RecordsOK, NEW c \in Calls, NEW k \in Connections, Read(c, k), call[c].subject \in Subjects
  PROVE  Becomes(c, "commit", Visible(call[c].subject, k), call[c].answer) /\ KeepsUpdate(c)
  <1> DEFINE shown == Visible(call[c].subject, k)
             new == [call[c] EXCEPT !.shown = shown, !.phase = "commit"]
  <1>1. call' = [call EXCEPT ![c] = new]
    BY DEF Read, RecordsOK
  <1>2. call[c] \in CallRecords /\ connection[k] \in ConnectionRecords /\ profile[call[c].subject] \in Names \cup {Registered}
    BY DEF RecordsOK
  <1>3. shown \in Names \cup {Registered}
    BY <1>2, ServiceAssumption DEF Visible, ConnectionRecords
  <1> HIDE DEF shown
  <1>4. new \in CallRecords /\ new.phase = "commit" /\ new.shown = shown /\ new.answer = call[c].answer
        /\ new.subject = call[c].subject /\ new.body = call[c].body /\ new.name = call[c].name
        /\ new.durable = call[c].durable /\ new.lost = call[c].lost
    BY <1>2, <1>3 DEF CallRecords, Phases
  <1> HIDE DEF new
  <1>5. call' \in [Calls -> CallRecords] /\ call'[c] = new /\ \A d \in Calls : d # c => call'[d] = call[d]
    BY <1>1, <1>4 DEF RecordsOK
  <1> QED
    BY <1>4, <1>5 DEF Becomes, KeepsUpdate, shown

\* A COMMIT that succeeds saves the draft of its own subject.
LEMMA CommitBecomes ==
  ASSUME RecordsOK, NEW c \in Calls, NEW k \in Connections, Commit(c, k),
         connection[k].draft # NoOne => connection[k].scope \in Subjects
  PROVE  /\ Becomes(c, "committed", call[c].shown, call[c].answer)
         /\ Turns(k, c, NoOne, NoOne) /\ connection'[k] = [Free EXCEPT !.holder = c]
         /\ call'[c].lost = call[c].lost
         /\ connection[k].draft # NoOne => call'[c].durable = TRUE
         /\ connection[k].draft = NoOne => call'[c].durable = call[c].durable
         /\ profile' \in [Subjects -> Names \cup {Registered}]
  <1>1. [Free EXCEPT !.holder = c] \in ConnectionRecords
    BY DEF Free, ConnectionRecords
  <1>2. [Free EXCEPT !.holder = c].holder = c /\ [Free EXCEPT !.holder = c].scope = NoOne /\ [Free EXCEPT !.holder = c].draft = NoOne
    BY DEF Free
  <1>3. Turns(k, c, NoOne, NoOne) /\ connection'[k] = [Free EXCEPT !.holder = c]
    BY <1>1, <1>2 DEF Commit, RecordsOK, Turns
  <1>4. call[c] \in CallRecords /\ connection[k] \in ConnectionRecords
    BY DEF RecordsOK
  <1>5. CASE connection[k].draft # NoOne
    <2>1. call' = [call EXCEPT ![c] = [call[c] EXCEPT !.phase = "committed", !.durable = TRUE]]
      BY <1>5 DEF Commit, RecordsOK
    <2>2. [call[c] EXCEPT !.phase = "committed", !.durable = TRUE] \in CallRecords
      BY <1>4 DEF CallRecords, Phases
    <2>3. Becomes(c, "committed", call[c].shown, call[c].answer) /\ call'[c].lost = call[c].lost /\ call'[c].durable = TRUE
      BY <1>4, <2>1, <2>2 DEF RecordsOK, Becomes, CallRecords
    <2>4. profile' \in [Subjects -> Names \cup {Registered}]
      BY <1>4, <1>5 DEF Commit, RecordsOK, ConnectionRecords
    <2> QED
      BY <1>3, <1>5, <2>3, <2>4
  <1>6. CASE connection[k].draft = NoOne
    <2>1. Goto(c, "committed") /\ UNCHANGED profile /\ "committed" \in Phases
      BY <1>6 DEF Commit, Phases
    <2> QED
      BY <1>3, <1>6, <2>1, GotoBecomes DEF KeepsUpdate, RecordsOK
  <1> QED
    BY <1>5, <1>6

\* A lost connection answers "unavailable"; after the COMMIT the answer is lost, not the work.
LEMMA BreakBecomes ==
  ASSUME RecordsOK, NEW c \in Calls, NEW k \in Connections, Break(c, k)
  PROVE  /\ Becomes(c, "answered", call[c].shown, "unavailable")
         /\ call'[c].durable = call[c].durable /\ (call[c].phase = "committed" => call'[c].lost = TRUE)
  <1> DEFINE dropped == call[c].phase = "committed"
             new == [call[c] EXCEPT !.phase = "answered", !.answer = "unavailable", !.lost = dropped]
  <1>1. call' = [call EXCEPT ![c] = new]
    BY DEF Break, RecordsOK
  <1>2. call[c] \in CallRecords
    BY DEF RecordsOK
  <1>3. dropped \in BOOLEAN /\ (call[c].phase = "committed" => dropped = TRUE)
    BY Zenon
  <1> HIDE DEF dropped
  <1>4. new \in CallRecords /\ new.phase = "answered" /\ new.answer = "unavailable" /\ new.lost = dropped
        /\ new.durable = call[c].durable /\ new.shown = call[c].shown /\ new.subject = call[c].subject
        /\ new.body = call[c].body /\ new.name = call[c].name
    BY <1>2, <1>3 DEF CallRecords, Phases, Answers
  <1> HIDE DEF new
  <1>5. call' \in [Calls -> CallRecords] /\ call'[c] = new /\ \A d \in Calls : d # c => call'[d] = call[d]
    BY <1>1, <1>4 DEF RecordsOK
  <1> QED
    BY <1>3, <1>4, <1>5 DEF Becomes

\* A request that is admitted asks for a connection; any other is answered at once.
LEMMA AdmitBecomes ==
  ASSUME RecordsOK, NEW c \in Calls, NEW s \in Subjects, NEW body \in Bodies, Admit(c, s, body)
  PROVE  /\ call[c].phase = "new" /\ call' \in [Calls -> CallRecords] /\ \A d \in Calls : d # c => call'[d] = call[d]
         /\ call'[c].durable = call[c].durable /\ call'[c].lost = call[c].lost
         /\ \/ /\ call'[c].phase = "connecting" /\ call'[c].subject = s /\ call'[c].body = body
               /\ call'[c].answer = call[c].answer /\ (body = "valid" => call'[c].name \in Names)
            \/ /\ call'[c].phase = "answered" /\ call'[c].answer \in Answers \ {"ok"}
               /\ call'[c].body = call[c].body /\ call'[c].name = call[c].name
  <1>1. call[c] \in CallRecords /\ call[c].phase = "new"
    BY DEF RecordsOK, Admit
  <1>2. ASSUME NEW answer \in Answers \ {"ok"}, Answer(c, answer)
        PROVE  /\ call' \in [Calls -> CallRecords] /\ \A d \in Calls : d # c => call'[d] = call[d]
               /\ call'[c].durable = call[c].durable /\ call'[c].lost = call[c].lost
               /\ call'[c].phase = "answered" /\ call'[c].answer \in Answers \ {"ok"}
               /\ call'[c].body = call[c].body /\ call'[c].name = call[c].name
    BY <1>2, AnswerBecomes DEF Becomes, KeepsUpdate
  <1>3. ASSUME NEW name \in IF body = "valid" THEN Names ELSE {Registered},
               call' = [call EXCEPT ![c].phase = "connecting", ![c].subject = s, ![c].body = body, ![c].name = name]
        PROVE  /\ call' \in [Calls -> CallRecords] /\ \A d \in Calls : d # c => call'[d] = call[d]
               /\ call'[c].durable = call[c].durable /\ call'[c].lost = call[c].lost
               /\ call'[c].phase = "connecting" /\ call'[c].subject = s /\ call'[c].body = body
               /\ call'[c].answer = call[c].answer /\ (body = "valid" => call'[c].name \in Names)
    <2> DEFINE new == [call[c] EXCEPT !.phase = "connecting", !.subject = s, !.body = body, !.name = name]
    <2>1. call' = [call EXCEPT ![c] = new]
      BY <1>3 DEF RecordsOK
    <2>2. new \in CallRecords /\ new.phase = "connecting" /\ new.subject = s /\ new.body = body /\ new.name = name
          /\ new.durable = call[c].durable /\ new.lost = call[c].lost /\ new.answer = call[c].answer
      BY <1>1 DEF CallRecords, Phases
    <2> HIDE DEF new
    <2>3. call' \in [Calls -> CallRecords] /\ call'[c] = new /\ \A d \in Calls : d # c => call'[d] = call[d]
      BY <2>1, <2>2 DEF RecordsOK
    <2> QED
      BY <2>2, <2>3
  <1>4. \/ \E name \in IF body = "valid" THEN Names ELSE {Registered} :
             call' = [call EXCEPT ![c].phase = "connecting", ![c].subject = s, ![c].body = body, ![c].name = name]
        \/ \E answer \in Answers \ {"ok"} : Answer(c, answer)
    <2>1. Refusal(body) # "none" => Refusal(body) \in Answers \ {"ok"}
      BY DEF Refusal, Answers
    <2>2. reply'.status # "admitted" => reply'.status \in Answers \ {"ok"}
      <3>1. reply'.status \in {"busy", "rate_limited", "admitted"}
        BY DEF Admit, Request
      <3> QED
        BY <3>1 DEF Answers
    <2>3. "not_found" \in Answers \ {"ok"}
      BY DEF Answers
    <2> QED
      BY <2>1, <2>2, <2>3 DEF Admit, Admitted
  <1> QED
    BY <1>1, <1>2, <1>3, <1>4

\* A connection that is given back keeps nothing of its transaction.
LEMMA Released ==
  ASSUME NEW c, NEW r, r = [Free EXCEPT !.holder = c] PROVE r.open = FALSE /\ r.scope = NoOne /\ r.draft = NoOne
  BY DEF Free

\* A connection without holder, transaction, scope and draft is free.
LEMMA FreeFields ==
  ASSUME NEW r \in ConnectionRecords, r.holder = NoOne, r.open = FALSE, r.scope = NoOne, r.draft = NoOne PROVE r = Free
  BY DEF Free, ConnectionRecords

\* Taking a connection changes its holder only.
LEMMA HolderTurns ==
  ASSUME RecordsOK, NEW k \in Connections, NEW holder \in Calls \cup {NoOne},
         connection' = [connection EXCEPT ![k].holder = holder]
  PROVE  Turns(k, holder, connection[k].scope, connection[k].draft)
         /\ connection'[k] = [connection[k] EXCEPT !.holder = holder]
  BY DEF RecordsOK, Turns, ConnectionRecords

\* A connection given back is free.
LEMMA FreedTurns ==
  ASSUME RecordsOK, NEW k \in Connections, connection' = [connection EXCEPT ![k] = Free]
  PROVE  Turns(k, NoOne, NoOne, NoOne) /\ connection'[k] = Free
  BY DEF RecordsOK, Turns, ConnectionRecords, Free

\* BEGIN opens the transaction of the holder.
LEMMA OpenTurns ==
  ASSUME RecordsOK, NEW k \in Connections, connection' = [connection EXCEPT ![k].open = TRUE]
  PROVE  Turns(k, connection[k].holder, connection[k].scope, connection[k].draft)
  BY DEF RecordsOK, Turns, ConnectionRecords

\* set_config scopes the transaction to a subject.
LEMMA ScopeTurns ==
  ASSUME RecordsOK, NEW k \in Connections, NEW s \in Subjects \cup {NoOne}, connection' = [connection EXCEPT ![k].scope = s]
  PROVE  Turns(k, connection[k].holder, s, connection[k].draft)
  BY DEF RecordsOK, Turns, ConnectionRecords

\* The upsert leaves a draft until the COMMIT.
LEMMA DraftTurns ==
  ASSUME RecordsOK, NEW k \in Connections, NEW n \in Names, connection' = [connection EXCEPT ![k].draft = n]
  PROVE  Turns(k, connection[k].holder, connection[k].scope, n)
  BY DEF RecordsOK, Turns, ConnectionRecords

-------------------------------------------------------------------------------

\* A step of the request c that holds k keeps the pool if it frees k, or if c goes on working.
LEMMA PoolStep ==
  ASSUME RecordsOK, PoolKnown, NEW c \in Calls, NEW k \in Connections, connection[k].holder = c,
         \A d \in Calls : d # c => call'[d] = call[d],
         \A j \in Connections : j # k => connection'[j] = connection[j],
         \/ connection'[k] = Free
         \/ connection'[k].holder = c /\ call'[c].phase \in Working
  PROVE  PoolKnown'
  <1>1. \A j \in Connections : connection'[j] # connection[j] => j = k
    OBVIOUS
  <1>2. Free.holder = NoOne /\ c # NoOne
    BY ServiceAssumption DEF Free
  <1>3. CleanPool'
    BY <1>1, <1>2 DEF PoolKnown, CleanPool, Free
  <1>4. ASSUME NEW j \in Connections, connection'[j].holder # NoOne PROVE call'[connection'[j].holder].phase \in Working
    <2>1. CASE j = k
      BY <1>2, <1>4, <2>1
    <2>2. CASE j # k
      <3>1. connection'[j] = connection[j] /\ connection[j].holder # c /\ connection[j].holder \in Calls
        BY <1>2, <1>4, <2>2 DEF PoolKnown, RecordsOK, ConnectionRecords
      <3> QED
        BY <1>4, <3>1 DEF PoolKnown
    <2> QED
      BY <2>1, <2>2
  <1>5. ASSUME NEW ix \in Connections, NEW j \in Connections,
               connection'[ix].holder = connection'[j].holder, connection'[ix].holder # NoOne
        PROVE  ix = j
    BY <1>2, <1>5 DEF PoolKnown
  <1> QED
    BY <1>3, <1>4, <1>5 DEF PoolKnown

\* What the other requests and their connections carry does not depend on c and k.
LEMMA OthersCarry ==
  ASSUME RecordsOK, PoolKnown, TransactionsKnown, NEW c \in Calls, NEW k \in Connections, connection[k].holder = c,
         \A d \in Calls : d # c => call'[d] = call[d], NEW j \in Connections, j # k,
         connection'[j] = connection[j], NEW d, d = connection'[j].holder, d # NoOne
  PROVE  Carries(d, j)'
  <1>1. d # c /\ d \in Calls /\ d = connection[j].holder
    BY DEF PoolKnown, RecordsOK, ConnectionRecords
  <1>2. Carries(d, j) /\ call'[d] = call[d]
    BY <1>1 DEF TransactionsKnown
  <1> QED
    BY <1>1, <1>2 DEF Carries

\* A call that works on its connection disturbs no other transaction.
LEMMA CarriesStep ==
  ASSUME RecordsOK, PoolKnown, TransactionsKnown, NEW c \in Calls, NEW k \in Connections, connection[k].holder = c,
         \A d \in Calls : d # c => call'[d] = call[d],
         \A j \in Connections : j # k => connection'[j] = connection[j],
         connection'[k].holder = c, Carries(c, k)'
  PROVE  TransactionsKnown'
  <1> SUFFICES ASSUME NEW j \in Connections, NEW d, d = connection'[j].holder, d # NoOne PROVE Carries(d, j)'
    BY DEF TransactionsKnown
  <1>1. CASE j = k
    BY <1>1
  <1>2. CASE j # k
    BY <1>2, OthersCarry
  <1> QED
    BY <1>1, <1>2

\* A call that gives its connection back disturbs no other transaction.
LEMMA FreedStep ==
  ASSUME RecordsOK, PoolKnown, TransactionsKnown, NEW c \in Calls, NEW k \in Connections, connection[k].holder = c,
         \A d \in Calls : d # c => call'[d] = call[d],
         \A j \in Connections : j # k => connection'[j] = connection[j],
         connection'[k] = Free
  PROVE  TransactionsKnown'
  <1> SUFFICES ASSUME NEW j \in Connections, NEW d, d = connection'[j].holder, d # NoOne PROVE Carries(d, j)'
    BY DEF TransactionsKnown
  <1>1. j # k
    BY DEF Free
  <1> QED
    BY <1>1, OthersCarry

\* What is known of the other calls stays known.
LEMMA CallsStep ==
  ASSUME CallsKnown, NEW c \in Calls, \A d \in Calls : d # c => call'[d] = call[d], CallKnown(c)'
  PROVE  CallsKnown'
  BY DEF CallsKnown, CallKnown

\* The steps of a transaction.
LEMMA TransactionStep ==
  ASSUME RecordsOK, PoolKnown, TransactionsKnown, CallsKnown, NEW c \in Calls, NEW k \in Connections,
         \/ Begin(c, k) \/ Scope(c, k) \/ Write(c, k) \/ Read(c, k) \/ Commit(c, k)
         \/ Finish(c, k) \/ Fail(c, k) \/ Rollback(c, k) \/ Break(c, k)
  PROVE  RecordsOK' /\ PoolKnown' /\ TransactionsKnown' /\ CallsKnown'
  <1> DEFINE Good == RecordsOK' /\ PoolKnown' /\ TransactionsKnown' /\ CallsKnown'
  <1>a. /\ connection[k].holder = c /\ call[c] \in CallRecords /\ connection[k] \in ConnectionRecords
        /\ connection[k].holder # NoOne
    BY ServiceAssumption DEF Held, Begin, Scope, Write, Read, Commit, Finish, Fail, Rollback, Break, RecordsOK
  <1>b. call[c].phase \in Working /\ Carries(c, k) /\ CallKnown(c)
    BY <1>a DEF PoolKnown, TransactionsKnown, CallsKnown
  <1>s. call[c].subject \in Subjects
    BY <1>b DEF CallKnown
  <1>c. /\ \A onward \in {"begin", "scope", "write", "read", "commit", "committed", "rollback"} : onward \in Phases /\ onward \in Working
        /\ \A answer \in {"ok", "unavailable"} : answer \in Answers
    BY DEF Phases, Working, Answers
  <1>1. CASE Begin(c, k)
    <2>1. Becomes(c, "scope", call[c].shown, call[c].answer) /\ KeepsUpdate(c)
      BY <1>1, <1>a, <1>b, <1>c, <1>s, GotoBecomes DEF Begin
    <2>2. Turns(k, c, connection[k].scope, connection[k].draft)
      BY <1>1, <1>a, <1>b, <1>s, OpenTurns DEF Begin
    <2>3. RecordsOK'
      BY <1>1, <2>1, <2>2 DEF Begin, RecordsOK, Becomes, Turns
    <2>4. PoolKnown'
      BY <1>a, <1>c, <2>1, <2>2, PoolStep DEF Becomes, Turns
    <2>5. TransactionsKnown'
      <3>1. Carries(c, k)'
        BY <1>1, <1>a, <1>b, <2>1, <2>2, ServiceAssumption DEF Begin, Becomes, Turns, Carries, CallKnown
      <3> QED
        BY <1>a, <2>1, <2>2, <3>1, CarriesStep DEF Becomes, Turns
    <2>6. CallKnown(c)'
      BY <1>1, <1>a, <1>b, <1>s, <2>1 DEF Begin, Becomes, KeepsUpdate, CallKnown, Working, Phases
    <2> QED
      BY <2>1, <2>3, <2>4, <2>5, <2>6, CallsStep DEF Becomes
  <1>2. CASE Scope(c, k)
    <2>1. Becomes(c, IF call[c].body = "valid" THEN "write" ELSE "read", call[c].shown, call[c].answer) /\ KeepsUpdate(c)
      BY <1>2, <1>a, <1>b, <1>c, <1>s, GotoBecomes DEF Scope
    <2>2. Turns(k, c, call[c].subject, connection[k].draft)
      BY <1>2, <1>a, <1>b, <1>s, ScopeTurns DEF Scope
    <2>3. RecordsOK'
      BY <1>2, <2>1, <2>2 DEF Scope, RecordsOK, Becomes, Turns
    <2>4. PoolKnown'
      BY <1>a, <1>c, <2>1, <2>2, PoolStep DEF Becomes, Turns
    <2>5. TransactionsKnown'
      <3>1. Carries(c, k)'
        BY <1>2, <1>a, <1>b, <2>1, <2>2, ServiceAssumption DEF Scope, Becomes, Turns, Carries, CallKnown
      <3> QED
        BY <1>a, <2>1, <2>2, <3>1, CarriesStep DEF Becomes, Turns
    <2>6. CallKnown(c)'
      BY <1>2, <1>a, <1>b, <1>s, <2>1 DEF Scope, Becomes, KeepsUpdate, CallKnown, Working, Phases
    <2> QED
      BY <2>1, <2>3, <2>4, <2>5, <2>6, CallsStep DEF Becomes
  <1>3. CASE Write(c, k)
    <2>1. Becomes(c, "read", call[c].shown, call[c].answer) /\ KeepsUpdate(c)
      BY <1>3, <1>a, <1>b, <1>c, <1>s, GotoBecomes DEF Write
    <2>2. Turns(k, c, connection[k].scope, call[c].name)
      BY <1>3, <1>a, <1>b, <1>s, DraftTurns DEF Write, CallKnown, Carries
    <2>3. RecordsOK'
      BY <1>3, <2>1, <2>2 DEF Write, RecordsOK, Becomes, Turns
    <2>4. PoolKnown'
      BY <1>a, <1>c, <2>1, <2>2, PoolStep DEF Becomes, Turns
    <2>5. TransactionsKnown'
      <3>1. Carries(c, k)'
        BY <1>3, <1>a, <1>b, <2>1, <2>2, ServiceAssumption DEF Write, Becomes, Turns, Carries, CallKnown
      <3> QED
        BY <1>a, <2>1, <2>2, <3>1, CarriesStep DEF Becomes, Turns
    <2>6. CallKnown(c)'
      BY <1>3, <1>a, <1>b, <1>s, <2>1 DEF Write, Becomes, KeepsUpdate, CallKnown, Working, Phases
    <2> QED
      BY <2>1, <2>3, <2>4, <2>5, <2>6, CallsStep DEF Becomes
  <1>4. CASE Read(c, k)
    <2>1. Becomes(c, "commit", Visible(call[c].subject, k), call[c].answer) /\ KeepsUpdate(c)
      BY <1>4, <1>a, <1>b, <1>c, <1>s, ReadBecomes DEF Read
    <2>2. Turns(k, c, connection[k].scope, connection[k].draft)
      BY <1>4, <1>a DEF Read, Turns, RecordsOK
    <2>3. RecordsOK'
      BY <1>4, <2>1, <2>2 DEF Read, RecordsOK, Becomes, Turns
    <2>4. PoolKnown'
      BY <1>a, <1>c, <2>1, <2>2, PoolStep DEF Becomes, Turns
    <2>5. TransactionsKnown'
      <3>1. Carries(c, k)'
        BY <1>4, <1>a, <1>b, <2>1, <2>2, ServiceAssumption DEF Read, Becomes, Turns, Carries, CallKnown, Visible
      <3> QED
        BY <1>a, <2>1, <2>2, <3>1, CarriesStep DEF Becomes, Turns
    <2>6. CallKnown(c)'
      BY <1>4, <1>a, <1>b, <1>s, <2>1 DEF Read, Becomes, KeepsUpdate, CallKnown, Working, Phases
    <2> QED
      BY <2>1, <2>3, <2>4, <2>5, <2>6, CallsStep DEF Becomes
  <1>5. CASE Finish(c, k)
    <2>1. Becomes(c, "answered", call[c].shown, "ok") /\ KeepsUpdate(c)
      BY <1>5, <1>a, <1>b, <1>c, <1>s, AnswerBecomes DEF Finish
    <2>2. Turns(k, NoOne, connection[k].scope, connection[k].draft) /\ connection'[k] = Free
      <3>1. connection[k] = [Free EXCEPT !.holder = c]
        BY <1>5, <1>b DEF Finish, Carries
      <3>2. connection' = [connection EXCEPT ![k].holder = NoOne]
        BY <1>5 DEF Finish
      <3>3. Turns(k, NoOne, connection[k].scope, connection[k].draft) /\ connection'[k] = [connection[k] EXCEPT !.holder = NoOne]
        BY <3>2, HolderTurns
      <3>4. connection'[k].open = FALSE /\ connection[k].scope = NoOne /\ connection[k].draft = NoOne
        BY <1>a, <3>1, <3>3, Released DEF ConnectionRecords
      <3> QED
        BY <3>3, <3>4, FreeFields DEF Turns
    <2>3. RecordsOK'
      BY <1>5, <2>1, <2>2 DEF Finish, RecordsOK, Becomes, Turns
    <2>4. PoolKnown'
      BY <1>a, <1>c, <2>1, <2>2, PoolStep DEF Becomes, Turns
    <2>5. TransactionsKnown'
      BY <1>a, <2>1, <2>2, FreedStep DEF Becomes, Turns
    <2>6. CallKnown(c)'
      BY <1>5, <1>a, <1>b, <1>s, <2>1 DEF Finish, Becomes, KeepsUpdate, CallKnown, Working, Phases
    <2> QED
      BY <2>1, <2>3, <2>4, <2>5, <2>6, CallsStep DEF Becomes
  <1>6. CASE Fail(c, k)
    <2>1. Becomes(c, "rollback", call[c].shown, call[c].answer) /\ KeepsUpdate(c)
      BY <1>6, <1>a, <1>b, <1>c, <1>s, GotoBecomes DEF Fail
    <2>2. Turns(k, c, connection[k].scope, connection[k].draft)
      BY <1>6, <1>a DEF Fail, Turns, RecordsOK
    <2>3. RecordsOK'
      BY <1>6, <2>1, <2>2 DEF Fail, RecordsOK, Becomes, Turns
    <2>4. PoolKnown'
      BY <1>a, <1>c, <2>1, <2>2, PoolStep DEF Becomes, Turns
    <2>5. TransactionsKnown'
      <3>1. Carries(c, k)'
        BY <1>6, <1>a, <1>b, <2>1, <2>2, ServiceAssumption DEF Fail, Becomes, Turns, Carries, CallKnown
      <3> QED
        BY <1>a, <2>1, <2>2, <3>1, CarriesStep DEF Becomes, Turns
    <2>6. CallKnown(c)'
      BY <1>6, <1>a, <1>b, <1>s, <2>1 DEF Fail, Becomes, KeepsUpdate, CallKnown, Working, Phases
    <2> QED
      BY <2>1, <2>3, <2>4, <2>5, <2>6, CallsStep DEF Becomes
  <1>7. CASE Rollback(c, k)
    <2>1. Becomes(c, "answered", call[c].shown, "unavailable") /\ KeepsUpdate(c)
      BY <1>7, <1>a, <1>b, <1>c, <1>s, AnswerBecomes DEF Rollback
    <2>2. Turns(k, NoOne, NoOne, NoOne) /\ connection'[k] = Free
      BY <1>7, <1>a, <1>b, <1>s, FreedTurns DEF Rollback
    <2>3. RecordsOK'
      BY <1>7, <2>1, <2>2 DEF Rollback, RecordsOK, Becomes, Turns
    <2>4. PoolKnown'
      BY <1>a, <1>c, <2>1, <2>2, PoolStep DEF Becomes, Turns
    <2>5. TransactionsKnown'
      BY <1>a, <2>1, <2>2, FreedStep DEF Becomes, Turns
    <2>6. CallKnown(c)'
      BY <1>7, <1>a, <1>b, <1>s, <2>1 DEF Rollback, Becomes, KeepsUpdate, CallKnown, Working, Phases
    <2> QED
      BY <2>1, <2>3, <2>4, <2>5, <2>6, CallsStep DEF Becomes
  <1>8. CASE Commit(c, k)
    <2>0. connection[k].draft # NoOne => connection[k].scope \in Subjects
      BY <1>8, <1>b, <1>s DEF Commit, Carries
    <2>1. /\ Becomes(c, "committed", call[c].shown, call[c].answer)
          /\ Turns(k, c, NoOne, NoOne) /\ connection'[k] = [Free EXCEPT !.holder = c]
          /\ connection[k].draft # NoOne => call'[c].durable = TRUE
          /\ connection[k].draft = NoOne => call'[c].durable = call[c].durable
          /\ profile' \in [Subjects -> Names \cup {Registered}]
      BY <1>8, <2>0, CommitBecomes
    <2>3. RecordsOK'
      BY <2>1 DEF RecordsOK, Becomes, Turns
    <2>4. PoolKnown'
      BY <1>a, <1>c, <2>1, PoolStep DEF Becomes, Turns
    <2>5. TransactionsKnown'
      <3>1. Carries(c, k)'
        BY <2>1 DEF Becomes, Turns, Carries
      <3> QED
        BY <1>a, <2>1, <3>1, CarriesStep DEF Becomes, Turns
    <2>6. CallKnown(c)'
      <3>1. /\ call[c].phase = "commit"
            /\ call[c].body = "valid" => connection[k].draft # NoOne /\ call[c].shown = call[c].name
        BY <1>8, <1>b, ServiceAssumption DEF Commit, Carries, CallKnown
      <3>2. call[c].answer = "none" /\ (call[c].body = "valid" => call[c].name \in Names)
        BY <1>b DEF CallKnown
      <3>3. call'[c].phase = "committed" /\ call'[c].answer = "none" /\ call'[c].subject \in Subjects
            /\ call'[c].body = call[c].body /\ call'[c].name = call[c].name /\ call'[c].shown = call[c].shown
        BY <1>s, <2>1, <3>2 DEF Becomes
      <3>4. call[c].body = "valid" => call'[c].durable = TRUE
        BY <2>1, <3>1
      <3>5. call[c].body = "valid" => call[c].shown = call[c].name
        BY <3>1
      <3> QED
        BY <3>2, <3>3, <3>4, <3>5 DEF CallKnown
    <2> QED
      BY <2>1, <2>3, <2>4, <2>5, <2>6, CallsStep DEF Becomes
  <1>9. CASE Break(c, k)
    <2>1. /\ Becomes(c, "answered", call[c].shown, "unavailable")
          /\ call'[c].durable = call[c].durable /\ (call[c].phase = "committed" => call'[c].lost = TRUE)
          /\ Turns(k, NoOne, NoOne, NoOne) /\ connection'[k] = Free
      BY <1>9, BreakBecomes, FreedTurns DEF Break
    <2>3. RecordsOK'
      BY <1>9, <2>1 DEF Break, RecordsOK, Becomes, Turns
    <2>4. PoolKnown'
      BY <1>a, <2>1, PoolStep DEF Becomes, Turns
    <2>5. TransactionsKnown'
      BY <1>a, <2>1, FreedStep DEF Becomes, Turns
    <2>6. CallKnown(c)'
      BY <1>a, <1>b, <2>1 DEF Becomes, CallKnown, Working, Phases
    <2> QED
      BY <2>1, <2>3, <2>4, <2>5, <2>6, CallsStep DEF Becomes
  <1> QED
    BY <1>1, <1>2, <1>3, <1>4, <1>5, <1>6, <1>7, <1>8, <1>9

\* A request comes, or is answered before it has a connection.
LEMMA RequestStep ==
  ASSUME RecordsOK, PoolKnown, TransactionsKnown, CallsKnown, NEW c \in Calls,
         call[c].phase \in {"new", "connecting"}, call' \in [Calls -> CallRecords],
         \A d \in Calls : d # c => call'[d] = call[d], CallKnown(c)', UNCHANGED <<connection, profile>>
  PROVE  RecordsOK' /\ PoolKnown' /\ TransactionsKnown' /\ CallsKnown'
  <1>1. \A k \in Connections : connection[k].holder # c
    BY ServiceAssumption DEF PoolKnown, Working
  <1>2. \A k \in Connections : connection[k].holder # NoOne =>
          connection[k].holder \in Calls /\ call'[connection[k].holder] = call[connection[k].holder]
    BY <1>1 DEF RecordsOK, ConnectionRecords
  <1>3. PoolKnown'
    BY <1>2 DEF PoolKnown, CleanPool
  <1>4. TransactionsKnown'
    <2> SUFFICES ASSUME NEW k \in Connections, NEW d, d = connection[k].holder, d # NoOne PROVE Carries(d, k)'
      BY DEF TransactionsKnown
    <2>1. Carries(d, k) /\ call'[d] = call[d]
      BY <1>2 DEF TransactionsKnown
    <2> QED
      BY <2>1 DEF Carries
  <1> QED
    BY <1>3, <1>4, CallsStep DEF RecordsOK

\* What the service does to its limiter is a step of the limiter.
LEMMA LimiterIsUsed == [ServiceNext]_serviceVars => [Next]_vars
  <1> SUFFICES ASSUME [ServiceNext]_serviceVars PROVE [Next]_vars
    OBVIOUS
  <1>1. ASSUME NEW c \in Calls, NEW s \in Subjects, NEW body \in Bodies, Admit(c, s, body) PROVE [Next]_vars
    BY <1>1 DEF Admit, Next
  <1>2. ASSUME ServiceTick PROVE [Next]_vars
    BY <1>2 DEF ServiceTick, Next
  <1>3. ASSUME NEW c \in Calls, Unauthorized(c) \/ ConnectFails(c) PROVE [Next]_vars
    BY <1>3 DEF Unauthorized, ConnectFails
  <1>4. ASSUME NEW c \in Calls, NEW k \in Connections,
               \/ Connect(c, k) \/ Begin(c, k) \/ Scope(c, k) \/ Write(c, k) \/ Read(c, k)
        PROVE  [Next]_vars
    BY <1>4 DEF Connect, Begin, Scope, Write, Read
  <1>5. ASSUME NEW c \in Calls, NEW k \in Connections,
               \/ Commit(c, k) \/ Finish(c, k) \/ Fail(c, k) \/ Rollback(c, k) \/ Break(c, k)
        PROVE  [Next]_vars
    BY <1>5 DEF Commit, Finish, Fail, Rollback, Break
  <1>6. ASSUME Done \/ UNCHANGED serviceVars PROVE [Next]_vars
    BY <1>6, Zenon DEF Done, serviceVars
  <1> QED
    BY <1>1, <1>2, <1>3, <1>4, <1>5, <1>6 DEF ServiceNext

\* Every step keeps the invariant.
LEMMA ServiceStep == ServiceInv /\ [ServiceNext]_serviceVars => ServiceInv'
  <1> SUFFICES ASSUME ServiceInv, [ServiceNext]_serviceVars PROVE ServiceInv'
    OBVIOUS
  <1> DEFINE Good == RecordsOK' /\ PoolKnown' /\ TransactionsKnown' /\ CallsKnown'
  <1> USE DEF ServiceInv
  <1>1. LimiterInv'
    BY LimiterIsUsed, LimiterStep
  <1>2. ASSUME UNCHANGED <<call, connection, profile>> PROVE Good
    BY <1>2 DEF RecordsOK, PoolKnown, CleanPool, TransactionsKnown, Carries, CallsKnown, CallKnown
  <1>3. ASSUME NEW c \in Calls, Unauthorized(c) PROVE Good
    <2>1. call[c].phase = "new" /\ UNCHANGED <<connection, profile>> /\ "unauthorized" \in Answers /\ CallKnown(c)
      BY <1>3 DEF Unauthorized, Answers, CallsKnown
    <2>2. Becomes(c, "answered", call[c].shown, "unauthorized") /\ KeepsUpdate(c)
      BY <1>3, <2>1, AnswerBecomes DEF Unauthorized
    <2>3. CallKnown(c)'
      BY <2>1, <2>2 DEF Becomes, KeepsUpdate, CallKnown, Working
    <2> QED
      BY <2>1, <2>2, <2>3, RequestStep DEF Becomes
  <1>4. ASSUME NEW c \in Calls, ConnectFails(c) PROVE Good
    <2>1. call[c].phase = "connecting" /\ UNCHANGED <<connection, profile>> /\ "unavailable" \in Answers /\ CallKnown(c)
      BY <1>4 DEF ConnectFails, Answers, CallsKnown
    <2>2. Becomes(c, "answered", call[c].shown, "unavailable") /\ KeepsUpdate(c)
      BY <1>4, <2>1, AnswerBecomes DEF ConnectFails
    <2>3. CallKnown(c)'
      BY <2>1, <2>2 DEF Becomes, KeepsUpdate, CallKnown, Working
    <2> QED
      BY <2>1, <2>2, <2>3, RequestStep DEF Becomes
  <1>5. ASSUME NEW c \in Calls, NEW s \in Subjects, NEW body \in Bodies, Admit(c, s, body) PROVE Good
    <2>1. /\ call[c].phase = "new" /\ call' \in [Calls -> CallRecords] /\ \A d \in Calls : d # c => call'[d] = call[d]
          /\ call'[c].durable = call[c].durable /\ call'[c].lost = call[c].lost
          /\ \/ /\ call'[c].phase = "connecting" /\ call'[c].subject = s /\ call'[c].body = body
                /\ call'[c].answer = call[c].answer /\ (body = "valid" => call'[c].name \in Names)
             \/ /\ call'[c].phase = "answered" /\ call'[c].answer \in Answers \ {"ok"}
                /\ call'[c].body = call[c].body /\ call'[c].name = call[c].name
      BY <1>5, AdmitBecomes
    <2>2. CallKnown(c) /\ UNCHANGED <<connection, profile>>
      BY <1>5 DEF CallsKnown, Admit
    <2>3. CallKnown(c)'
      BY <2>1, <2>2 DEF CallKnown, Working
    <2> QED
      BY <2>1, <2>2, <2>3, RequestStep
  <1>6. ASSUME NEW c \in Calls, NEW k \in Connections, Connect(c, k) PROVE Good
    <2>1. /\ Becomes(c, "begin", call[c].shown, call[c].answer) /\ KeepsUpdate(c)
          /\ Turns(k, c, connection[k].scope, connection[k].draft)
          /\ call[c].phase = "connecting" /\ connection[k].holder = NoOne
      BY <1>6, GotoBecomes, HolderTurns DEF Connect, Phases
    <2>2. \A j \in Connections : connection[j].holder # c
      BY <2>1, ServiceAssumption DEF PoolKnown, Working
    <2>3. c # NoOne /\ connection[k] = Free
      BY <2>1, ServiceAssumption DEF PoolKnown, CleanPool
    <2>4. \A j \in Connections : j # k => connection'[j] = connection[j] /\
             (connection[j].holder # NoOne => connection[j].holder \in Calls /\ call'[connection[j].holder] = call[connection[j].holder])
      BY <2>1, <2>2 DEF Becomes, Turns, RecordsOK, ConnectionRecords
    <2>5. RecordsOK'
      BY <1>6, <2>1 DEF Connect, Becomes, Turns, RecordsOK
    <2>6. PoolKnown'
      <3>1. CleanPool'
        BY <2>1, <2>3, <2>4 DEF Turns, PoolKnown, CleanPool
      <3>2. \A j \in Connections : connection'[j].holder # NoOne => call'[connection'[j].holder].phase \in Working
        BY <2>1, <2>4 DEF Becomes, Turns, PoolKnown, Working, Phases
      <3>3. \A ix, j \in Connections : connection'[ix].holder = connection'[j].holder /\ connection'[ix].holder # NoOne => ix = j
        BY <2>1, <2>2, <2>4 DEF Turns, PoolKnown
      <3> QED
        BY <3>1, <3>2, <3>3 DEF PoolKnown
    <2>7. TransactionsKnown'
      <3> SUFFICES ASSUME NEW j \in Connections, NEW d, d = connection'[j].holder, d # NoOne PROVE Carries(d, j)'
        BY DEF TransactionsKnown
      <3>1. CASE j = k
        BY <2>1, <2>3, <3>1 DEF Becomes, Turns, Carries, Free
      <3>2. CASE j # k
        <4>1. connection'[j] = connection[j] /\ call'[d] = call[d] /\ Carries(d, j)
          BY <2>4, <3>2 DEF TransactionsKnown
        <4> QED
          BY <4>1 DEF Carries
      <3> QED
        BY <3>1, <3>2
    <2>8. CallKnown(c)'
      <3>1. CallKnown(c)
        BY DEF CallsKnown
      <3>2. call[c].subject \in Subjects /\ call[c].durable # TRUE /\ call[c].answer # "ok" /\ (call[c].body = "valid" => call[c].name \in Names)
        BY <2>1, <3>1 DEF CallKnown
      <3>3. call[c].answer = "none"
        BY <2>1, <3>1 DEF CallKnown
      <3>4. call'[c].phase = "begin" /\ call'[c].answer = "none" /\ call'[c].subject \in Subjects /\ call'[c].durable # TRUE
            /\ (call'[c].body = "valid" => call'[c].name \in Names)
        BY <2>1, <3>2, <3>3 DEF Becomes, KeepsUpdate
      <3> QED
        BY <3>4 DEF CallKnown
    <2> QED
      BY <2>1, <2>5, <2>6, <2>7, <2>8, CallsStep DEF Becomes
  <1>7. ASSUME NEW c \in Calls, NEW k \in Connections,
               \/ Begin(c, k) \/ Scope(c, k) \/ Write(c, k) \/ Read(c, k) \/ Commit(c, k)
               \/ Finish(c, k) \/ Fail(c, k) \/ Rollback(c, k) \/ Break(c, k)
        PROVE  Good
    BY <1>7, TransactionStep
  <1>8. Good
    BY <1>2, <1>3, <1>4, <1>5, <1>6, <1>7 DEF ServiceNext, ServiceTick, Done, serviceVars
  <1> QED
    BY <1>1, <1>8

\* What the invariant says of the pool and of the users.
LEMMA ServiceInvKept == ServiceInv => ServiceKept
  <1> SUFFICES ASSUME ServiceInv PROVE ServiceKept
    OBVIOUS
  <1> USE DEF ServiceInv
  <1>1. \A c \in Calls : Cardinality(Held(c)) <= 1
    <2> SUFFICES ASSUME NEW c \in Calls PROVE Cardinality(Held(c)) <= 1
      OBVIOUS
    <2>1. CASE Held(c) = {}
      BY <2>1, FS_EmptySet
    <2>2. CASE \E k \in Connections : Held(c) = {k}
      <3>1. Cardinality(Held(c)) = 1
        BY <2>2, FS_Singleton, Zenon
      <3> QED
        BY <3>1
    <2>3. \A k, j \in Held(c) : k = j
      BY ServiceAssumption DEF Held, PoolKnown
    <2> QED
      BY <2>1, <2>2, <2>3 DEF Held
  <1>2. CleanPool /\ NoLeak
    BY <1>1 DEF PoolKnown, NoLeak, Working
  <1>3. AcknowledgedIsKept
    BY DEF CallsKnown, CallKnown, AcknowledgedIsKept
  <1>4. RefusedLeavesNoTrace
    <2> SUFFICES ASSUME NEW c \in Calls, call[c].phase = "answered", call[c].answer # "ok", call[c].durable
                 PROVE  call[c].answer = "unavailable" /\ call[c].lost
      BY DEF RefusedLeavesNoTrace
    <2>1. call[c] \in CallRecords /\ CallKnown(c)
      BY DEF RecordsOK, CallsKnown
    <2>2. call[c].durable = TRUE
      BY <2>1 DEF CallRecords
    <2> QED
      BY <2>1, <2>2 DEF CallKnown
  <1> QED
    BY <1>2, <1>3, <1>4 DEF ServiceKept

\* The types are part of it.
LEMMA ServiceTypes == LimiterInv /\ RecordsOK => ServiceTypeOK
  BY DEF LimiterInv, RecordsOK, ServiceTypeOK, CallRecords, ConnectionRecords

\* Wherever a statement, a connection or the answer of a COMMIT fails, the pool is clean, no connection
\* is kept, an acknowledged update is there, and a refused one is not (scoped, the routes of app.ts),
\* for any number of requests, connections, subjects and names.
THEOREM ServiceIsKept == ServiceSpec => []ServiceKept
  BY ServiceInitInv, ServiceStep, ServiceInvKept, PTL DEF ServiceSpec

\* The service uses its limiter as the limiter is meant to be used (accountService.ts asks
\* rateLimiter.ts once per authenticated request and changes nothing of it otherwise): the
\* service implements the specification of the limiter, and inherits its quotas.
THEOREM ServiceImplementsLimiter == ServiceSpec => Spec
  <1>1. ServiceInit => Init
    BY DEF ServiceInit
  <1> QED
    BY <1>1, LimiterIsUsed, PTL DEF ServiceSpec, Spec

\* Only the read of a transaction takes a request from its read to its commit.
LEMMA ReadShows ==
  ASSUME ServiceInv, [ServiceNext]_serviceVars, NEW c \in Calls, call[c].phase = "read", call'[c].phase = "commit"
  PROVE  \E k \in Connections : Read(c, k)
  <1> USE DEF ServiceInv
  <1>1. ASSUME NEW d \in Calls, NEW onward \in Phases \ {"commit"}, NEW shown, NEW answer, Becomes(d, onward, shown, answer)
        PROVE  FALSE
    BY <1>1 DEF Becomes
  <1>2. ASSUME NEW d \in Calls, NEW onward \in Phases \ {"commit"}, Goto(d, onward) PROVE FALSE
    BY <1>1, <1>2, GotoBecomes
  <1>3. ASSUME NEW d \in Calls, NEW answer \in Answers, Answer(d, answer) PROVE FALSE
    BY <1>1, <1>3, AnswerBecomes DEF Phases
  <1>4. /\ \A onward \in {"begin", "scope", "write", "read", "committed", "rollback", "answered"} : onward \in Phases \ {"commit"}
        /\ \A answer \in {"ok", "unavailable", "unauthorized"} : answer \in Answers
    BY DEF Phases, Answers
  <1>5. ASSUME UNCHANGED call PROVE FALSE
    BY <1>5
  <1>6. ASSUME NEW d \in Calls, Unauthorized(d) \/ ConnectFails(d) PROVE FALSE
    BY <1>3, <1>4, <1>6 DEF Unauthorized, ConnectFails
  <1>7. ASSUME NEW d \in Calls, NEW s \in Subjects, NEW body \in Bodies, Admit(d, s, body) PROVE FALSE
    <2>1. call[d].phase = "new" /\ \A e \in Calls : e # d => call'[e] = call[e]
      BY <1>7, AdmitBecomes
    <2> QED
      BY <2>1
  <1>8. ASSUME NEW d \in Calls, NEW k \in Connections, Connect(d, k) \/ Begin(d, k) \/ Write(d, k) \/ Fail(d, k) PROVE FALSE
    BY <1>2, <1>4, <1>8 DEF Connect, Begin, Write, Fail
  <1>9. ASSUME NEW d \in Calls, NEW k \in Connections, Scope(d, k) PROVE FALSE
    BY <1>2, <1>4, <1>9 DEF Scope
  <1>10. ASSUME NEW d \in Calls, NEW k \in Connections, Finish(d, k) \/ Rollback(d, k) PROVE FALSE
    BY <1>3, <1>4, <1>10 DEF Finish, Rollback
  <1>11. ASSUME NEW d \in Calls, NEW k \in Connections, Break(d, k) PROVE FALSE
    BY <1>1, <1>4, <1>11, BreakBecomes
  <1>12. ASSUME NEW d \in Calls, NEW k \in Connections, Commit(d, k) PROVE FALSE
    <2>1. call[d].phase = "commit" /\ \A e \in Calls : e # d => call'[e] = call[e]
      BY <1>12 DEF Commit, Goto, RecordsOK
    <2> QED
      BY <2>1
  <1>13. ASSUME NEW d \in Calls, NEW k \in Connections, Read(d, k), d # c PROVE FALSE
    BY <1>13 DEF Read, RecordsOK
  <1> QED
    BY <1>5, <1>6, <1>7, <1>8, <1>9, <1>10, <1>11, <1>12, <1>13 DEF ServiceNext, ServiceTick, Done, serviceVars

\* A call that has read shows its own name or the profile of its subject.
LEMMA ShownStep ==
  ASSUME ServiceInv, [ServiceNext]_serviceVars, NEW c \in Calls, call[c].phase = "read", call'[c].phase = "commit"
  PROVE  call'[c].shown = IF call[c].body = "valid" THEN call[c].name ELSE profile[call[c].subject]
  <1>1. PICK k \in Connections : Read(c, k)
    BY ReadShows
  <1>2. connection[k].holder = c /\ c # NoOne
    BY <1>1, ServiceAssumption DEF Read, Held
  <1>3. Carries(c, k) /\ CallKnown(c)
    BY <1>2 DEF ServiceInv, TransactionsKnown, CallsKnown
  <1>4. call[c].subject \in Subjects /\ call'[c].shown = Visible(call[c].subject, k)
    BY <1>1, <1>3, ReadBecomes DEF CallKnown, Becomes, ServiceInv, Working, Phases
  <1> QED
    BY <1>3, <1>4, ServiceAssumption DEF Carries, CallKnown, Visible

\* Whoever reads an account sees its own profile, whichever transactions share the pool.
THEOREM ProfileIsShown == ServiceSpec => ProfileShown
  <1>1. ServiceInv /\ [ServiceNext]_serviceVars =>
          [\A c \in Calls : call[c].phase = "read" /\ call'[c].phase = "commit" =>
             call'[c].shown = IF call[c].body = "valid" THEN call[c].name ELSE profile[call[c].subject]]_serviceVars
    BY ShownStep
  <1> QED
    BY ServiceInitInv, ServiceStep, <1>1, PTL DEF ServiceSpec, ProfileShown

-------------------------------------------------------------------------------

Deciding == Decisions \cup {"sign-out"}

\* One part per fact: the types; whose requests are under way on which page; that a consent
\* page has verified its client only once its metadata came, and of a continuation it may grant;
\* and that nothing begins or leaves where the link was ambiguous.
PagesInv ==
  /\ path \in Pages \cup {"none"} /\ query \in Queries /\ flight \subseteq PageRequests
  /\ badLink \in BOOLEAN /\ verified \in BOOLEAN /\ pending \in BOOLEAN
  /\ working \in BOOLEAN /\ session \in BOOLEAN
  /\ leaving \in Destinations \cup {"stay", "switched"}
  /\ ConsentSafe
  /\ "metadata" \in flight => ~verified
  /\ verified => query \in {"registered", "hosted"}
  /\ flight # {} \/ leaving # "stay" => query # "ambiguous" /\ path # "none"
  /\ flight \cap (Deciding \cup {"metadata"}) # {} => path = "consent"
  /\ leaving = "switched" => path = "consent"

\* The invariant holds at the start.
LEMMA PagesInitInv == PagesInit => PagesInv
  BY DEF PagesInit, PagesInv, Pages, Forms, Queries, Destinations, Decisions, ConsentSafe,
         OneDecisionAtATime, AllowedKnowingly, LeavesSafely, SwitchSignsOut

\* The types are part of it.
LEMMA PagesTypes == PagesInv => PagesTypeOK
  BY DEF PagesInv, PagesTypeOK

\* A continuation passed on in a link is the one that the next page reads.
LEMMA ContinuedIsRead == ASSUME NEW q \in Queries PROVE Continued(q) = q
<1>1. CASE q = "none"
  <2>1. Len(<<>>) = 0
    OBVIOUS
  <2> QED BY <1>1, <2>1 DEF Continued, ReadOAuthQuery
<1>2. CASE q # "none"
  <2>1. Len(<<q>>) = 1 /\ <<q>>[1] = q
    OBVIOUS
  <2> QED BY <1>2, <2>1 DEF Continued, ReadOAuthQuery
<1> QED BY <1>1, <1>2

\* readOAuthQuery reads one of the queries.
LEMMA ReadIsAQuery ==
  ASSUME NEW wrapped \in Seq(Queries), NEW direct \in Queries
  PROVE  ReadOAuthQuery(wrapped, direct) \in Queries
<1>1. Len(wrapped) = 1 => wrapped[1] \in Queries
  <2>1. SUFFICES ASSUME Len(wrapped) = 1 PROVE wrapped[1] \in Queries
    OBVIOUS
  <2>2. 1 \in 1 .. Len(wrapped)
    BY <2>1, SMT
  <2> QED BY <2>2, ElementOfSeq
<1>2. "ambiguous" \in Queries
  BY DEF Queries
<1> QED BY <1>1, <1>2 DEF ReadOAuthQuery

\* A page that was just loaded.
LEMMA PageLoaded ==
  ASSUME NEW p \in Pages \cup {"none"}, NEW q \in Queries, NEW broken \in BOOLEAN, Load(p, q, broken),
         session' \in BOOLEAN, p = "none" => q = "none"
  PROVE  PagesInv'
<1>1. flight' \subseteq {"metadata", "get-session"} /\ (flight' # {} => p # "none" /\ q # "ambiguous")
  BY DEF Load
<1>2. flight' \cap (Deciding \cup {"metadata"}) # {} => p = "consent"
  BY <1>1 DEF Load, Deciding, Decisions
<1>3. Deciding \cap flight' = {} /\ "accept" \notin flight'
  BY <1>1 DEF Deciding, Decisions
<1>4. ConsentSafe'
  <2>1. OneDecisionAtATime'
    BY <1>3 DEF OneDecisionAtATime, Load, Deciding
  <2> QED BY <1>3, <2>1 DEF Load, ConsentSafe, AllowedKnowingly, LeavesSafely, SwitchSignsOut
<1>5. flight' \subseteq PageRequests
  BY <1>1 DEF PageRequests
<1> QED BY <1>1, <1>2, <1>4, <1>5 DEF Load, PagesInv

\* An answer sends the tab only where it may go.
LEMMA WentSafely ==
  ASSUME PagesInv, UNCHANGED tab, query # "ambiguous", path # "none",
         \/ \E d \in Destinations : Go(d)
         \/ UNCHANGED leaving
  PROVE  /\ leaving' \in Destinations \cup {"stay", "switched"}
         /\ leaving' # "foreign" /\ (leaving' = "callback" => query' = "registered")
         /\ leaving' = "switched" => leaving = "switched"
         /\ query' # "ambiguous" /\ path' # "none"
  BY DEF PagesInv, ConsentSafe, LeavesSafely, tab, Go, Safe, Destinations, Pages, Forms

\* What a step keeps that loads no page: each action of the page goes by its requests.
LEMMA PageStep == PagesInv /\ PagesNext => PagesInv'
<1> SUFFICES ASSUME PagesInv, PagesNext PROVE PagesInv'
  OBVIOUS
<1> USE DEF PagesInv
<1>1. ASSUME NEW p \in Pages, NEW wrapped \in {<<>>, <<"registered">>, <<"hosted">>, <<"odd">>, <<"odd", "registered">>},
             NEW direct \in Queries \ {"ambiguous"}, NEW broken \in BOOLEAN, OpenPage(p, wrapped, direct, broken)
      PROVE PagesInv'
  <2> DEFINE Q == Queries
  <2>1. wrapped \in Seq(Q)
    <3>1. "registered" \in Q /\ "hosted" \in Q /\ "odd" \in Q
      BY DEF Queries
    <3> HIDE DEF Q
    <3>2. /\ <<>> \in Seq(Q) /\ <<"registered">> \in Seq(Q) /\ <<"hosted">> \in Seq(Q) /\ <<"odd">> \in Seq(Q)
          /\ <<"odd", "registered">> \in Seq(Q)
      BY <3>1
    <3> QED BY <3>2
  <2> DEFINE q == ReadOAuthQuery(wrapped, direct)
  <2>2. q \in Queries
    BY <2>1, ReadIsAQuery
  <2>3. p # "none"
    BY DEF Pages, Forms
  <2>4. Load(p, q, broken) /\ session' \in BOOLEAN
    BY <1>1 DEF OpenPage
  <2> HIDE DEF q
  <2> QED BY <2>2, <2>3, <2>4, PageLoaded
<1>2. ASSUME NEW p \in Forms, Follow(p) PROVE PagesInv'
  <2>1. p \in Pages /\ p # "none"
    BY DEF Pages, Forms
  <2>2. Load(p, query, FALSE) /\ session' \in BOOLEAN
    BY <1>2, ContinuedIsRead DEF Follow
  <2> QED BY <2>1, <2>2, PageLoaded
<1>3. CASE Unload
  <2>1. CASE leaving \in Pages \cup {"switched"}
    <3> DEFINE p == IF leaving = "switched" THEN "login" ELSE leaving
    <3>1. p \in Pages /\ p # "none"
      BY <2>1 DEF Pages, Forms
    <3>2. Load(p, query, FALSE) /\ session' \in BOOLEAN
      BY <1>3, <2>1, ContinuedIsRead DEF Unload
    <3> HIDE DEF p
    <3> QED BY <3>1, <3>2, PageLoaded
  <2>2. CASE leaving \notin Pages \cup {"switched"}
    <3>1. Load("none", "none", FALSE) /\ session' \in BOOLEAN
      BY <1>3, <2>2 DEF Unload
    <3>2. "none" \in Queries
      BY DEF Queries
    <3> QED BY <3>1, <3>2, PageLoaded
  <2> QED BY <2>1, <2>2
<1>4. ASSUME NEW matches \in BOOLEAN, Metadata(matches) PROVE PagesInv'
  <2>1. verified' => query \in {"registered", "hosted"}
    BY <1>4 DEF Metadata, Safe, Pages, Forms
  <2>2. Deciding \cap flight' = Deciding \cap flight
    BY <1>4 DEF Metadata, Deciding, Decisions
  <2>3. "accept" \notin flight
    BY <1>4 DEF Metadata, ConsentSafe, AllowedKnowingly
  <2>4. ConsentSafe'
    BY <1>4, <2>1, <2>2, <2>3
       DEF Metadata, tab, ConsentSafe, OneDecisionAtATime, AllowedKnowingly, LeavesSafely, SwitchSignsOut, Deciding
  <2> QED BY <1>4, <2>1, <2>4 DEF Metadata, tab
<1>5. ASSUME NEW decision \in Decisions, Decide(decision) PROVE PagesInv'
  <2>1. Deciding \cap flight = {}
    BY <1>5 DEF Decide, ConsentSafe, OneDecisionAtATime, Deciding
  <2>2. Deciding \cap flight' = {decision} /\ decision \in PageRequests
    BY <1>5, <2>1 DEF Decide, Deciding, PageRequests
  <2>3. "accept" \in flight' => verified'
    BY <1>5, <2>1 DEF Decide, Deciding, Decisions
  <2>4. ConsentSafe'
    BY <1>5, <2>2, <2>3
       DEF Decide, tab, ConsentSafe, OneDecisionAtATime, AllowedKnowingly, LeavesSafely, SwitchSignsOut, Deciding
  <2>5. decision # "metadata"
    BY DEF Decisions
  <2> QED BY <1>5, <2>2, <2>3, <2>4, <2>5 DEF Decide, tab, Pages, Forms
<1>6. ASSUME NEW decision \in Decisions, Decided(decision) PROVE PagesInv'
  <2>1. Deciding \cap flight = {decision} /\ decision # "metadata"
    BY <1>6 DEF Decided, ConsentSafe, OneDecisionAtATime, Deciding, Decisions
  <2>2. Deciding \cap flight' = {}
    BY <1>6, <2>1 DEF Decided
  <2>3. query # "ambiguous" /\ path = "consent" /\ UNCHANGED tab
    BY <1>6, <2>1 DEF Decided
  <2>4. /\ leaving' \in Destinations \cup {"stay", "switched"}
        /\ leaving' # "foreign" /\ (leaving' = "callback" => query' = "registered")
        /\ leaving' = "switched" => leaving = "switched"
    BY <1>6, <2>3, WentSafely DEF Decided
  <2>5. ConsentSafe'
    BY <1>6, <2>2, <2>4
       DEF Decided, tab, ConsentSafe, OneDecisionAtATime, AllowedKnowingly, LeavesSafely, SwitchSignsOut, Deciding, Decisions
  <2> QED BY <1>6, <2>3, <2>4, <2>5 DEF Decided, tab
<1>7. CASE SwitchAccount
  <2>1. Deciding \cap flight = {}
    BY <1>7 DEF SwitchAccount, ConsentSafe, OneDecisionAtATime, Deciding
  <2>2. Deciding \cap flight' = {"sign-out"} /\ "sign-out" \in PageRequests
    BY <1>7, <2>1 DEF SwitchAccount, Deciding, PageRequests
  <2>3. ConsentSafe'
    BY <1>7, <2>2
       DEF SwitchAccount, tab, ConsentSafe, OneDecisionAtATime, AllowedKnowingly, LeavesSafely, SwitchSignsOut, Deciding
  <2> QED BY <1>7, <2>2, <2>3 DEF SwitchAccount, tab
<1>8. CASE SignedOut
  <2>1. Deciding \cap flight = {"sign-out"}
    BY <1>8 DEF SignedOut, ConsentSafe, OneDecisionAtATime, Deciding, Decisions
  <2>2. Deciding \cap flight' = {}
    BY <1>8, <2>1 DEF SignedOut
  <2>3. query # "ambiguous" /\ path = "consent"
    BY <1>8, <2>1 DEF SignedOut, Deciding
  <2>4. UNCHANGED <<tab, verified, working>> /\ pending' = FALSE
    BY <1>8 DEF SignedOut
  <2>7. /\ pending' \in BOOLEAN /\ flight' \subseteq flight
        /\ UNCHANGED <<path, query, badLink, verified, working>>
    BY <1>8, <2>4 DEF SignedOut, tab
  <2>5. CASE session' = FALSE /\ leaving' = "switched"
    <3>1. ~session' /\ session' \in BOOLEAN /\ leaving' \in Destinations \cup {"stay", "switched"}
      BY <2>5
    <3>2. ConsentSafe'
      BY <2>2, <2>4, <2>5, <3>1 DEF tab, ConsentSafe, OneDecisionAtATime, AllowedKnowingly, LeavesSafely,
            SwitchSignsOut, Deciding, Decisions
    <3> QED BY <2>2, <2>3, <2>5, <2>7, <3>1, <3>2
  <2>6. CASE session' \in {FALSE, session} /\ leaving' = leaving
    <3>1. session' \in BOOLEAN /\ (~session => ~session')
      <4>1. CASE session' = FALSE
        BY <4>1
      <4>2. CASE session' = session
        BY <4>2
      <4> QED BY <2>6, <4>1, <4>2
    <3>2. ConsentSafe'
      BY <2>2, <2>4, <2>6, <3>1 DEF tab, ConsentSafe, OneDecisionAtATime, AllowedKnowingly, LeavesSafely,
            SwitchSignsOut, Deciding, Decisions
    <3> QED BY <2>2, <2>3, <2>6, <2>7, <3>1, <3>2
  <2> QED BY <1>8, <2>5, <2>6 DEF SignedOut
<1>9. CASE Submit
  <2>1. Deciding \cap flight' = Deciding \cap flight /\ "submit" \in PageRequests
    BY <1>9 DEF Submit, Deciding, Decisions, PageRequests
  <2>2. ConsentSafe'
    BY <1>9, <2>1
       DEF Submit, tab, ConsentSafe, OneDecisionAtATime, AllowedKnowingly, LeavesSafely, SwitchSignsOut, Deciding, Decisions
  <2>3. path # "none"
    BY <1>9 DEF Submit, Forms
  <2> QED BY <1>9, <2>1, <2>2, <2>3 DEF Submit, tab
<1>10. CASE Submitted
  <2>1. query # "ambiguous" /\ path # "none" /\ UNCHANGED <<tab, verified, pending>>
    BY <1>10 DEF Submitted
  <2>2. Deciding \cap flight' = Deciding \cap flight /\ flight' \subseteq PageRequests
    BY <1>10 DEF Submitted, Deciding, Decisions, PageRequests
  <2>3. /\ leaving' \in Destinations \cup {"stay", "switched"}
        /\ leaving' # "foreign" /\ (leaving' = "callback" => query' = "registered")
        /\ leaving' = "switched" => leaving = "switched"
    BY <1>10, <2>1, WentSafely DEF Submitted
  <2>4. session' \in BOOLEAN /\ working' \in BOOLEAN /\ (path # "login" => session' = session)
    BY <1>10 DEF Submitted
  <2>5. "metadata" \in flight' => "metadata" \in flight
    <3>1. flight' = flight \ {"submit"} \/ flight' = (flight \ {"submit"}) \cup {"continue"}
      BY <1>10 DEF Submitted
    <3> QED BY <3>1
  <2>6. ConsentSafe'
    BY <2>1, <2>2, <2>3, <2>4
       DEF tab, ConsentSafe, OneDecisionAtATime, AllowedKnowingly, LeavesSafely, SwitchSignsOut, Deciding, Decisions
  <2> QED BY <2>1, <2>2, <2>3, <2>4, <2>5, <2>6 DEF tab
<1>11. CASE GetSession
  <2>1. Deciding \cap flight' = Deciding \cap flight /\ flight' \subseteq PageRequests
    BY <1>11 DEF GetSession, Deciding, Decisions, PageRequests
  <2>2. ConsentSafe'
    BY <1>11, <2>1
       DEF GetSession, tab, ConsentSafe, OneDecisionAtATime, AllowedKnowingly, LeavesSafely, SwitchSignsOut, Deciding, Decisions
  <2>3. query # "ambiguous" /\ path # "none"
    BY <1>11 DEF GetSession
  <2>4. "metadata" \in flight' => "metadata" \in flight
    BY <1>11 DEF GetSession
  <2> QED BY <1>11, <2>1, <2>2, <2>3, <2>4 DEF GetSession, tab
<1>12. ASSUME NEW sent \in PageRequests, Continue(sent) PROVE PagesInv'
  <2>1. query # "ambiguous" /\ path # "none" /\ UNCHANGED <<tab, verified, pending, session>>
    BY <1>12 DEF Continue
  <2>2. Deciding \cap flight' = Deciding \cap flight /\ flight' \subseteq flight
    BY <1>12 DEF Continue, Deciding, Decisions
  <2>3. /\ leaving' \in Destinations \cup {"stay", "switched"}
        /\ leaving' # "foreign" /\ (leaving' = "callback" => query' = "registered")
        /\ leaving' = "switched" => leaving = "switched"
    BY <1>12, <2>1, WentSafely DEF Continue
  <2>4. working' \in BOOLEAN
    BY <1>12 DEF Continue
  <2>5. ConsentSafe'
    BY <2>1, <2>2, <2>3
       DEF tab, ConsentSafe, OneDecisionAtATime, AllowedKnowingly, LeavesSafely, SwitchSignsOut, Deciding, Decisions
  <2> QED BY <2>1, <2>2, <2>3, <2>4, <2>5 DEF tab
<1> QED BY <1>1, <1>2, <1>3, <1>4, <1>5, <1>6, <1>7, <1>8, <1>9, <1>10, <1>11, <1>12 DEF PagesNext

\* Every step keeps the invariant.
LEMMA PagesInvKept == PagesInv /\ [PagesNext]_pageVars => PagesInv'
<1>1. ASSUME PagesInv, UNCHANGED pageVars PROVE PagesInv'
  BY <1>1 DEF PagesInv, pageVars, tab, ConsentSafe, OneDecisionAtATime, AllowedKnowingly, LeavesSafely, SwitchSignsOut
<1> QED BY <1>1, PageStep

\* What a page reads is what the one before it knew.
LEMMA ContinuationStep ==
  PagesInv /\ [PagesNext]_pageVars => (path # "none" /\ path' # "none" => query' = query)
<1> SUFFICES ASSUME PagesInv, PagesNext \/ UNCHANGED pageVars, path # "none", path' # "none" PROVE query' = query
  OBVIOUS
<1>1. ASSUME NEW p \in Forms, Follow(p) PROVE query' = query
  BY <1>1, ContinuedIsRead DEF Follow, Load, PagesInv
<1>2. CASE Unload
  BY <1>2, ContinuedIsRead DEF Unload, Load, PagesInv
<1> QED BY <1>1, <1>2 DEF PagesNext, OpenPage, Metadata, Decide, Decided, SwitchAccount, SignedOut, Submit, Submitted,
           GetSession, Continue, pageVars, tab
-------------------------------------------------------------------------------

\* Of the programs that MCNodePrograms lets run one by one: each takes its own steps or none.
LEMMA ServiceOrPages ==
  [ProgramsNext]_programVars =>
    /\ \/ [ServiceNext]_serviceVars
       \/ Next /\ UNCHANGED <<call, connection, profile>>
    /\ [PagesNext]_pageVars
<1> SUFFICES ASSUME ProgramsNext \/ UNCHANGED programVars
             PROVE  /\ \/ [ServiceNext]_serviceVars
                       \/ Next /\ UNCHANGED <<call, connection, profile>>
                    /\ [PagesNext]_pageVars
  OBVIOUS
<1>1. CASE UNCHANGED programVars
  BY <1>1 DEF programVars
<1>2. CASE ProgramsNext
  <2>1. IF program = "service" THEN ServiceNext
        ELSE IF program = "limiter" THEN Next /\ UNCHANGED <<call, connection, profile>>
        ELSE UNCHANGED serviceVars
    BY <1>2 DEF ProgramsNext
  <2>2. IF program = "pages" THEN PagesNext ELSE UNCHANGED pageVars
    BY <1>2 DEF ProgramsNext
  <2> QED BY <2>1, <2>2, Zenon
<1> QED BY <1>1, <1>2

\* Of the limiter a program takes a step or none.
LEMMA LimiterOfPrograms == [ProgramsNext]_programVars => [Next]_vars
  BY ServiceOrPages, LimiterIsUsed

\* The limiter alone keeps what is known of the service.
LEMMA ServiceOfPrograms == ServiceInv /\ [ProgramsNext]_programVars => ServiceInv'
<1> SUFFICES ASSUME ServiceInv, [ProgramsNext]_programVars PROVE ServiceInv'
  OBVIOUS
<1>1. CASE [ServiceNext]_serviceVars
  BY <1>1, ServiceStep
<1>2. CASE Next /\ UNCHANGED <<call, connection, profile>>
  <2>1. LimiterInv'
    BY <1>2, LimiterStep DEF ServiceInv
  <2> QED BY <1>2, <2>1 DEF ServiceInv, RecordsOK, PoolKnown, CleanPool, TransactionsKnown, Carries, CallsKnown, CallKnown
<1> QED BY <1>1, <1>2, ServiceOrPages

\* The service and its pages start where their own Init says.
LEMMA ProgramsStart == ProgramsInit => ServiceInv /\ PagesInv
  BY ServiceInitInv, PagesInitInv DEF ProgramsInit, ServiceStarts

\* The quotas of rateLimiter.ts, the transactions of app.ts and postgres.ts and the consent of
\* pages.ts, for any number of requests, connections, subjects and names, any limit, window and
\* size of the map, and whatever the issuer answers and whenever.
THEOREM ServiceIsSound == ProgramsSpec => []ServiceSound
<1>1. ServiceInv /\ PagesInv => ServiceSound
  BY ServiceInvKept, QuotasOfInv DEF ServiceInv, PagesInv, ServiceSound
<1>2. PagesInv /\ [ProgramsNext]_programVars => PagesInv'
  BY PagesInvKept, ServiceOrPages
<1> QED BY ProgramsStart, ServiceOfPrograms, <1>1, <1>2, PTL DEF ProgramsSpec

\* A pending authorization survives every way from one hosted page to another (authContinuationUrl
\* and readOAuthQuery of authPageSecurity.ts, as pages.ts uses them).
THEOREM ContinuationIsKept == ProgramsSpec => ContinuationKept
<1>1. PagesInv /\ [ProgramsNext]_programVars => PagesInv'
  BY PagesInvKept, ServiceOrPages
<1>2. PagesInv /\ [ProgramsNext]_programVars =>
        [path # "none" /\ path' # "none" => query' = query]_pageVars
  BY ContinuationStep, ServiceOrPages
<1> QED BY ProgramsStart, <1>1, <1>2, PTL DEF ProgramsSpec, ContinuationKept

===============================================================================
