------------------------- MODULE RateLimiterProofs -------------------------
(***************************************************************************)
(* Theorems about the rate limits, for any number of instances, requests   *)
(* and restarts, any limit and any length of the window and of a second.   *)
(***************************************************************************)
EXTENDS RateLimiter, FiniteSetTheorems, WellFoundedInduction, TLAPS

(* The requests that have come.                                            *)
Come == {r \in Requests : request[r].at # "idle"}

Locals(r) ==
  /\ r \in Come => request[r].time <= now
  /\ r \notin Come => request[r].on = None
  /\ request[r].at = "incrementing" => request[r].count < MaxRequests

TypeInv ==
  /\ TypeOK
  /\ \A r \in Requests : Locals(r)
  /\ IsFiniteSet(Come)
  /\ \A i \in Instances : hits[i] \subseteq Come

(* The requests let past the window of instance i in the span that ends at *)
(* t.                                                                      *)
Span(i, t) == {r \in Passed(i) : request[r].time \in (t - Window + 1)..t}

(* What an instance still has to know is in its hits, and its hits are of  *)
(* requests that it let through.                                           *)
HitsInv(i) ==
  /\ hits[i] \subseteq Passed(i)
  /\ \A r \in Passed(i) : request[r].time > now - Window => r \in hits[i]

(* When a refused request may come again, one of those that filled the     *)
(* window has left it.                                                     *)
RefusedInv(r) ==
  request[r].at = "limited" /\ request[r].on # None =>
    \E q \in Span(request[r].on, request[r].time) :
      request[q].time + Window <= request[r].retryAt

WindowInv ==
  /\ WindowBound
  /\ \A i \in Instances : HitsInv(i)
  /\ \A r \in Requests : RefusedInv(r)

(* What a minute has admitted of the requests that were counted right.     *)
Counted(m) ==
  {r \in Requests \ overlapped :
     request[r].at = "admitted" /\ Minute(request[r].time) = m}

(* And of the others, which weigh one at least.                            *)
Shared(m) ==
  {r \in Requests \cap overlapped :
     request[r].at = "admitted" /\ Minute(request[r].time) = m}

Extra(m) == IF Shared(m) = {} THEN 0 ELSE 1

(* The counter has all that was used; any request that counts has read as  *)
(* much as was admitted by counting alone, and one that nothing has        *)
(* overlapped counts alone, and has read all that was used.                *)
FleetInv ==
  /\ \A m \in Minutes : Cardinality(Counted(m)) + Extra(m) <= counter[m]
  /\ \A m \in Minutes : \A r \in Counting :
       Minute(request[r].time) = m =>
         /\ Cardinality(Counted(m)) <= request[r].count
         /\ r \notin overlapped =>
              Cardinality(Counted(m)) + Extra(m) <= request[r].count
  /\ \A r \in Counting \ overlapped : Counting = {r}

----------------------------------------------------------------------------
(* Arithmetic                                                              *)

(* Seconds rounded up are enough.                                          *)
LEMMA RoundedUp ==
  ASSUME NEW x \in Int, NEW s \in Nat \ {0}
  PROVE  s * ((x + s - 1) \div s) >= x
OBVIOUS

(* Minutes come in order.                                                  *)
LEMMA MinutesInOrder ==
  ASSUME NEW t \in 0..Horizon
  PROVE  Minute(t) \in Minutes
BY LimiterAssumption DEF Minute, Minutes

(* A set of natural numbers has a least element: of the intervals from 0   *)
(* to each of them, one contains no smaller one.                           *)
LEMMA LeastExists ==
  ASSUME NEW T \in SUBSET Nat, T # {}
  PROVE  \E t \in T : \A u \in T : t <= u
<1> DEFINE R == StrictSubsetOrdering(Nat)
           initial == {0..t : t \in T}
<1>1. IsWellFoundedOn(R, FiniteSubsetsOf(Nat))
  BY FS_StrictSubsetOrderingWellFounded
<1>2. initial \subseteq FiniteSubsetsOf(Nat) /\ initial # {}
  <2>1. ASSUME NEW t \in T PROVE 0..t \in FiniteSubsetsOf(Nat)
    <3>1. IsFiniteSet(0..t) /\ 0..t \in SUBSET Nat
      BY FS_Interval
    <3> QED
      BY <3>1 DEF FiniteSubsetsOf
  <2> QED
    BY <2>1
<1>3. \E x \in initial : \A y \in initial : <<y, x>> \notin R
  <2> HIDE DEF R, initial
  <2> QED
    BY <1>1, <1>2, WFMin
<1>4. PICK t \in T : \A u \in T : <<0..u, 0..t>> \notin R
  BY <1>3
<1>5. ASSUME NEW u \in T, u < t PROVE FALSE
  <2>1. 0..u \subseteq 0..t /\ t \in 0..t /\ t \notin 0..u
    BY <1>5
  <2>2. 0..u \in SUBSET Nat /\ 0..t \in SUBSET Nat
    OBVIOUS
  <2> QED
    BY <1>4, <2>1, <2>2 DEF StrictSubsetOrdering
<1> QED
  BY <1>5

(* The oldest of the hits kept is one of them.                             *)
LEMMA OldestIsOne ==
  ASSUME TypeInv, NEW kept \in SUBSET Requests, kept # {}
  PROVE  \E q \in kept : request[q].time = Oldest(kept)
<1> DEFINE T == {request[q].time : q \in kept}
<1>1. T \in SUBSET Nat /\ T # {}
  BY DEF TypeInv, TypeOK, Records
<1>2. PICK t \in T : \A u \in T : t <= u
  <2> HIDE DEF T
  <2> QED
    BY <1>1, LeastExists
<1>3. \A q \in kept : t <= request[q].time
  BY <1>2
<1>4. Oldest(kept) \in T
  BY <1>3 DEF Oldest
<1> QED
  BY <1>4

(* The wait is at least a second, and as long as the oldest hit stays.     *)
LEMMA RetryIsEnough ==
  ASSUME NEW oldest \in Int, NEW t \in Int
  PROVE  /\ RetryAfter(oldest, t) \in Nat
         /\ Second * RetryAfter(oldest, t) \in Nat
         /\ Second * RetryAfter(oldest, t) >= oldest + Window - t
<1> DEFINE x == oldest + Window - t
           seconds == (x + Second - 1) \div Second
<1>1. x \in Int /\ Second \in Nat \ {0}
  BY LimiterAssumption
<1>2. seconds \in Int
  BY <1>1
<1>3. Second * seconds >= x
  BY <1>1, RoundedUp
<1>4. RetryAfter(oldest, t) = IF seconds < 1 THEN 1 ELSE seconds
  BY DEF RetryAfter
<1> HIDE DEF x, seconds
<1>5. CASE seconds < 1
  <2>1. Second * seconds <= 0
    BY <1>1, <1>2, <1>5
  <2>2. Second * seconds \in Int
    BY <1>1, <1>2
  <2> QED
    BY <1>1, <1>3, <1>4, <1>5, <2>1, <2>2 DEF x
<1>6. CASE ~ (seconds < 1)
  <2>1. seconds \in Nat /\ Second * seconds \in Nat
    BY <1>1, <1>2, <1>6
  <2> QED
    BY <1>1, <1>3, <1>4, <1>6, <2>1 DEF x
<1> QED
  BY <1>5, <1>6

----------------------------------------------------------------------------
(* Types                                                                   *)

(* Only request r has changed.                                             *)
Becomes(r, new) ==
  /\ request' \in [Requests -> Records]
  /\ request'[r] = new
  /\ \A q \in Requests \ {r} : request'[q] = request[q]

LEMMA Replace ==
  ASSUME TypeInv, NEW r \in Requests, NEW new \in Records,
         request' = [request EXCEPT ![r] = new]
  PROVE  Becomes(r, new)
BY DEF TypeInv, TypeOK, Becomes

(* The initial state satisfies the type invariant.                         *)
LEMMA TypeInit == Init => TypeInv
<1> SUFFICES ASSUME Init PROVE TypeInv
  OBVIOUS
<1> DEFINE fresh == [at |-> "idle", on |-> None, time |-> 0, retryAt |-> 0,
                     count |-> 0]
<1>1. /\ fresh \in Records /\ fresh.at = "idle" /\ fresh.on = None
      /\ fresh.time = 0
  BY LimiterAssumption DEF Records
<1>2. request = [r \in Requests |-> fresh]
  BY DEF Init
<1> HIDE DEF fresh
<1>3. Minutes \subseteq Int /\ 0 \in 0..MaxRequests
  BY LimiterAssumption DEF Minutes, Minute
<1>4. TypeOK
  BY <1>1, <1>2, <1>3, LimiterAssumption DEF Init, TypeOK
<1>5. Come = {}
  BY <1>1, <1>2 DEF Come
<1>6. \A r \in Requests : Locals(r)
  BY <1>1, <1>2, <1>5 DEF Locals
<1>7. \A i \in Instances : hits[i] = {}
  BY DEF Init
<1> QED
  BY <1>4, <1>5, <1>6, <1>7, FS_EmptySet DEF TypeInv

(* A request that moves keeps them, ...                                    *)
LEMMA MoveKeepsTypes ==
  ASSUME TypeInv, NEW r \in Requests, NEW new \in Records, Becomes(r, new),
         new.at # "idle", new.time <= now,
         new.at = "incrementing" => new.count < MaxRequests,
         UNCHANGED <<now, restarts>>,
         hits' \in [Instances -> SUBSET Requests],
         \A i \in Instances : hits'[i] \subseteq Come \cup {r},
         counter' \in [Minutes -> 0..MaxRequests],
         overlapped' \subseteq Requests
  PROVE  TypeInv'
<1>1. TypeOK'
  BY DEF TypeInv, TypeOK, Becomes
<1>2. Come' = Come \cup {r}
  BY DEF Come, Becomes
<1>3. IsFiniteSet(Come')
  BY <1>2, FS_AddElement DEF TypeInv
<1>4. \A q \in Requests : Locals(q)'
  BY <1>2 DEF TypeInv, Locals, Becomes
<1> QED
  BY <1>1, <1>2, <1>3, <1>4 DEF TypeInv

(* ... the counting of one in particular, which moves nothing else.        *)
Moves(r, where) ==
  /\ request' \in [Requests -> Records]
  /\ \A q \in Requests \ {r} : request'[q] = request[q]
  /\ request[r].at \in {"counting", "incrementing"}
  /\ request'[r].at = where
  /\ request'[r].on = request[r].on /\ request'[r].time = request[r].time
  /\ UNCHANGED <<now, hits, restarts>>

LEMMA CountStep ==
  ASSUME TypeInv, NEW r \in Requests, Count(r)
  PROVE  /\ TypeInv'
         /\ UNCHANGED counter
         /\ \/ Moves(r, "over") /\ UNCHANGED overlapped
            \/ /\ Moves(r, "incrementing")
               /\ request'[r].count = counter[Minute(request[r].time)]
               /\ overlapped' = IF Counting = {} THEN overlapped
                                ELSE overlapped \cup Counting \cup {r}
<1> DEFINE old == request[r]
           count == counter[Minute(old.time)]
<1>1. old \in Records /\ now \in Nat /\ old.time <= now
  BY DEF TypeInv, TypeOK, Locals, Come, Count
<1>2. Minute(old.time) \in Minutes
  BY <1>1, MinutesInOrder DEF Records
<1>3. count \in 0..MaxRequests
  BY <1>2 DEF TypeInv, TypeOK
<1>4. /\ old.at = "counting"
      /\ UNCHANGED <<now, hits, counter, restarts>>
  BY DEF Count
<1>5. CASE /\ request' = [request EXCEPT ![r] = [@ EXCEPT !.at = "over",
                                                          !.retryAt = now + Window]]
           /\ UNCHANGED overlapped
  <2> DEFINE later == now + Window
             new == [old EXCEPT !.at = "over", !.retryAt = later]
  <2>0. later \in Nat
    BY <1>1, LimiterAssumption
  <2> HIDE DEF later
  <2>1. /\ new \in Records /\ new.at = "over" /\ new.on = old.on
        /\ new.time = old.time
    BY <1>1, <2>0 DEF Records
  <2>2. request' = [request EXCEPT ![r] = new]
    BY <1>5 DEF later
  <2> HIDE DEF new
  <2>3. Becomes(r, new)
    BY <2>1, <2>2, Replace
  <2>4. TypeInv'
    BY <1>1, <1>4, <1>5, <2>1, <2>3, MoveKeepsTypes DEF TypeInv, TypeOK
  <2> QED
    BY <1>4, <1>5, <2>1, <2>3, <2>4 DEF Becomes, Moves
<1>6. CASE /\ count < MaxRequests
           /\ request' = [request EXCEPT ![r] = [@ EXCEPT !.at = "incrementing",
                                                          !.count = count]]
           /\ overlapped' = IF Counting = {} THEN overlapped
                            ELSE overlapped \cup Counting \cup {r}
  <2> HIDE DEF count
  <2> DEFINE new == [old EXCEPT !.at = "incrementing", !.count = count]
  <2>1. /\ new \in Records /\ new.at = "incrementing" /\ new.on = old.on
        /\ new.time = old.time /\ new.count = count
    BY <1>1, <1>3 DEF Records
  <2>2. request' = [request EXCEPT ![r] = new]
    BY <1>6
  <2>3. overlapped' \subseteq Requests
    BY <1>6 DEF TypeInv, TypeOK, Counting
  <2> HIDE DEF new
  <2>4. Becomes(r, new)
    BY <2>1, <2>2, Replace
  <2>5. TypeInv'
    BY <1>1, <1>4, <1>6, <2>1, <2>3, <2>4, MoveKeepsTypes DEF TypeInv, TypeOK
  <2> QED
    BY <1>4, <1>6, <2>1, <2>4, <2>5 DEF Becomes, Moves, count
<1>7. count >= MaxRequests \/ count < MaxRequests
  BY <1>3, LimiterAssumption
<1> QED
  BY <1>5, <1>6, <1>7 DEF Count

LEMMA AdmitStep ==
  ASSUME TypeInv, NEW r \in Requests, NEW where \in {"admitted", "letIn"},
         \/ where = "admitted" /\ Increment(r)
         \/ where = "letIn" /\ CountFails(r)
  PROVE  /\ TypeInv'
         /\ Moves(r, where)
<1> DEFINE old == request[r]
           new == [old EXCEPT !.at = where, !.count = 0]
<1>0. 0 \in 0..MaxRequests
  BY LimiterAssumption
<1>1. /\ old \in Records /\ old.time <= now
      /\ old.at \in {"counting", "incrementing"}
      /\ request' = [request EXCEPT ![r] = [@ EXCEPT !.at = where, !.count = 0]]
      /\ UNCHANGED <<now, hits, restarts>>
      /\ overlapped' \subseteq Requests
  BY DEF TypeInv, TypeOK, Locals, Come, Increment, CountFails
<1>2. /\ new \in Records /\ new.at = where /\ new.on = old.on
      /\ new.time = old.time
  BY <1>0, <1>1 DEF Records
<1>3. request' = [request EXCEPT ![r] = new]
  BY <1>1
<1>4. counter' \in [Minutes -> 0..MaxRequests]
  <2>1. CASE UNCHANGED counter
    BY <2>1 DEF TypeInv, TypeOK
  <2>2. CASE old.at = "incrementing" /\ counter' = Written(r)
    <3>1. old.count + 1 \in 0..MaxRequests
      BY <1>1, <2>2, LimiterAssumption DEF TypeInv, Locals, Records
    <3> QED
      BY <2>2, <3>1 DEF Written, TypeInv, TypeOK
  <2> QED
    BY <2>1, <2>2 DEF Increment, CountFails
<1> HIDE DEF new
<1>5. Becomes(r, new)
  BY <1>2, <1>3, Replace
<1>6. TypeInv'
  BY <1>1, <1>2, <1>4, <1>5, MoveKeepsTypes DEF TypeInv, TypeOK
<1> QED
  BY <1>1, <1>2, <1>5, <1>6 DEF Becomes, Moves


(* A request arrives at instance i and is refused, or let past the window. *)
Arrives(r, i) ==
  LET still == InWindow(hits[i], now) IN
  /\ r \notin Come
  /\ request' \in [Requests -> Records]
  /\ \A q \in Requests \ {r} : request'[q] = request[q]
  /\ request'[r].on = i /\ request'[r].time = now
  /\ UNCHANGED <<now, counter, restarts, overlapped>>
  /\ \/ /\ request'[r].at = "limited" /\ UNCHANGED hits
        /\ Cardinality(still) >= MaxRequests
        /\ \E q \in still : request[q].time + Window <= request'[r].retryAt
     \/ /\ request'[r].at = "counting"
        /\ hits' = [hits EXCEPT ![i] = still \cup {r}]
        /\ IsFiniteSet(still) /\ Cardinality(still) < MaxRequests

LEMMA ArriveStep ==
  ASSUME TypeInv, NEW r \in Requests, Arrive(r)
  PROVE  TypeInv' /\ \E i \in Instances : Arrives(r, i)
<1>1. PICK i \in Instances :
        LET still == InWindow(hits[i], now)
            full == Cardinality(still) >= MaxRequests IN
        /\ request[r].at = "idle"
        /\ hits' = IF full THEN hits ELSE [hits EXCEPT ![i] = still \cup {r}]
        /\ request' = [request EXCEPT ![r] =
             [at |-> IF full THEN "limited" ELSE "counting",
              on |-> i, time |-> now, count |-> 0,
              retryAt |-> IF full
                          THEN now + Second * RetryAfter(Oldest(still), now)
                          ELSE now]]
        /\ UNCHANGED <<now, counter, restarts, overlapped>>
  BY DEF Arrive
<1> DEFINE still == InWindow(hits[i], now)
           later == now + Second * RetryAfter(Oldest(still), now)
<1>2. /\ now \in 0..Horizon /\ now \in Nat /\ Horizon \in Nat
      /\ MaxRequests \in Nat /\ MaxRequests > 0
  BY LimiterAssumption DEF TypeInv, TypeOK
<1>3. r \notin Come
  BY <1>1 DEF Come
<1>4. still \in SUBSET Requests /\ still \in SUBSET Come
  BY DEF InWindow, TypeInv, TypeOK
<1>5. IsFiniteSet(still) /\ Cardinality(still) \in Nat
  <2> HIDE DEF still
  <2> QED
    BY <1>4, FS_Subset, FS_CardinalityType DEF TypeInv
<1>6. CASE Cardinality(still) >= MaxRequests
  <2>1. still # {}
    <3> HIDE DEF still
    <3> QED
      BY <1>2, <1>6, FS_EmptySet
  <2>2. PICK q \in still : request[q].time = Oldest(still)
    <3> HIDE DEF still
    <3> QED
      BY <1>4, <2>1, OldestIsOne
  <2>3. Oldest(still) \in Int
    BY <1>4, <2>2 DEF TypeInv, TypeOK, Records
  <2>4. /\ Second * RetryAfter(Oldest(still), now) \in Nat
        /\ Second * RetryAfter(Oldest(still), now)
             >= Oldest(still) + Window - now
    BY <1>2, <2>3, RetryIsEnough
  <2>5. later \in Nat /\ request[q].time + Window <= later
    BY <1>2, <2>2, <2>3, <2>4, LimiterAssumption
  <2> DEFINE new == [at |-> "limited", on |-> i, time |-> now, count |-> 0,
                     retryAt |-> later]
  <2>6. request' = [request EXCEPT ![r] = new] /\ UNCHANGED hits
    BY <1>1, <1>6
  <2> HIDE DEF later
  <2>7. /\ new \in Records /\ new.at = "limited" /\ new.on = i
        /\ new.time = now /\ new.retryAt = later
    BY <1>2, <2>5 DEF Records
  <2> HIDE DEF new
  <2>8. Becomes(r, new)
    BY <2>6, <2>7, Replace
  <2>9. TypeInv'
    BY <1>1, <1>2, <2>6, <2>7, <2>8, MoveKeepsTypes DEF TypeInv, TypeOK
  <2>10. Arrives(r, i)
    BY <1>1, <1>3, <1>6, <2>5, <2>6, <2>7, <2>8 DEF Becomes, Arrives
  <2> QED
    BY <2>9, <2>10
<1>7. CASE Cardinality(still) < MaxRequests
  <2>1. ~ (Cardinality(still) >= MaxRequests)
    BY <1>2, <1>5, <1>7
  <2> DEFINE new == [at |-> "counting", on |-> i, time |-> now, count |-> 0,
                     retryAt |-> now]
  <2>2. /\ request' = [request EXCEPT ![r] = new]
        /\ hits' = [hits EXCEPT ![i] = still \cup {r}]
    BY <1>1, <2>1
  <2>3. /\ new \in Records /\ new.at = "counting" /\ new.on = i
        /\ new.time = now
    BY <1>2 DEF Records
  <2> HIDE DEF new, still
  <2>4. Becomes(r, new)
    BY <2>2, <2>3, Replace
  <2>5. /\ hits' \in [Instances -> SUBSET Requests]
        /\ \A j \in Instances : hits'[j] \subseteq Come \cup {r}
    BY <1>4, <2>2 DEF TypeInv, TypeOK
  <2>6. TypeInv'
    BY <1>1, <1>2, <2>3, <2>4, <2>5, MoveKeepsTypes DEF TypeInv, TypeOK
  <2>7. Arrives(r, i)
    BY <1>1, <1>3, <1>5, <1>7, <2>2, <2>3, <2>4 DEF Becomes, Arrives, still
  <2> QED
    BY <2>6, <2>7
<1> QED
  BY <1>2, <1>5, <1>6, <1>7

(* The clock and a restart keep the types.                                 *)
LEMMA TickStep ==
  ASSUME TypeInv, Tick
  PROVE  TypeInv'
<1>1. now' \in 0..Horizon /\ now <= now'
  BY LimiterAssumption DEF Tick, TypeInv, TypeOK
<1>2. TypeOK' /\ Come' = Come
  BY <1>1 DEF Tick, TypeInv, TypeOK, Come
<1>3. \A r \in Requests : Locals(r)'
  BY <1>1, <1>2, LimiterAssumption
     DEF Tick, TypeInv, TypeOK, Records, Locals, Come
<1> QED
  BY <1>2, <1>3 DEF Tick, TypeInv

(* An instance that restarts loses its hits, and its requests are nobody's. *)
Restarts(i) ==
  /\ hits' = [hits EXCEPT ![i] = {}]
  /\ \A r \in Requests :
       /\ request'[r].time = request[r].time
       /\ request'[r].count = request[r].count
       /\ request'[r].retryAt = request[r].retryAt
       /\ IF request[r].on = i THEN request'[r].on = None
                               ELSE request'[r].on = request[r].on
       /\ \/ request'[r].at = request[r].at
          \/ /\ request'[r].at = "died"
             /\ request[r].at \in {"counting", "incrementing"}
             /\ request[r].on = i
       /\ request[r].on # i => request'[r] = request[r]
  /\ UNCHANGED <<now, counter, overlapped>>

LEMMA RestartStep ==
  ASSUME TypeInv, NEW i \in Instances, Restart(i)
  PROVE  TypeInv' /\ Restarts(i)
<1>1. restarts' \in 0..MaxRestarts
  <2>1. restarts < MaxRestarts /\ restarts' = restarts + 1
    BY DEF Restart
  <2> QED
    BY <2>1, LimiterAssumption DEF TypeInv, TypeOK
<1>2. /\ request' = [r \in Requests |->
           IF request[r].on # i THEN request[r]
           ELSE [request[r] EXCEPT
                   !.on = None,
                   !.at = IF @ \in {"counting", "incrementing"} THEN "died"
                          ELSE @]]
      /\ hits' = [hits EXCEPT ![i] = {}]
      /\ UNCHANGED <<now, counter, overlapped>>
  BY DEF Restart
<1>3. ASSUME NEW r \in Requests
      PROVE  /\ request'[r] \in Records
             /\ request'[r].time = request[r].time
             /\ request'[r].count = request[r].count
             /\ request'[r].retryAt = request[r].retryAt
             /\ IF request[r].on = i THEN request'[r].on = None
                                     ELSE request'[r].on = request[r].on
             /\ \/ request'[r].at = request[r].at
                \/ /\ request'[r].at = "died"
                   /\ request[r].at \in {"counting", "incrementing"}
                   /\ request[r].on = i
             /\ request[r].on # i => request'[r] = request[r]
  <2>1. request[r] \in Records
    BY DEF TypeInv, TypeOK
  <2>2. CASE request[r].on # i
    BY <1>2, <2>1, <2>2
  <2>3. CASE request[r].on = i
    <3> DEFINE where == IF request[r].at \in {"counting", "incrementing"}
                        THEN "died" ELSE request[r].at
               new == [request[r] EXCEPT !.on = None, !.at = where]
    <3>1. request'[r] = new
      BY <1>2, <2>3
    <3>2. /\ where \in {"idle", "counting", "incrementing", "admitted",
                        "letIn", "limited", "over", "died"}
          /\ \/ where = request[r].at
             \/ /\ where = "died"
                /\ request[r].at \in {"counting", "incrementing"}
      BY <2>1 DEF Records
    <3> HIDE DEF where
    <3>3. /\ new \in Records /\ new.on = None /\ new.at = where
          /\ new.time = request[r].time /\ new.count = request[r].count
          /\ new.retryAt = request[r].retryAt
      BY <2>1, <3>2 DEF Records
    <3> HIDE DEF new
    <3> QED
      BY <2>3, <3>1, <3>2, <3>3
  <2> QED
    BY <2>2, <2>3
<1>4. request' \in [Requests -> Records]
  BY <1>2, <1>3
<1>5. TypeOK'
  BY <1>1, <1>2, <1>4 DEF TypeInv, TypeOK
<1>6. Come' = Come
  BY <1>3 DEF Come
<1>7. \A r \in Requests : Locals(r)'
  <2>1. None # i
    BY LimiterAssumption
  <2> QED
    BY <1>2, <1>3, <1>6, <2>1 DEF TypeInv, Locals
<1>8. \A j \in Instances : hits'[j] \subseteq Come
  BY <1>2 DEF TypeInv, TypeOK
<1> QED
  BY <1>2, <1>3, <1>5, <1>6, <1>7, <1>8 DEF TypeInv, Restarts

LEMMA TypeStep == TypeInv /\ [Next]_vars => TypeInv'
<1> SUFFICES ASSUME TypeInv, [Next]_vars PROVE TypeInv'
  OBVIOUS
<1>1. ASSUME NEW r \in Requests, Arrive(r) PROVE TypeInv'
  BY <1>1, ArriveStep
<1>2. ASSUME NEW r \in Requests, Count(r) PROVE TypeInv'
  BY <1>2, CountStep
<1>3. ASSUME NEW r \in Requests, Increment(r) \/ CountFails(r) PROVE TypeInv'
  <2>1. CASE Increment(r)
    BY <2>1, AdmitStep
  <2>2. CASE CountFails(r)
    BY <2>2, AdmitStep
  <2> QED
    BY <1>3, <2>1, <2>2
<1>4. CASE Tick
  BY <1>4, TickStep
<1>5. ASSUME NEW i \in Instances, Restart(i) PROVE TypeInv'
  BY <1>5, RestartStep
<1>6. CASE UNCHANGED vars
  BY <1>6 DEF vars, TypeInv, TypeOK, Locals, Come
<1> QED
  BY <1>1, <1>2, <1>3, <1>4, <1>5, <1>6 DEF Next, Finished

(* The type invariant holds in every reachable state.                      *)
THEOREM TypeInvariant == Spec => []TypeInv
BY TypeInit, TypeStep, PTL DEF Spec

(* Every variable has its type, and the counter of a minute never passes   *)
(* the limit.                                                              *)
THEOREM TypeCorrect == Spec => []TypeOK
<1>1. TypeInv => TypeOK
  BY DEF TypeInv
<1> QED
  BY TypeInvariant, <1>1, PTL


----------------------------------------------------------------------------
(* The window of an instance                                               *)

(* Those let past the window have come, and are finitely many.             *)
LEMMA SpanIsFinite ==
  ASSUME TypeInv, NEW i \in Instances, NEW t \in Int
  PROVE  /\ Span(i, t) \in SUBSET Come
         /\ IsFiniteSet(Span(i, t)) /\ Cardinality(Span(i, t)) \in Nat
<1>1. Span(i, t) \in SUBSET Come
  BY DEF Span, Passed, Come
<1> QED
  BY <1>1, FS_Subset, FS_CardinalityType DEF TypeInv

(* What holds of the spans, when the windows are as they were.             *)
LEMMA SameWindow ==
  ASSUME TypeInv, WindowInv, UNCHANGED <<now, hits>>,
         \A i \in Instances : Passed(i)' = Passed(i),
         \A r \in Come : request'[r].time = request[r].time
  PROVE  /\ \A i \in Instances : \A t : Span(i, t)' = Span(i, t)
         /\ WindowBound'
         /\ \A i \in Instances : HitsInv(i)'
<1>1. \A i \in Instances : Passed(i) \subseteq Come
  BY DEF Passed, Come
<1>2. ASSUME NEW i \in Instances, NEW t PROVE Span(i, t)' = Span(i, t)
  BY <1>1 DEF Span
<1>3. WindowBound'
  BY <1>2 DEF WindowInv, WindowBound, Span
<1>4. \A i \in Instances : HitsInv(i)'
  BY <1>1 DEF WindowInv, HitsInv
<1> QED
  BY <1>2, <1>3, <1>4

LEMMA WindowInit == Init => WindowInv
<1> SUFFICES ASSUME Init PROVE WindowInv
  OBVIOUS
<1>1. \A r \in Requests : request[r].at = "idle" /\ request[r].on = None
  BY DEF Init
<1>2. \A i \in Instances : Passed(i) = {}
  BY <1>1 DEF Passed
<1>3. \A i \in Instances : hits[i] = {}
  BY DEF Init
<1>4. WindowBound
  <2>1. 0 <= MaxRequests
    BY LimiterAssumption
  <2>2. ASSUME NEW i \in Instances, NEW t \in 0..now
        PROVE  {r \in Passed(i) : request[r].time \in (t - Window + 1)..t} = {}
    BY <1>2
  <2> QED
    BY <2>1, <2>2, FS_EmptySet DEF WindowBound
<1> QED
  BY <1>1, <1>2, <1>3, <1>4 DEF WindowInv, HitsInv, RefusedInv

(* A refused request leaves the windows alone, and one of the hits that    *)
(* filled its window bears the time it may come again.                     *)
LEMMA RefusalKeepsWindows ==
  ASSUME TypeInv, WindowInv, NEW r \in Requests, NEW i \in Instances,
         Arrives(r, i), request'[r].at = "limited", UNCHANGED hits,
         \E q \in InWindow(hits[i], now) :
           request[q].time + Window <= request'[r].retryAt
  PROVE  WindowInv'
<1>1. \A j \in Instances : Passed(j)' = Passed(j)
  BY DEF Arrives, Passed, Come
<1>2. \A q \in Come : request'[q] = request[q]
  BY DEF Arrives, Come
<1>3. /\ \A j \in Instances : \A t : Span(j, t)' = Span(j, t)
      /\ WindowBound' /\ \A j \in Instances : HitsInv(j)'
  BY <1>1, <1>2, SameWindow DEF Arrives
<1>4. ASSUME NEW s \in Requests \ {r} PROVE RefusedInv(s)'
  <2> SUFFICES ASSUME request[s].at = "limited", request[s].on # None
               PROVE  \E q \in Span(request[s].on, request[s].time)' :
                        request'[q].time + Window <= request[s].retryAt
    BY DEF RefusedInv, Arrives
  <2>1. request[s].on \in Instances
    BY DEF TypeInv, TypeOK, Records
  <2>2. PICK q \in Span(request[s].on, request[s].time) :
          request[q].time + Window <= request[s].retryAt
    BY DEF WindowInv, RefusedInv
  <2>3. q \in Come
    BY <2>2 DEF Span, Passed, Come
  <2>4. request'[s] = request[s]
    BY DEF Arrives
  <2>5. q \in Span(request[s].on, request[s].time)'
    BY <1>3, <2>1, <2>2, <2>4
  <2> QED
    BY <1>2, <2>2, <2>3, <2>5
<1>5. RefusedInv(r)'
  <2>1. PICK q \in InWindow(hits[i], now) :
          request[q].time + Window <= request'[r].retryAt
    OBVIOUS
  <2>2. q \in Come /\ q \in Passed(i) /\ q \in Requests
    BY <2>1 DEF InWindow, WindowInv, HitsInv, TypeInv, Come
  <2>3. request[q].time \in Int /\ request[q].time <= now
        /\ now \in Int /\ request[q].time > now - Window
    BY <2>1, <2>2 DEF InWindow, TypeInv, TypeOK, Records, Locals
  <2>4. q \in Span(i, now)
    BY <2>2, <2>3, LimiterAssumption DEF Span
  <2>5. q \in Span(i, now)'
    BY <1>3, <2>4 DEF Arrives
  <2> QED
    BY <1>2, <2>1, <2>2, <2>5 DEF RefusedInv, Arrives
<1> QED
  BY <1>3, <1>4, <1>5 DEF WindowInv

(* A request that is let past joins the hits still in the window, of which *)
(* there were fewer than the limit.                                        *)
LEMMA AdmissionKeepsWindows ==
  ASSUME TypeInv, WindowInv, NEW r \in Requests, NEW i \in Instances,
         Arrives(r, i), request'[r].at = "counting",
         hits' = [hits EXCEPT ![i] = InWindow(hits[i], now) \cup {r}],
         IsFiniteSet(InWindow(hits[i], now)),
         Cardinality(InWindow(hits[i], now)) < MaxRequests
  PROVE  WindowInv'
<1> DEFINE still == InWindow(hits[i], now)
<1>1. /\ now \in Int /\ Window \in Int /\ MaxRequests \in Int /\ Window > 0
  BY LimiterAssumption DEF TypeInv, TypeOK
<1>2. \A q \in Come : q # r /\ request'[q] = request[q]
                      /\ request[q].time \in Int /\ request[q].time <= now
  BY DEF Arrives, Come, TypeInv, TypeOK, Records, Locals
<1>3. /\ Passed(i)' = Passed(i) \cup {r}
      /\ \A j \in Instances \ {i} : Passed(j)' = Passed(j)
  BY DEF Arrives, Passed, Come
<1>4. \A j \in Instances : Passed(j) \subseteq Come
  BY DEF Passed, Come
<1>5. \A j \in Instances : hits[j] \subseteq Come /\ hits[j] \subseteq Passed(j)
  BY DEF TypeInv, WindowInv, HitsInv
<1>6. request'[r].time = now /\ now' = now
  BY DEF Arrives
<1>7. ASSUME NEW j \in Instances, NEW t \in 0..now
      PROVE  \/ Span(j, t)' = Span(j, t)
             \/ t = now /\ Span(j, t)' = Span(i, now) \cup {r}
  <2>1. CASE j # i
    BY <1>2, <1>3, <1>4, <2>1 DEF Span
  <2>2. CASE j = i /\ t # now
    <3>1. ~ (request'[r].time \in (t - Window + 1)..t)
      BY <1>1, <1>6, <2>2
    <3> QED
      BY <1>2, <1>3, <1>4, <2>2, <3>1 DEF Span
  <2>3. CASE j = i /\ t = now
    <3>1. request'[r].time \in (now - Window + 1)..now
      BY <1>1, <1>6
    <3> QED
      BY <1>2, <1>3, <1>4, <2>3, <3>1 DEF Span
  <2> QED
    BY <2>1, <2>2, <2>3
<1>8. Cardinality(Span(i, now) \cup {r}) <= MaxRequests
  <2>1. Span(i, now) \in SUBSET still
    BY <1>1, <1>2, <1>4 DEF Span, WindowInv, HitsInv, InWindow
  <2> HIDE DEF still
  <2>2. /\ IsFiniteSet(Span(i, now)) /\ Cardinality(Span(i, now)) \in Nat
    BY <1>1, SpanIsFinite
  <2>3. IsFiniteSet(still) /\ Cardinality(still) < MaxRequests
        /\ Cardinality(still) \in Nat
    BY FS_CardinalityType DEF still
  <2>4. Cardinality(Span(i, now)) <= Cardinality(still)
    BY <2>1, <2>3, FS_Subset
  <2>5. Cardinality(Span(i, now) \cup {r}) <= Cardinality(Span(i, now)) + 1
    <3>1. /\ IsFiniteSet(Span(i, now) \cup {r})
          /\ Cardinality(Span(i, now) \cup {r}) =
               IF r \in Span(i, now) THEN Cardinality(Span(i, now))
                                    ELSE Cardinality(Span(i, now)) + 1
      BY <2>2, FS_AddElement
    <3> QED
      BY <2>2, <3>1
  <2>6. Cardinality(Span(i, now) \cup {r}) \in Int
    BY <2>2, FS_AddElement, FS_CardinalityType
  <2> QED
    BY <1>1, <2>2, <2>3, <2>4, <2>5, <2>6
<1>9. WindowBound'
  <2>1. ASSUME NEW j \in Instances, NEW t \in 0..now
        PROVE  Cardinality(Span(j, t)') <= MaxRequests
    BY <1>7, <1>8 DEF WindowInv, WindowBound, Span
  <2> QED
    BY <1>6, <2>1 DEF WindowBound, Span
<1>10. ASSUME NEW j \in Instances PROVE HitsInv(j)'
  <2>1. CASE j # i
    <3>1. hits'[j] = hits[j]
      BY <2>1 DEF TypeInv, TypeOK
    <3> QED
      BY <1>2, <1>3, <1>4, <1>6, <2>1, <3>1 DEF WindowInv, HitsInv
  <2>2. CASE j = i
    <3>1. hits'[i] = still \cup {r}
      BY DEF TypeInv, TypeOK
    <3>2. still \subseteq Passed(i)
      BY <1>5 DEF InWindow
    <3>3. ASSUME NEW q \in Passed(i), request[q].time > now - Window
          PROVE  q \in still
      BY <3>3 DEF WindowInv, HitsInv, InWindow
    <3> HIDE DEF still
    <3> QED
      BY <1>2, <1>3, <1>4, <1>6, <2>2, <3>1, <3>2, <3>3 DEF HitsInv
  <2> QED
    BY <2>1, <2>2
<1>11. ASSUME NEW s \in Requests PROVE RefusedInv(s)'
  <2> SUFFICES ASSUME request'[s].at = "limited", request'[s].on # None
               PROVE  \E q \in Span(request[s].on, request[s].time)' :
                        request'[q].time + Window <= request'[s].retryAt
    BY DEF RefusedInv
  <2>1. s # r /\ request'[s] = request[s]
    BY DEF Arrives
  <2>2. PICK q \in Span(request[s].on, request[s].time) :
          request[q].time + Window <= request[s].retryAt
    BY <2>1 DEF WindowInv, RefusedInv
  <2>3. request[s].on \in Instances
    BY <2>1 DEF TypeInv, TypeOK, Records
  <2> DEFINE o == request[s].on
  <2>4. q \in Passed(o) /\ q \in Come
    BY <1>4, <2>2, <2>3 DEF Span
  <2>5. Passed(o) \subseteq Passed(request[s].on)'
    BY <1>3, <2>1, <2>3
  <2> HIDE DEF o
  <2>6. q \in Span(request[s].on, request[s].time)'
    BY <1>2, <2>1, <2>2, <2>4, <2>5 DEF Span
  <2> QED
    BY <1>2, <2>1, <2>2, <2>4, <2>6
<1> QED
  BY <1>9, <1>10, <1>11 DEF WindowInv


(* The counting of a request leaves the windows alone, ...                 *)
LEMMA CountingKeepsWindows ==
  ASSUME TypeInv, WindowInv, NEW r \in Requests,
         NEW where \in {"over", "incrementing", "admitted", "letIn"},
         Moves(r, where)
  PROVE  WindowInv'
<1>1. \A j \in Instances : Passed(j)' = Passed(j)
  BY DEF Moves, Passed
<1>2. \A q \in Requests : request'[q].time = request[q].time
  BY DEF Moves
<1>3. /\ \A j \in Instances : \A t : Span(j, t)' = Span(j, t)
      /\ WindowBound' /\ \A j \in Instances : HitsInv(j)'
  BY <1>1, <1>2, SameWindow DEF Moves, Come
<1>4. ASSUME NEW s \in Requests PROVE RefusedInv(s)'
  <2> SUFFICES ASSUME request'[s].at = "limited", request'[s].on # None
               PROVE  \E q \in Span(request[s].on, request[s].time)' :
                        request'[q].time + Window <= request'[s].retryAt
    BY DEF RefusedInv
  <2>1. request'[s] = request[s]
    BY DEF Moves
  <2>2. request[s].on \in Instances
    BY <2>1 DEF TypeInv, TypeOK, Records
  <2>3. PICK q \in Span(request[s].on, request[s].time) :
          request[q].time + Window <= request[s].retryAt
    BY <2>1 DEF WindowInv, RefusedInv
  <2>4. q \in Requests
    BY <2>3 DEF Span, Passed
  <2>5. q \in Span(request[s].on, request[s].time)'
    BY <1>3, <2>1, <2>2, <2>3
  <2> QED
    BY <1>2, <2>1, <2>3, <2>4, <2>5
<1> QED
  BY <1>3, <1>4 DEF WindowInv

(* ... the clock takes hits out of them, ...                               *)
LEMMA TickKeepsWindows ==
  ASSUME TypeInv, WindowInv, Tick
  PROVE  WindowInv'
<1>1. /\ now \in Nat /\ now' = now + 1 /\ Window \in Nat /\ MaxRequests \in Nat
      /\ UNCHANGED <<hits, request>>
  BY LimiterAssumption DEF Tick, TypeInv, TypeOK
<1>2. \A q \in Come : request[q].time \in Int /\ request[q].time <= now
  BY DEF Come, TypeInv, TypeOK, Records, Locals
<1>3. \A j \in Instances : Passed(j)' = Passed(j) /\ Passed(j) \subseteq Come
  BY <1>1 DEF Passed, Come
<1>4. ASSUME NEW j \in Instances, NEW t \in 0..now'
      PROVE  Cardinality(Span(j, t)) <= MaxRequests
  <2>1. ASSUME NEW u \in 0..now PROVE Cardinality(Span(j, u)) <= MaxRequests
    BY DEF WindowInv, WindowBound, Span
  <2>2. CASE t = now + 1
    <3>1. Span(j, t) \in SUBSET Span(j, now)
      BY <1>1, <1>2, <1>3, <2>2 DEF Span
    <3>2. /\ IsFiniteSet(Span(j, now)) /\ Cardinality(Span(j, now)) \in Nat
          /\ Cardinality(Span(j, t)) \in Nat
      BY <1>1, SpanIsFinite
    <3>3. Cardinality(Span(j, t)) <= Cardinality(Span(j, now))
      BY <3>1, <3>2, FS_Subset
    <3>4. Cardinality(Span(j, now)) <= MaxRequests
      BY <1>1, <2>1
    <3> QED
      BY <1>1, <3>2, <3>3, <3>4
  <2> QED
    BY <1>1, <2>1, <2>2
<1>5. WindowBound'
  <2>1. \A j \in Instances : \A t : Span(j, t)' = Span(j, t)
    BY <1>1, <1>3 DEF Span
  <2> QED
    BY <1>4, <2>1 DEF WindowBound, Span
<1>6. \A j \in Instances : HitsInv(j)'
  BY <1>1, <1>2, <1>3 DEF WindowInv, HitsInv
<1>7. \A s \in Requests : RefusedInv(s)'
  <2>1. \A j \in Instances : \A t : Span(j, t)' = Span(j, t)
    BY <1>1, <1>3 DEF Span
  <2> QED
    BY <1>1, <2>1 DEF WindowInv, RefusedInv, TypeInv, TypeOK, Records
<1> QED
  BY <1>5, <1>6, <1>7 DEF WindowInv

(* ... and a restart empties one.                                          *)
LEMMA RestartKeepsWindows ==
  ASSUME TypeInv, WindowInv, NEW i \in Instances, Restarts(i)
  PROVE  WindowInv'
<1>1. i # None
  BY LimiterAssumption
<1>2. \A q \in Requests : request'[q].time = request[q].time
  BY DEF Restarts
<1>3. /\ Passed(i)' = {}
      /\ \A j \in Instances \ {i} : Passed(j)' = Passed(j)
  <2>1. \A q \in Requests : request'[q].on # i
    BY <1>1 DEF Restarts
  <2>2. ASSUME NEW j \in Instances \ {i}, NEW q \in Requests
        PROVE  q \in Passed(j)' <=> q \in Passed(j)
    <3>1. j # None /\ j # i
      BY LimiterAssumption
    <3>2. CASE request[q].on = i
      BY <3>1, <3>2 DEF Restarts, Passed
    <3>3. CASE request[q].on # i
      BY <3>3 DEF Restarts, Passed
    <3> QED
      BY <3>2, <3>3
  <2>3. \A j \in Instances : Passed(j) \subseteq Requests
                             /\ Passed(j)' \subseteq Requests
    BY DEF Passed
  <2> QED
    BY <2>1, <2>2, <2>3 DEF Passed
<1>4. /\ \A t : Span(i, t)' = {}
      /\ \A j \in Instances \ {i} : \A t : Span(j, t)' = Span(j, t)
  <2>1. \A j \in Instances : Passed(j) \subseteq Requests
    BY DEF Passed
  <2> QED
    BY <1>2, <1>3, <2>1 DEF Span
<1>5. WindowBound'
  <2>1. now' = now /\ MaxRequests \in Nat
    BY LimiterAssumption DEF Restarts
  <2>2. ASSUME NEW j \in Instances, NEW t \in 0..now
        PROVE  Cardinality(Span(j, t)') <= MaxRequests
    <3>1. CASE j = i
      BY <1>4, <2>1, <3>1, FS_EmptySet
    <3>2. CASE j # i
      BY <1>4, <3>2 DEF WindowInv, WindowBound, Span
    <3> QED
      BY <3>1, <3>2
  <2> QED
    BY <2>1, <2>2 DEF WindowBound, Span
<1>6. ASSUME NEW j \in Instances PROVE HitsInv(j)'
  <2>1. CASE j = i
    BY <1>3, <2>1 DEF Restarts, HitsInv, TypeInv, TypeOK
  <2>2. CASE j # i
    <3>1. hits'[j] = hits[j] /\ now' = now /\ Passed(j)' = Passed(j)
      BY <1>3, <2>2 DEF Restarts, TypeInv, TypeOK
    <3>2. Passed(j) \subseteq Requests
      BY DEF Passed
    <3> QED
      BY <1>2, <3>1, <3>2 DEF WindowInv, HitsInv
  <2> QED
    BY <2>1, <2>2
<1>7. ASSUME NEW s \in Requests PROVE RefusedInv(s)'
  <2> SUFFICES ASSUME request'[s].at = "limited", request'[s].on # None
               PROVE  \E q \in Span(request[s].on, request[s].time)' :
                        request'[q].time + Window <= request'[s].retryAt
    BY DEF RefusedInv
  <2>1. request[s].on # i /\ request'[s] = request[s]
    BY DEF Restarts
  <2>2. request[s].on \in Instances \ {i}
    BY <2>1 DEF TypeInv, TypeOK, Records
  <2>3. PICK q \in Span(request[s].on, request[s].time) :
          request[q].time + Window <= request[s].retryAt
    BY <2>1 DEF WindowInv, RefusedInv
  <2>4. q \in Requests
    BY <2>3 DEF Span, Passed
  <2>5. q \in Span(request[s].on, request[s].time)'
    BY <1>4, <2>1, <2>2, <2>3
  <2> QED
    BY <1>2, <2>1, <2>3, <2>4, <2>5
<1> QED
  BY <1>5, <1>6, <1>7 DEF WindowInv

LEMMA WindowStep == TypeInv /\ WindowInv /\ [Next]_vars => WindowInv'
<1> SUFFICES ASSUME TypeInv, WindowInv, [Next]_vars PROVE WindowInv'
  OBVIOUS
<1>1. ASSUME NEW r \in Requests, Arrive(r) PROVE WindowInv'
  <2>1. PICK i \in Instances : Arrives(r, i)
    BY <1>1, ArriveStep
  <2>2. CASE /\ request'[r].at = "limited" /\ UNCHANGED hits
             /\ \E q \in InWindow(hits[i], now) :
                  request[q].time + Window <= request'[r].retryAt
    BY <2>1, <2>2, RefusalKeepsWindows
  <2>3. CASE /\ request'[r].at = "counting"
             /\ hits' = [hits EXCEPT ![i] = InWindow(hits[i], now) \cup {r}]
             /\ IsFiniteSet(InWindow(hits[i], now))
             /\ Cardinality(InWindow(hits[i], now)) < MaxRequests
    BY <2>1, <2>3, AdmissionKeepsWindows
  <2> QED
    BY <2>1, <2>2, <2>3 DEF Arrives
<1>2. ASSUME NEW r \in Requests, Count(r) PROVE WindowInv'
  BY <1>2, CountStep, CountingKeepsWindows
<1>3. ASSUME NEW r \in Requests, Increment(r) \/ CountFails(r)
      PROVE  WindowInv'
  <2>1. PICK where \in {"admitted", "letIn"} : Moves(r, where)
    BY <1>3, AdmitStep
  <2> QED
    BY <2>1, CountingKeepsWindows
<1>4. CASE Tick
  BY <1>4, TickKeepsWindows
<1>5. ASSUME NEW i \in Instances, Restart(i) PROVE WindowInv'
  BY <1>5, RestartStep, RestartKeepsWindows
<1>6. CASE UNCHANGED vars
  <2>1. \A i \in Instances : Passed(i)' = Passed(i)
    BY <1>6 DEF vars, Passed
  <2>2. /\ \A i \in Instances : \A t : Span(i, t)' = Span(i, t)
        /\ WindowBound' /\ \A i \in Instances : HitsInv(i)'
    BY <1>6, <2>1, SameWindow DEF vars
  <2> QED
    BY <1>6, <2>2 DEF vars, WindowInv, RefusedInv, TypeInv, TypeOK, Records
<1> QED
  BY <1>1, <1>2, <1>3, <1>4, <1>5, <1>6 DEF Next, Finished

(* The invariant of the windows holds in every reachable state.            *)
THEOREM WindowInvariant == Spec => [](TypeInv /\ WindowInv)
BY TypeInit, TypeStep, WindowInit, WindowStep, PTL DEF Spec

(* In no span as long as the window does an instance let more requests     *)
(* past than the limit.                                                    *)
THEOREM LimitHolds == Spec => []WindowBound
<1>1. WindowInv => WindowBound
  BY DEF WindowInv
<1> QED
  BY WindowInvariant, <1>1, PTL

(* A refused client that waits for the time it was given finds the window  *)
(* with room, unless later requests of its own have filled it.             *)
THEOREM RetryAfterIsEnough == Spec => []RetrySuffices
<1>1. TypeInv /\ WindowInv => RetrySuffices
  <2> SUFFICES ASSUME TypeInv, WindowInv, NEW r \in Requests,
                      request[r].at = "limited", request[r].on # None,
                      now >= request[r].retryAt
               PROVE  Cardinality({q \in Passed(request[r].on) :
                                     /\ request[q].time <= request[r].time
                                     /\ request[q].time > now - Window})
                        < MaxRequests
    BY DEF RetrySuffices
  <2> DEFINE i == request[r].on
             t == request[r].time
             filling == {q \in Passed(i) :
                           request[q].time <= t /\ request[q].time > now - Window}
  <2>1. /\ i \in Instances /\ t \in 0..now /\ t \in Int /\ now \in Nat
        /\ request[r].retryAt \in Nat /\ r \in Come
        /\ MaxRequests \in Nat /\ Window \in Nat
    BY LimiterAssumption DEF TypeInv, TypeOK, Records, Locals, Come
  <2>2. PICK oldest \in Span(i, t) :
          request[oldest].time + Window <= request[r].retryAt
    BY DEF WindowInv, RefusedInv
  <2>3. \A q \in Passed(i) : request[q].time \in Int
    BY DEF Passed, TypeInv, TypeOK, Records
  <2>4. oldest \in Passed(i) /\ oldest \notin filling
    BY <2>1, <2>2, <2>3 DEF Span
  <2>5. filling \in SUBSET (Span(i, t) \ {oldest})
    BY <2>1, <2>3, <2>4 DEF Span
  <2>6. /\ IsFiniteSet(Span(i, t)) /\ Cardinality(Span(i, t)) \in Nat
        /\ Cardinality(Span(i, t)) <= MaxRequests
    BY <2>1, SpanIsFinite DEF WindowInv, WindowBound, Span
  <2> HIDE DEF filling
  <2>7. /\ IsFiniteSet(Span(i, t) \ {oldest})
        /\ Cardinality(Span(i, t) \ {oldest}) = Cardinality(Span(i, t)) - 1
    BY <2>2, <2>6, FS_RemoveElement
  <2>8. /\ Cardinality(filling) <= Cardinality(Span(i, t) \ {oldest})
        /\ IsFiniteSet(filling)
    BY <2>5, <2>7, FS_Subset
  <2>9. Cardinality(filling) \in Nat
    BY <2>8, FS_CardinalityType
  <2>10. Cardinality(filling) < MaxRequests
    BY <2>1, <2>6, <2>7, <2>8, <2>9
  <2> QED
    BY <2>10 DEF filling
<1> QED
  BY WindowInvariant, <1>1, PTL


----------------------------------------------------------------------------
(* The counter of a minute                                                 *)

(* What a minute has admitted has come, and is finite.                     *)
LEMMA CountedIsFinite ==
  ASSUME TypeInv, NEW m \in Minutes
  PROVE  /\ IsFiniteSet(Counted(m)) /\ Cardinality(Counted(m)) \in Nat
         /\ Extra(m) \in {0, 1}
<1>1. Counted(m) \in SUBSET Come
  BY DEF Counted, Come
<1> QED
  BY <1>1, FS_Subset, FS_CardinalityType DEF TypeInv, Extra

(* A counter is a number, and so is what has been read of it.              *)
LEMMA CountTypes ==
  ASSUME TypeInv
  PROVE  /\ MaxRequests \in Nat
         /\ \A m \in Minutes : counter[m] \in Nat /\ counter[m] <= MaxRequests
         /\ \A r \in Requests : /\ request[r].count \in Nat
                                /\ Minute(request[r].time) \in Minutes
BY LimiterAssumption, MinutesInOrder DEF TypeInv, TypeOK, Records

LEMMA FleetInit == Init => FleetInv
<1> SUFFICES ASSUME Init PROVE FleetInv
  OBVIOUS
<1>1. \A r \in Requests : request[r].at = "idle"
  BY DEF Init
<1>2. /\ Counting = {}
      /\ \A m \in Minutes : Counted(m) = {} /\ Extra(m) = 0 /\ counter[m] = 0
  BY <1>1 DEF Counting, Counted, Shared, Extra, Init
<1> QED
  BY <1>2, FS_EmptySet DEF FleetInv

(* Nothing counts anew, and nothing more has been counted.                 *)
LEMMA SameFleet ==
  ASSUME FleetInv, UNCHANGED counter, overlapped \subseteq overlapped',
         \A m \in Minutes : Counted(m)' = Counted(m) /\ Shared(m)' = Shared(m),
         Counting' \subseteq Counting,
         \A r \in Counting' : /\ request'[r].time = request[r].time
                              /\ request'[r].count = request[r].count
  PROVE  FleetInv'
<1>0. \A m \in Minutes : Extra(m)' = Extra(m)
  BY DEF Extra
<1>1. \A m \in Minutes : Cardinality(Counted(m)') + Extra(m)' <= counter'[m]
  BY <1>0 DEF FleetInv
<1>2. ASSUME NEW m \in Minutes, NEW r \in Counting',
             Minute(request'[r].time) = m
      PROVE  /\ Cardinality(Counted(m)') <= request'[r].count
             /\ r \notin overlapped' =>
                  Cardinality(Counted(m)') + Extra(m)' <= request'[r].count
  BY <1>0, <1>2 DEF FleetInv
<1>3. ASSUME NEW r \in Counting' \ overlapped' PROVE Counting' = {r}
  BY <1>3 DEF FleetInv
<1> QED
  BY <1>1, <1>2, <1>3 DEF FleetInv


(* A request reads the counter: alone, or with all that overlap set aside. *)
LEMMA ReadKeepsFleet ==
  ASSUME TypeInv, FleetInv, NEW r \in Requests, Moves(r, "incrementing"),
         request[r].at = "counting",
         UNCHANGED counter, request'[r].count = counter[Minute(request[r].time)],
         overlapped' = IF Counting = {} THEN overlapped
                       ELSE overlapped \cup Counting \cup {r}
  PROVE  FleetInv'
<1>1. Counting' = Counting \cup {r} /\ r \notin Counting
  BY DEF Counting, Moves
<1>2. Counting # {} => Counting' \subseteq overlapped'
  BY <1>1
<1>3. ASSUME NEW m \in Minutes
      PROVE  Counted(m)' = Counted(m) /\ Extra(m)' = Extra(m)
  <2>1. \A q \in Requests :
          /\ request'[q].time = request[q].time
          /\ request'[q].at = "admitted" <=> request[q].at = "admitted"
          /\ request[q].at = "admitted" =>
               (q \in overlapped' <=> q \in overlapped)
    BY DEF Moves, Counting
  <2>2. Counted(m)' = Counted(m) /\ Shared(m)' = Shared(m)
    BY <2>1 DEF Counted, Shared
  <2> QED
    BY <2>2 DEF Extra
<1>4. \A m \in Minutes : Cardinality(Counted(m)') + Extra(m)' <= counter'[m]
  BY <1>3 DEF FleetInv
<1>5. ASSUME NEW m \in Minutes, NEW q \in Counting',
             Minute(request'[q].time) = m
      PROVE  /\ Cardinality(Counted(m)') <= request'[q].count
             /\ q \notin overlapped' =>
                  Cardinality(Counted(m)') + Extra(m)' <= request'[q].count
  <2>0. /\ Cardinality(Counted(m)) \in Nat /\ Extra(m) \in {0, 1}
        /\ counter[m] \in Nat
    BY CountedIsFinite, CountTypes
  <2>1. CASE q = r
    <3>1. request'[q].count = counter[m]
      BY <1>5, <2>1 DEF Moves
    <3> QED
      BY <1>3, <2>0, <3>1 DEF FleetInv
  <2>2. CASE q # r
    <3>1. q \in Counting /\ request'[q] = request[q]
      BY <1>1, <2>2 DEF Counting, Moves
    <3>2. q \in overlapped'
      BY <1>2, <3>1
    <3> QED
      BY <1>3, <1>5, <3>1, <3>2 DEF FleetInv
  <2> QED
    BY <2>1, <2>2
<1>6. \A q \in Counting' \ overlapped' : Counting' = {q}
  BY <1>1, <1>2
<1> QED
  BY <1>4, <1>5, <1>6 DEF FleetInv

(* A request writes the counter: what it has read, plus itself, whether it *)
(* is told so or not.                                                      *)
LEMMA IncrementKeepsFleet ==
  ASSUME TypeInv, FleetInv, NEW r \in Requests,
         NEW where \in {"admitted", "letIn"}, Moves(r, where),
         request[r].at = "incrementing", counter' = Written(r),
         UNCHANGED overlapped
  PROVE  FleetInv'
<1> DEFINE mine == Minute(request[r].time)
<1>1. /\ request[r].at = "incrementing" /\ UNCHANGED overlapped
      /\ counter' = [counter EXCEPT ![mine] = request[r].count + 1]
  BY DEF Written
<1>2. r \in Counting /\ Counting' = Counting \ {r}
  BY <1>1 DEF Counting, Moves
<1>3. mine \in Minutes /\ request[r].count \in Nat
  BY CountTypes
<1>4. /\ counter'[mine] = request[r].count + 1
      /\ \A m \in Minutes \ {mine} : counter'[m] = counter[m]
  BY <1>1, <1>3 DEF TypeInv, TypeOK
<1> HIDE DEF mine
<1>5. ASSUME NEW m \in Minutes
      PROVE  \/ Counted(m)' = Counted(m) /\ Shared(m)' = Shared(m)
             \/ r \in overlapped /\ m = mine /\ Counted(m)' = Counted(m)
             \/ /\ r \notin overlapped /\ m = mine
                /\ Counted(m)' = Counted(m) \cup {r} /\ Shared(m)' = Shared(m)
  <2>1. /\ request'[r].at = where /\ request[r].at = "incrementing"
        /\ request'[r].time = request[r].time
        /\ \A q \in Requests \ {r} : request'[q] = request[q]
    BY <1>1 DEF Moves
  <2>2. CASE where = "letIn" \/ m # mine
    BY <1>1, <2>1, <2>2 DEF Counted, Shared, mine
  <2>3. CASE r \in overlapped /\ m = mine
    BY <1>1, <2>1, <2>3 DEF Counted
  <2>4. CASE r \notin overlapped /\ m = mine /\ where = "admitted"
    BY <1>1, <2>1, <2>4 DEF Counted, Shared, mine
  <2> QED
    BY <2>2, <2>3, <2>4
<1>6. ASSUME NEW m \in Minutes
      PROVE  /\ Cardinality(Counted(m)) \in Nat
             /\ Extra(m) \in {0, 1} /\ Extra(m)' \in {0, 1}
             /\ Cardinality(Counted(m) \cup {r}) <= Cardinality(Counted(m)) + 1
             /\ Cardinality(Counted(m) \cup {r}) \in Nat
  <2>1. /\ IsFiniteSet(Counted(m)) /\ Cardinality(Counted(m)) \in Nat
        /\ Extra(m) \in {0, 1}
    BY CountedIsFinite
  <2>2. Cardinality(Counted(m) \cup {r}) =
          IF r \in Counted(m) THEN Cardinality(Counted(m))
                              ELSE Cardinality(Counted(m)) + 1
    BY <2>1, FS_AddElement
  <2>3. Extra(m)' \in {0, 1}
    BY DEF Extra
  <2> QED
    BY <2>1, <2>2, <2>3
<1>7. ASSUME NEW m \in Minutes
      PROVE  Cardinality(Counted(m)') + Extra(m)' <= counter'[m]
  <2>1. CASE m # mine
    <3>1. Counted(m)' = Counted(m) /\ Extra(m)' = Extra(m)
      BY <1>5, <2>1 DEF Extra
    <3> QED
      BY <1>4, <2>1, <3>1 DEF FleetInv
  <2>2. CASE m = mine /\ Counted(m)' = Counted(m)
    <3>1. Cardinality(Counted(m)) <= request[r].count
      BY <1>2, <2>2 DEF FleetInv, mine
    <3>2. counter'[m] = request[r].count + 1
      BY <1>4, <2>2
    <3>3. Cardinality(Counted(m)') = Cardinality(Counted(m))
      BY <2>2
    <3>4. Cardinality(Counted(m)) \in Nat /\ Extra(m)' \in {0, 1}
      BY <1>6
    <3>5. Cardinality(Counted(m)) + Extra(m)' <= request[r].count + 1
      BY <1>3, <3>1, <3>4
    <3> QED
      BY <3>2, <3>3, <3>5
  <2>3. CASE /\ r \notin overlapped /\ m = mine
             /\ Counted(m)' = Counted(m) \cup {r} /\ Shared(m)' = Shared(m)
    <3>1. Cardinality(Counted(m)) + Extra(m) <= request[r].count
      BY <1>2, <2>3 DEF FleetInv, mine
    <3>2. counter'[m] = request[r].count + 1
      BY <1>4, <2>3
    <3>3. Extra(m)' = Extra(m)
      BY <2>3 DEF Extra
    <3>4. Cardinality(Counted(m)') = Cardinality(Counted(m) \cup {r})
      BY <2>3
    <3> QED
      BY <1>3, <1>6, <3>1, <3>2, <3>3, <3>4
  <2> QED
    BY <1>5, <2>1, <2>2, <2>3
<1>8. ASSUME NEW m \in Minutes, NEW q \in Counting',
             Minute(request'[q].time) = m
      PROVE  /\ Cardinality(Counted(m)') <= request'[q].count
             /\ q \in overlapped'
  <2>1. q \in Counting /\ q # r /\ request'[q] = request[q]
    BY <1>2 DEF Counting, Moves
  <2>2. r \in overlapped /\ q \in overlapped
    BY <1>2, <2>1 DEF FleetInv
  <2>3. Counted(m)' = Counted(m)
    BY <1>5, <2>2
  <2> QED
    BY <1>1, <1>8, <2>1, <2>2, <2>3 DEF FleetInv
<1>9. \A q \in Counting' \ overlapped' : Counting' = {q}
  BY <1>1, <1>2 DEF FleetInv
<1> QED
  BY <1>7, <1>8, <1>9 DEF FleetInv

LEMMA FleetStep == TypeInv /\ FleetInv /\ [Next]_vars => FleetInv'
<1> SUFFICES ASSUME TypeInv, FleetInv, [Next]_vars PROVE FleetInv'
  OBVIOUS
<1>1. ASSUME NEW r \in Requests, Arrive(r) PROVE FleetInv'
  <2>1. PICK i \in Instances : Arrives(r, i)
    BY <1>1, ArriveStep
  <2>2. /\ UNCHANGED <<counter, overlapped>>
        /\ request'[r].at \in {"limited", "counting"} /\ request[r].at = "idle"
        /\ \A q \in Requests \ {r} : request'[q] = request[q]
    BY <2>1 DEF Arrives, Come
  <2>3. \A m \in Minutes : Counted(m)' = Counted(m) /\ Shared(m)' = Shared(m)
    BY <2>2 DEF Counted, Shared
  <2>4. Counting' = Counting /\ \A q \in Counting : request'[q] = request[q]
    BY <2>2 DEF Counting
  <2> QED
    BY <2>2, <2>3, <2>4, SameFleet
<1>2. ASSUME NEW r \in Requests, Count(r) PROVE FleetInv'
  <2>1. request[r].at = "counting"
    BY <1>2 DEF Count
  <2>2. CASE Moves(r, "over") /\ UNCHANGED <<counter, overlapped>>
    <3>1. \A m \in Minutes : Counted(m)' = Counted(m) /\ Shared(m)' = Shared(m)
      BY <2>1, <2>2 DEF Counted, Shared, Moves
    <3>2. Counting' = Counting /\ \A q \in Counting : request'[q] = request[q]
      BY <2>1, <2>2 DEF Counting, Moves
    <3> QED
      BY <2>2, <3>1, <3>2, SameFleet
  <2> QED
    BY <1>2, <2>1, <2>2, CountStep, ReadKeepsFleet
<1>3. ASSUME NEW r \in Requests, Increment(r) PROVE FleetInv'
  <2>1. Moves(r, "admitted")
    BY <1>3, AdmitStep
  <2> QED
    BY <1>3, <2>1, IncrementKeepsFleet DEF Increment
<1>4. ASSUME NEW r \in Requests, CountFails(r) PROVE FleetInv'
  <2>1. Moves(r, "letIn")
    BY <1>4, AdmitStep
  <2>2. UNCHANGED overlapped
    BY <1>4 DEF CountFails
  <2>3. CASE request[r].at = "incrementing" /\ counter' = Written(r)
    BY <2>1, <2>2, <2>3, IncrementKeepsFleet
  <2>4. CASE UNCHANGED counter
    <3>1. \A m \in Minutes : Counted(m)' = Counted(m) /\ Shared(m)' = Shared(m)
      BY <2>1, <2>2 DEF Counted, Shared, Moves
    <3>2. /\ Counting' \subseteq Counting
          /\ \A q \in Counting' : request'[q] = request[q]
      BY <2>1 DEF Counting, Moves
    <3> QED
      BY <2>2, <2>4, <3>1, <3>2, SameFleet
  <2> QED
    BY <1>4, <2>3, <2>4 DEF CountFails
<1>5. CASE Tick \/ UNCHANGED vars
  <2>1. UNCHANGED <<counter, overlapped, request>>
    BY <1>5 DEF Tick, vars
  <2>2. /\ Counting' = Counting
        /\ \A m \in Minutes :
             Counted(m)' = Counted(m) /\ Shared(m)' = Shared(m)
    BY <2>1 DEF Counting, Counted, Shared
  <2> QED
    BY <2>1, <2>2, SameFleet
<1>6. ASSUME NEW i \in Instances, Restart(i) PROVE FleetInv'
  <2>1. Restarts(i)
    BY <1>6, RestartStep
  <2>2. /\ UNCHANGED <<counter, overlapped>>
        /\ \A r \in Requests :
             /\ request'[r].time = request[r].time
             /\ request'[r].count = request[r].count
             /\ \/ request'[r].at = request[r].at
                \/ /\ request'[r].at = "died"
                   /\ request[r].at \in {"counting", "incrementing"}
    BY <2>1 DEF Restarts
  <2>3. \A m \in Minutes : Counted(m)' = Counted(m) /\ Shared(m)' = Shared(m)
    BY <2>2 DEF Counted, Shared
  <2>4. /\ Counting' \subseteq Counting
        /\ \A q \in Counting' : /\ request'[q].time = request[q].time
                                /\ request'[q].count = request[q].count
    BY <2>2 DEF Counting
  <2> QED
    BY <2>2, <2>3, <2>4, SameFleet
<1> QED
  BY <1>1, <1>2, <1>3, <1>4, <1>5, <1>6 DEF Next, Finished

(* The invariant of the counters holds in every reachable state.           *)
THEOREM FleetInvariant == Spec => [](TypeInv /\ FleetInv)
BY TypeInit, TypeStep, FleetInit, FleetStep, PTL DEF Spec

(* Over all instances a minute admits no more requests than the limit,     *)
(* those that were counted alone and one for all that overlapped.          *)
THEOREM FleetLimitHolds == Spec => []FleetBound
<1>1. TypeInv /\ FleetInv => FleetBound
  <2> SUFFICES ASSUME TypeInv, FleetInv, NEW m \in Minutes
               PROVE  Used(m) <= MaxRequests
    BY DEF FleetBound
  <2>1. Used(m) = Cardinality(Counted(m)) + Extra(m)
    <3>1. /\ Admitted(m) \ overlapped = Counted(m)
          /\ Admitted(m) \cap overlapped = Shared(m)
      BY DEF Admitted, Counted, Shared
    <3> QED
      BY <3>1 DEF Used, Extra
  <2>2. /\ Cardinality(Counted(m)) \in Nat /\ Extra(m) \in {0, 1}
        /\ Cardinality(Counted(m)) + Extra(m) <= counter[m]
    BY CountedIsFinite DEF FleetInv
  <2> QED
    BY <2>1, <2>2, CountTypes
<1> QED
  BY FleetInvariant, <1>1, PTL
=============================================================================
