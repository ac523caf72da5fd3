---------------------------- MODULE RateLimiter ----------------------------
(***************************************************************************)
(* The rate limits every request meets on its way in.                      *)
(*                                                                         *)
(*   gateway/rate-limit.ts     hits in a sliding window, per instance, and *)
(*                             a counter per minute, in the store          *)
(*   gateway/proxy-server.ts   the first, then the second                  *)
(*                                                                         *)
(* One client is followed, since the limits are kept per client, and its   *)
(* requests are not exempt from them.  Between the read of the counter and *)
(* its write any request to any instance may come in between.              *)
(***************************************************************************)
EXTENDS Integers, FiniteSets

CONSTANTS
  Instances,    \* proxy processes
  Requests,     \* of the client
  MaxRequests,  \* RATE_LIMIT_MAX (60)
  Window,       \* windowMs, and the minute of the counter, in ticks
  Second,       \* ticks of a second
  Horizon,      \* bound: the clock stops here
  MaxRestarts,  \* bound: how often an instance restarts
  None

ASSUME LimiterAssumption ==
  /\ {MaxRequests, Window, Second} \subseteq Nat \ {0}
  /\ {Horizon, MaxRestarts} \subseteq Nat
  /\ None \notin Instances

VARIABLES
  now,         \* the clock
  hits,        \* SlidingWindowRateLimiter.hits of the client, per instance:
               \* the requests whose timestamps the array holds
  counter,     \* gateway:ratelimit:<client>:<minute>
  request,     \* where each request stands
  restarts,
  (* observations *)
  overlapped   \* requests whose counting overlapped another's

vars == <<now, hits, counter, request, restarts, overlapped>>

Minute(t) == t \div Window
Minutes == 0..Minute(Horizon)

(* A request: where it stands, the instance (None once that has died), the *)
(* time of its check, when it may come again, and the counter it has read  *)
(* while it counts.                                                        *)
Records ==
  [at: {"idle", "counting", "incrementing", "admitted", "letIn", "limited",
        "over", "died"},
   on: Instances \cup {None}, time: 0..Horizon,
   retryAt: Nat, count: 0..MaxRequests]

----------------------------------------------------------------------------

(* Variant: a hit is kept for a tick less than the window.                 *)
InWindow_Short(kept, t) == {r \in kept : request[r].time > t - Window + 1}

InWindow(kept, t) == {r \in kept : request[r].time > t - Window}

(* timestamps[0]: they are in the order in which they came.                *)
Oldest(kept) ==
  CHOOSE t \in {request[r].time : r \in kept} :
    \A r \in kept : t <= request[r].time

(* Variant: seconds are rounded down.                                      *)
RetryAfter_Floor(oldest, t) ==
  LET seconds == (oldest + Window - t) \div Second IN
  IF seconds < 1 THEN 1 ELSE seconds

(* Retry-After: the seconds until the oldest hit leaves, rounded up.       *)
RetryAfter(oldest, t) ==
  LET seconds == (oldest + Window - t + Second - 1) \div Second IN
  IF seconds < 1 THEN 1 ELSE seconds

(* RATE_LIMIT.check: 429 with Retry-After, or on to the store.             *)
Arrive(r) ==
  \E i \in Instances :
    LET still == InWindow(hits[i], now)
        full == Cardinality(still) >= MaxRequests IN
    /\ request[r].at = "idle"
    /\ hits' = IF full THEN hits ELSE [hits EXCEPT ![i] = still \cup {r}]
    /\ request' = [request EXCEPT ![r] =
         [at |-> IF full THEN "limited" ELSE "counting",
          on |-> i, time |-> now, count |-> 0,
          retryAt |-> IF full THEN now + Second * RetryAfter(Oldest(still), now)
                      ELSE now]]
    /\ UNCHANGED <<now, counter, restarts, overlapped>>

Counting == {r \in Requests : request[r].at = "incrementing"}

(* kvRateLimitExceeded reads the minute's counter: 429 for a minute, or   *)
(* go on ...                                                               *)
Count(r) ==
  LET count == counter[Minute(request[r].time)] IN
  /\ request[r].at = "counting"
  /\ IF count >= MaxRequests
     THEN /\ request' = [request EXCEPT ![r] = [@ EXCEPT !.at = "over",
                                                         !.retryAt = now + Window]]
          /\ UNCHANGED overlapped
     ELSE /\ request' = [request EXCEPT ![r] = [@ EXCEPT !.at = "incrementing",
                                                         !.count = count]]
          /\ overlapped' = IF Counting = {} THEN overlapped
                           ELSE overlapped \cup Counting \cup {r}
  /\ UNCHANGED <<now, hits, counter, restarts>>

(* Variant: the counter starts again at one.                               *)
Increment_Reset(r) ==
  /\ request[r].at = "incrementing"
  /\ counter' = [counter EXCEPT ![Minute(request[r].time)] = 1]
  /\ request' = [request EXCEPT ![r] = [@ EXCEPT !.at = "admitted", !.count = 0]]
  /\ UNCHANGED <<now, hits, restarts, overlapped>>

Written(r) ==
  [counter EXCEPT ![Minute(request[r].time)] = request[r].count + 1]

(* ... and writes it back.                                                 *)
Increment(r) ==
  /\ request[r].at = "incrementing"
  /\ counter' = Written(r)
  /\ request' = [request EXCEPT ![r] = [@ EXCEPT !.at = "admitted", !.count = 0]]
  /\ UNCHANGED <<now, hits, restarts, overlapped>>

(* The store fails, or only its answer to the write is lost: the request   *)
(* is let in.                                                              *)
CountFails(r) ==
  /\ request[r].at \in {"counting", "incrementing"}
  /\ \/ UNCHANGED counter
     \/ request[r].at = "incrementing" /\ counter' = Written(r)
  /\ request' = [request EXCEPT ![r] = [@ EXCEPT !.at = "letIn", !.count = 0]]
  /\ UNCHANGED <<now, hits, restarts, overlapped>>

Tick ==
  /\ now < Horizon
  /\ now' = now + 1
  /\ UNCHANGED <<hits, counter, request, restarts, overlapped>>

(* An instance dies with its requests and its hits, and starts again.      *)
Restart(i) ==
  /\ restarts < MaxRestarts
  /\ restarts' = restarts + 1
  /\ hits' = [hits EXCEPT ![i] = {}]
  /\ request' = [r \in Requests |->
       IF request[r].on # i THEN request[r]
       ELSE [request[r] EXCEPT
               !.on = None,
               !.at = IF @ \in {"counting", "incrementing"} THEN "died" ELSE @]]
  /\ UNCHANGED <<now, counter, overlapped>>

----------------------------------------------------------------------------

Init ==
  /\ now = 0 /\ restarts = 0
  /\ hits = [i \in Instances |-> {}]
  /\ counter = [m \in Minutes |-> 0]
  /\ request = [r \in Requests |-> [at |-> "idle", on |-> None, time |-> 0,
                                    retryAt |-> 0, count |-> 0]]
  /\ overlapped = {}

(* The clock stands at the bound and nothing is under way.                 *)
Finished ==
  /\ now = Horizon
  /\ \A r \in Requests : request[r].at \notin {"idle", "counting", "incrementing"}
  /\ UNCHANGED vars

Next ==
  \/ \E r \in Requests : Arrive(r) \/ Count(r) \/ Increment(r) \/ CountFails(r)
  \/ Tick
  \/ \E i \in Instances : Restart(i)
  \/ Finished

Spec == Init /\ [][Next]_vars

----------------------------------------------------------------------------
(* Invariants                                                              *)

(* Every variable has its type; the counter stops at the limit.            *)
TypeOK ==
  /\ now \in 0..Horizon
  /\ hits \in [Instances -> SUBSET Requests]
  /\ counter \in [Minutes -> 0..MaxRequests]
  /\ request \in [Requests -> Records]
  /\ restarts \in 0..MaxRestarts
  /\ overlapped \subseteq Requests

(* Requests that instance i has let past its window since it started.      *)
Passed(i) ==
  {r \in Requests : request[r].on = i /\ request[r].at \notin {"idle", "limited"}}

(* In any span as long as the window an instance lets MaxRequests through. *)
WindowBound ==
  \A i \in Instances, t \in 0..now :
    Cardinality({r \in Passed(i) : request[r].time \in (t - Window + 1)..t})
      <= MaxRequests

(* Retry-After is enough: once it is over, one hit at least of those that  *)
(* filled the window has left it, so that only requests which came since   *)
(* can have the client refused again.                                      *)
RetrySuffices ==
  \A r \in Requests :
    LET refused == request[r]
        filling == {q \in Passed(refused.on) :
                      /\ request[q].time <= refused.time
                      /\ request[q].time > now - Window} IN
    refused.at = "limited" /\ refused.on # None /\ now >= refused.retryAt
      => Cardinality(filling) < MaxRequests

(* The requests of a minute that the counter let in.                       *)
Admitted(m) ==
  {r \in Requests : request[r].at = "admitted" /\ Minute(request[r].time) = m}

(* How much of a minute's limit its requests have used at least: each one  *)
(* whose counting nothing overlapped, and one for those that overlapped.   *)
Used(m) ==
  Cardinality(Admitted(m) \ overlapped)
    + (IF Admitted(m) \cap overlapped = {} THEN 0 ELSE 1)

(* Over all instances a minute admits MaxRequests, where only requests     *)
(* that overlapped are admitted on one another's account: the increments   *)
(* they lose are never those of a request that was counted alone, be it    *)
(* before, between or after them.                                          *)
FleetBound == \A m \in Minutes : Used(m) <= MaxRequests
=============================================================================
