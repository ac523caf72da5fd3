------------------------ MODULE FlightBookingsProofs ------------------------
(***************************************************************************)
(* Theorems about the bookings of the flight server, for any number of     *)
(* calls, instances, flights, seats and restarts, with or without the      *)
(* key-value store.                                                        *)
(***************************************************************************)
EXTENDS FlightBookings, FiniteSetTheorems, WellFoundedInduction, TLAPS

----------------------------------------------------------------------------
(* The invariant                                                           *)

(* A creation writes the booking named after it; a change is of a booking  *)
(* whose creation has succeeded.                                           *)
CallLocals(c) ==
  /\ call[c].at = "changing" =>
       /\ call[c].on \in Instances
       /\ call[c].record \in Records
  /\ call[c].at \in {"changing", "success"} /\ c \in Creates =>
       call[c].kind = "create" /\ call[c].booking = c
  /\ call[c].at \in {"changing", "success"} /\ c \in Changes =>
       /\ call[c].kind \in Kinds
       /\ call[c].booking \in Bookings
       /\ call[call[c].booking].at = "success"

TypeInv ==
  /\ TypeOK
  /\ \A c \in Calls : CallLocals(c)

(* Where creations keep out of each other's way there is one at a time     *)
(* between the check and the write, and its seat is still there.           *)
SeatKept(i, f) ==
  <<i, f>> \notin crowded =>
    /\ seats[i][f] >= 0
    /\ \A c \in Creating(i, f) : seats[i][f] > 0
    /\ \A c, d \in Creating(i, f) : c = d

(* Two changes of a booking under way together are overlapping.            *)
Overlap ==
  \A c, d \in Changes :
    /\ call[c].at = "changing" /\ call[d].at = "changing"
    /\ call[c].booking = call[d].booking /\ c # d
    => call[c].booking \in overlapped

(* What Stored says of the call c of an operation and a record.            *)
Does(kind, c, r) ==
  CASE kind = "create" -> TRUE
    [] kind = "cancel" -> r.status = "cancelled"
    [] kind = "modify" -> r.renamed
    [] kind = "check_in" -> r.checked_in /\ r.seat # "none"
    [] kind = "select_seats" -> r.seat = "selected"
    [] kind = "add_baggage" -> c \in r.baggage

(* The copy that a change is about to write has in it what the change does *)
(* and all that was reported of the booking before.                        *)
CopyIsCurrent(c) ==
  call[c].at = "changing" =>
    /\ Does(call[c].kind, c, call[c].record)
    /\ call[c].booking \notin overlapped =>
         \A d \in Calls :
           call[d].at = "success" /\ call[d].booking = call[c].booking =>
             Does(call[d].kind, d, call[c].record)

StoreIsCurrent(c) ==
  call[c].at = "success" =>
    \/ store[call[c].booking] = None
    \/ call[c].booking \in overlapped
    \/ Does(call[c].kind, c, store[call[c].booking])

SeatsInv == \A i \in Instances, f \in Flights : SeatKept(i, f)

CopiesInv ==
  /\ Overlap
  /\ \A c \in Calls : CopyIsCurrent(c) /\ StoreIsCurrent(c)

----------------------------------------------------------------------------
(* How the operations change a call and a copy                             *)

CallRecords ==
  [at: {"idle", "changing", "success", "failure"},
   kind: Kinds \cup {"create", "none"}, on: Instances \cup {None},
   booking: Bookings \cup {None}, record: Records \cup {None}]

(* Only one call has changed, and this is where it stands.                 *)
Went(c, at) ==
  /\ call' \in [Calls -> CallRecords]
  /\ \A d \in Calls \ {c} : call'[d] = call[d]
  /\ call'[c].at = at

(* A call that fails forgets what it was about.                            *)
LEMMA FailLemma ==
  ASSUME call \in [Calls -> CallRecords], NEW c \in Calls, Fail(c)
  PROVE  Went(c, "failure")
<1> DEFINE new == [NoCall EXCEPT !.at = "failure"]
<1>1. new \in CallRecords /\ new.at = "failure"
  BY DEF CallRecords, NoCall
<1>2. call' = [call EXCEPT ![c] = new]
  BY DEF Fail
<1> HIDE DEF new
<1> QED
  BY <1>1, <1>2 DEF Went

(* One that succeeds is remembered with its operation and its booking.     *)
LEMMA SucceedLemma ==
  ASSUME call \in [Calls -> CallRecords], NEW c \in Calls, Succeed(c)
  PROVE  /\ Went(c, "success")
         /\ call'[c].kind = call[c].kind
         /\ call'[c].booking = call[c].booking
<1> DEFINE new == [call[c] EXCEPT !.at = "success", !.on = None,
                                  !.record = None]
<1>0. call[c] \in CallRecords
  OBVIOUS
<1>1. /\ new \in CallRecords /\ new.at = "success"
      /\ new.kind = call[c].kind /\ new.booking = call[c].booking
  BY <1>0 DEF CallRecords
<1>2. call' = [call EXCEPT ![c] = new]
  BY DEF Succeed
<1> HIDE DEF new
<1> QED
  BY <1>1, <1>2 DEF Went

(* One that begins to change a booking holds its copy of the record.       *)
LEMMA HoldLemma ==
  ASSUME call \in [Calls -> CallRecords], NEW c \in Calls,
         NEW kind \in Kinds \cup {"create"}, NEW i \in Instances,
         NEW b \in Bookings, NEW r \in Records,
         call' = [call EXCEPT ![c] = [at |-> "changing", kind |-> kind,
                    on |-> i, booking |-> b, record |-> r]]
  PROVE  /\ Went(c, "changing")
         /\ call'[c].kind = kind /\ call'[c].on = i
         /\ call'[c].booking = b /\ call'[c].record = r
<1> DEFINE new == [at |-> "changing", kind |-> kind, on |-> i, booking |-> b,
                   record |-> r]
<1>1. /\ new \in CallRecords /\ new.at = "changing" /\ new.kind = kind
      /\ new.on = i /\ new.booking = b /\ new.record = r
  BY DEF CallRecords
<1>2. call' = [call EXCEPT ![c] = new]
  OBVIOUS
<1> HIDE DEF new
<1> QED
  BY <1>1, <1>2 DEF Went

(* What an operation does to its copy: it does what it is for, and undoes  *)
(* nothing, save that a seat once selected may be selected again.          *)
LEMMA ChangedLemma ==
  ASSUME NEW c \in Changes, NEW kind \in Kinds, NEW r \in Records,
         r.status # "cancelled"
  PROVE  LET new == Changed(c, kind, r) IN
         /\ new \in Records
         /\ new.flight = r.flight
         /\ new.status = IF kind = "cancel" THEN "cancelled" ELSE r.status
         /\ r.renamed \/ kind = "modify" => new.renamed
         /\ r.checked_in \/ kind = "check_in" => new.checked_in
         /\ r.seat # "none" \/ kind = "check_in" => new.seat # "none"
         /\ r.seat = "selected" \/ kind = "select_seats" =>
              new.seat = "selected"
         /\ r.baggage \subseteq new.baggage
         /\ kind = "add_baggage" => c \in new.baggage
<1>1. CASE kind = "cancel"
  BY <1>1 DEF Changed, Records
<1>2. CASE kind = "modify"
  BY <1>2 DEF Changed, Records
<1>3. CASE kind = "check_in"
  BY <1>3 DEF Changed, Records
<1>4. CASE kind = "select_seats"
  BY <1>4 DEF Changed, Records
<1>5. CASE kind = "add_baggage"
  BY <1>5 DEF Changed, Records
<1> QED
  BY <1>1, <1>2, <1>3, <1>4, <1>5 DEF Kinds

(* What a restart of instance i does to the calls.                         *)
LEMMA RestartedCalls ==
  ASSUME call \in [Calls -> CallRecords], NEW i \in Instances, Restart(i)
  PROVE  /\ call' \in [Calls -> CallRecords]
         /\ \A c \in Calls :
              \/ /\ call'[c] = call[c]
                 /\ ~(call[c].at = "changing" /\ call[c].on = i)
              \/ /\ call'[c].at = "failure"
                 /\ call[c].at = "changing" /\ call[c].on = i
<1> DEFINE lost == [NoCall EXCEPT !.at = "failure"]
<1>1. lost \in CallRecords /\ lost.at = "failure"
  BY DEF CallRecords, NoCall
<1>2. call' = [c \in Calls |-> IF call[c].at = "changing" /\ call[c].on = i
                              THEN lost ELSE call[c]]
  BY Zenon DEF Restart
<1> HIDE DEF lost
<1> QED
  BY <1>1, <1>2

(* The four ways a call can go on; c is the call that does.                *)

Begun(c, kind, i, b, r) ==
  /\ call[c].at = "idle" /\ Serves(i)
  /\ Went(c, "changing")
  /\ call'[c].kind = kind /\ call'[c].on = i
  /\ call'[c].booking = b /\ call'[c].record = r
  /\ UNCHANGED <<kv, store, restarts, upset>>

(* create_booking takes up a booking, or fails.                            *)
LEMMA CreateCases ==
  ASSUME TypeInv, NEW c \in Creates, NEW i \in Instances, Create(c, i)
  PROVE  /\ UNCHANGED <<kv, store, seats, restarts, overlapped, upset>>
         /\ call[c].at = "idle"
         /\ \/ Went(c, "failure") /\ UNCHANGED crowded
            \/ \E f \in Flights, r \in Records :
                 /\ Begun(c, "create", i, c, r)
                 /\ r.flight = f /\ r.status = "confirmed" /\ seats[i][f] > 0
                 /\ crowded' = IF Creating(i, f) = {} THEN crowded
                               ELSE crowded \cup {<<i, f>>}
<1>1. call \in [Calls -> CallRecords] /\ c \in Calls /\ c \in Bookings
  BY DEF TypeInv, TypeOK, CallRecords, Calls, Bookings
<1>2. PICK f \in Flights \cup {None} :
        IF f \in Flights /\ HasSeat(i, f)
        THEN /\ call' = [call EXCEPT ![c] =
                  [at |-> "changing", kind |-> "create", on |-> i, booking |-> c,
                   record |-> [flight |-> f, status |-> "confirmed",
                               checked_in |-> FALSE, seat |-> "none",
                               renamed |-> FALSE, baggage |-> {}]]]
             /\ crowded' = IF Creating(i, f) = {} THEN crowded
                           ELSE crowded \cup {<<i, f>>}
        ELSE Fail(c) /\ UNCHANGED crowded
  BY DEF Create
<1>3. CASE f \in Flights /\ HasSeat(i, f)
  <2> DEFINE r == [flight |-> f, status |-> "confirmed", checked_in |-> FALSE,
                   seat |-> "none", renamed |-> FALSE, baggage |-> {}]
  <2>1. r \in Records /\ r.flight = f /\ r.status = "confirmed"
    BY <1>3 DEF Records
  <2>2. call' = [call EXCEPT ![c] = [at |-> "changing", kind |-> "create",
                                     on |-> i, booking |-> c, record |-> r]]
    BY <1>2, <1>3
  <2> HIDE DEF r
  <2>3. /\ Went(c, "changing")
        /\ call'[c].kind = "create" /\ call'[c].on = i
        /\ call'[c].booking = c /\ call'[c].record = r
    BY <1>1, <2>1, <2>2, HoldLemma
  <2>4. Begun(c, "create", i, c, r)
    BY <2>3 DEF Begun, Create
  <2> QED
    BY <1>2, <1>3, <2>1, <2>4 DEF Create, HasSeat
<1>4. CASE ~(f \in Flights /\ HasSeat(i, f))
  BY <1>1, <1>2, <1>4, FailLemma DEF Create
<1> QED
  BY <1>3, <1>4

(* An operation on a booking takes up a copy of it, or fails.              *)
LEMMA RequireCases ==
  ASSUME TypeInv, NEW c \in Changes, NEW i \in Instances, Require(c, i)
  PROVE  /\ UNCHANGED <<kv, store, restarts, crowded, upset>>
         /\ call[c].at = "idle"
         /\ \/ Went(c, "failure") /\ UNCHANGED <<seats, overlapped>>
            \/ \E b \in Bookings, kind \in Kinds :
                 /\ call[b].at = "success"
                 /\ store[b] # None
                 /\ store[b] \in Records /\ store[b].status # "cancelled"
                 /\ Begun(c, kind, i, b, Changed(c, kind, store[b]))
                 /\ seats' = IF kind = "cancel"
                             THEN [seats EXCEPT ![i][store[b].flight] = @ + 1]
                             ELSE seats
                 /\ overlapped' = IF Changing(b) = {} THEN overlapped
                                  ELSE overlapped \cup {b}
<1>1. call \in [Calls -> CallRecords] /\ c \in Calls
  BY DEF TypeInv, TypeOK, CallRecords, Calls
<1>2. PICK b \in Bookings, kind \in Kinds :
        /\ call[b].at = "success"
        /\ \/ Fail(c) /\ UNCHANGED <<seats, overlapped>>
           \/ /\ ~Refuses(kind, store[b])
              /\ call' = [call EXCEPT ![c] =
                     [at |-> "changing", kind |-> kind, on |-> i, booking |-> b,
                      record |-> Changed(c, kind, store[b])]]
              /\ seats' = IF kind = "cancel"
                          THEN [seats EXCEPT ![i][store[b].flight] = @ + 1]
                          ELSE seats
              /\ overlapped' = IF Changing(b) = {} THEN overlapped
                               ELSE overlapped \cup {b}
  BY DEF Require
<1>3. CASE Fail(c) /\ UNCHANGED <<seats, overlapped>>
  BY <1>1, <1>2, <1>3, FailLemma DEF Require
<1>4. CASE /\ ~Refuses(kind, store[b])
           /\ call' = [call EXCEPT ![c] =
                  [at |-> "changing", kind |-> kind, on |-> i, booking |-> b,
                   record |-> Changed(c, kind, store[b])]]
           /\ seats' = IF kind = "cancel"
                       THEN [seats EXCEPT ![i][store[b].flight] = @ + 1]
                       ELSE seats
           /\ overlapped' = IF Changing(b) = {} THEN overlapped
                            ELSE overlapped \cup {b}
  <2>1. /\ store[b] # None
        /\ store[b] \in Records /\ store[b].status # "cancelled"
    BY <1>4 DEF Refuses, TypeInv, TypeOK
  <2>2. Changed(c, kind, store[b]) \in Records
    BY <2>1, ChangedLemma
  <2>3. call' = [call EXCEPT ![c] =
                  [at |-> "changing", kind |-> kind, on |-> i, booking |-> b,
                   record |-> Changed(c, kind, store[b])]]
    BY <1>2, <1>4
  <2>4. /\ Went(c, "changing")
        /\ call'[c].kind = kind /\ call'[c].on = i /\ call'[c].booking = b
        /\ call'[c].record = Changed(c, kind, store[b])
    BY <1>1, <2>2, <2>3, HoldLemma
  <2>5. Begun(c, kind, i, b, Changed(c, kind, store[b]))
    BY <2>4 DEF Begun, Require
  <2> QED
    BY <1>2, <1>4, <2>1, <2>5 DEF Require
<1> QED
  BY <1>2, <1>3, <1>4

----------------------------------------------------------------------------
(* Types                                                                   *)

OthersTyped ==
  /\ kv \in BOOLEAN
  /\ store \in [Bookings -> Records \cup {None}]
  /\ seats \in [Instances -> [Flights -> Int]]
  /\ restarts \in 0..MaxRestarts
  /\ overlapped \subseteq Bookings
  /\ crowded \subseteq Instances \X Flights
  /\ upset \in BOOLEAN

(* The types are those of the calls and those of everything else.          *)
LEMMA TypeOKSplit ==
  TypeOK <=> OthersTyped /\ call \in [Calls -> CallRecords]
BY DEF TypeOK, OthersTyped, CallRecords

(* What a call that has not succeeded does leaves the others as they were. *)
LEMMA LocalsKept ==
  ASSUME TypeInv, NEW c \in Calls, call[c].at # "success",
         Went(c, "changing") \/ Went(c, "success") \/ Went(c, "failure"),
         CallLocals(c)'
  PROVE  \A d \in Calls : CallLocals(d)'
<1>1. /\ \A d \in Calls \ {c} : call'[d] = call[d]
      /\ \A d \in Calls : CallLocals(d)
  BY DEF Went, TypeInv
<1>2. Bookings \subseteq Calls
  BY DEF Bookings, Calls
<1>3. ASSUME NEW d \in Calls \ {c}
      PROVE  CallLocals(d)'
  <2>1. call'[d] = call[d] /\ CallLocals(d)
    BY <1>1
  <2>2. \A b \in Bookings : call[b].at = "success" => call'[b] = call[b]
    BY <1>1, <1>2
  <2> QED
    BY <2>1, <2>2 DEF CallLocals
<1> QED
  BY <1>3

(* The initial state satisfies the type invariant.                         *)
LEMMA TypeInit == Init => TypeInv
<1> SUFFICES ASSUME Init PROVE TypeInv
  OBVIOUS
<1>1. NoCall \in CallRecords /\ NoCall.at = "idle"
  BY DEF NoCall, CallRecords
<1>2. call \in [Calls -> CallRecords] /\ \A c \in Calls : call[c].at = "idle"
  BY <1>1 DEF Init
<1>3. seats \in [Instances -> [Flights -> Int]]
  BY BookingsAssumption DEF Init
<1>4. restarts \in 0..MaxRestarts
  BY BookingsAssumption DEF Init
<1> QED
  BY <1>2, <1>3, <1>4 DEF Init, TypeInv, TypeOK, CallLocals, CallRecords

(* Every step preserves it.                                                *)
LEMMA TypeStep == TypeInv /\ [Next]_vars => TypeInv'
<1> SUFFICES ASSUME TypeInv, [Next]_vars PROVE TypeInv'
  OBVIOUS
<1>0. /\ call \in [Calls -> CallRecords] /\ OthersTyped
      /\ \A c \in Calls : CallLocals(c)
  BY TypeOKSplit DEF TypeInv
<1>1. ASSUME call' \in [Calls -> CallRecords], OthersTyped',
             \A c \in Calls : CallLocals(c)'
      PROVE  TypeInv'
  BY <1>1 DEF TypeInv, TypeOK, OthersTyped, CallRecords
<1>2. ASSUME NEW c \in Calls, Went(c, "failure"), call[c].at # "success",
             OthersTyped'
      PROVE  TypeInv'
  <2>1. call' \in [Calls -> CallRecords] /\ CallLocals(c)'
    BY <1>2 DEF Went, CallLocals
  <2> QED
    BY <1>1, <1>2, <2>1, LocalsKept
<1>3. Creates \subseteq Calls /\ Changes \subseteq Calls /\ Bookings = Creates
      /\ Creates \cap Changes = {}
  BY BookingsAssumption DEF Calls, Bookings
<1>4. ASSUME NEW c \in Calls, NEW i \in Instances, NEW b \in Bookings,
             NEW kind \in Kinds \cup {"create"}, NEW r \in Records,
             Begun(c, kind, i, b, r), OthersTyped',
             c \in Creates => kind = "create" /\ b = c,
             c \in Changes => kind \in Kinds /\ call[b].at = "success"
      PROVE  TypeInv'
  <2>1. call' \in [Calls -> CallRecords] /\ call[c].at # "success"
        /\ Went(c, "changing")
    BY <1>4 DEF Begun, Went
  <2>2. CallLocals(c)'
    <3>1. c \in Changes => call'[b] = call[b]
      BY <1>3, <1>4, <2>1 DEF Went
    <3> QED
      BY <1>3, <1>4, <3>1 DEF CallLocals, Begun, Went
  <2> QED
    BY <1>1, <1>4, <2>1, <2>2, LocalsKept
<1>5. ASSUME NEW c \in Creates, NEW i \in Instances, Create(c, i)
      PROVE  TypeInv'
  <2>1. OthersTyped'
    <3>1. UNCHANGED <<kv, store, seats, restarts, overlapped, upset>>
      BY <1>5, CreateCases
    <3>2. crowded' \subseteq Instances \X Flights
      <4>1. \/ UNCHANGED crowded
            \/ \E f \in Flights : crowded' \subseteq crowded \cup {<<i, f>>}
        BY <1>5, CreateCases
      <4> QED
        BY <1>0, <4>1 DEF OthersTyped
    <3> QED
      BY <1>0, <3>1, <3>2 DEF OthersTyped
  <2>2. CASE Went(c, "failure")
    BY <1>2, <1>3, <1>5, <2>1, <2>2, CreateCases
  <2>3. CASE \E r \in Records : Begun(c, "create", i, c, r)
    <3>1. PICK r \in Records : Begun(c, "create", i, c, r)
      BY <2>3
    <3> QED
      BY <1>3, <1>4, <2>1, <3>1
  <2> QED
    BY <1>5, <2>2, <2>3, CreateCases
<1>6. ASSUME NEW c \in Changes, NEW i \in Instances, Require(c, i)
      PROVE  TypeInv'
  <2>1. CASE Went(c, "failure") /\ UNCHANGED <<seats, overlapped>>
    <3>1. OthersTyped' /\ call[c].at # "success"
      BY <1>0, <1>6, <2>1, RequireCases DEF OthersTyped
    <3> QED
      BY <1>2, <1>3, <2>1, <3>1
  <2>2. CASE ~(Went(c, "failure") /\ UNCHANGED <<seats, overlapped>>)
    <3>1. PICK b \in Bookings, kind \in Kinds :
            /\ call[b].at = "success"
            /\ store[b] \in Records /\ store[b].status # "cancelled"
            /\ Begun(c, kind, i, b, Changed(c, kind, store[b]))
            /\ seats' = IF kind = "cancel"
                        THEN [seats EXCEPT ![i][store[b].flight] = @ + 1]
                        ELSE seats
            /\ overlapped' = IF Changing(b) = {} THEN overlapped
                             ELSE overlapped \cup {b}
      BY <1>6, <2>2, RequireCases
    <3>2. Changed(c, kind, store[b]) \in Records
      BY <3>1, ChangedLemma
    <3>3. seats' \in [Instances -> [Flights -> Int]]
      <4>1. store[b].flight \in Flights
        BY <3>1 DEF Records
      <4> QED
        BY <1>0, <3>1, <4>1 DEF OthersTyped
    <3>4. OthersTyped'
      BY <1>0, <1>6, <3>1, <3>3, RequireCases DEF OthersTyped
    <3> QED
      BY <1>3, <1>4, <3>1, <3>2, <3>4
  <2> QED
    BY <2>1, <2>2
<1>7. ASSUME NEW c \in Changes, GetFails(c)
      PROVE  TypeInv'
  <2>1. Went(c, "failure") /\ call[c].at # "success"
    BY <1>0, <1>3, <1>7, FailLemma DEF GetFails
  <2>2. OthersTyped'
    BY <1>0, <1>7 DEF GetFails, OthersTyped
  <2> QED
    BY <1>2, <1>3, <2>1, <2>2
<1>8. ASSUME NEW c \in Calls, call[c].at = "changing"
      PROVE  /\ call[c].on \in Instances
             /\ call[c].record \in Records /\ call[c].booking \in Bookings
  BY <1>0, <1>3, <1>8 DEF CallLocals, Calls
<1>9. ASSUME NEW c \in Calls, Save(c)
      PROVE  TypeInv'
  <2>1. /\ Went(c, "success") /\ call[c].at = "changing"
        /\ call'[c].kind = call[c].kind /\ call'[c].booking = call[c].booking
    BY <1>0, <1>9, SucceedLemma DEF Save
  <2>2. seats' \in [Instances -> [Flights -> Int]]
    <3>1. call[c].record.flight \in Flights
      BY <1>8, <2>1 DEF Records
    <3> QED
      BY <1>0, <1>8, <1>9, <2>1, <3>1 DEF Save, OthersTyped
  <2>3. store' \in [Bookings -> Records \cup {None}]
    BY <1>0, <1>8, <1>9, <2>1 DEF Save, OthersTyped
  <2>4. OthersTyped'
    BY <1>0, <1>9, <2>2, <2>3 DEF Save, OthersTyped
  <2>5. CallLocals(c)'
    <3>1. \A b \in Bookings : call[b].at = "success" => call'[b] = call[b]
      BY <1>3, <2>1 DEF Went
    <3> QED
      BY <1>0, <2>1, <3>1 DEF CallLocals, Went
  <2> QED
    BY <1>1, <2>1, <2>4, <2>5, LocalsKept DEF Went
<1>10. ASSUME NEW c \in Calls, SaveFails(c)
      PROVE  TypeInv'
  <2>1. Went(c, "failure") /\ call[c].at = "changing"
    BY <1>0, <1>10, FailLemma DEF SaveFails
  <2>2. store' \in [Bookings -> Records \cup {None}]
    BY <1>0, <1>8, <1>10, <2>1 DEF SaveFails, OthersTyped
  <2>3. OthersTyped'
    BY <1>0, <1>10, <2>2 DEF SaveFails, OthersTyped
  <2> QED
    BY <1>2, <2>1, <2>3
<1>11. ASSUME NEW b \in Bookings, Expire(b)
      PROVE  TypeInv'
  <2>1. OthersTyped' /\ call' = call
    BY <1>0, <1>11 DEF Expire, OthersTyped
  <2> QED
    BY <1>0, <1>1, <2>1 DEF CallLocals
<1>12. ASSUME NEW i \in Instances, Restart(i)
      PROVE  TypeInv'
  <2>1. /\ call' \in [Calls -> CallRecords]
        /\ \A c \in Calls :
             \/ call'[c] = call[c]
             \/ call'[c].at = "failure" /\ call[c].at = "changing"
    BY <1>0, <1>12, RestartedCalls
  <2>2. /\ seats' = [seats EXCEPT ![i] = Capacity]
        /\ store' \in {store, [b \in Bookings |-> None]}
        /\ restarts < MaxRestarts /\ restarts' = restarts + 1
        /\ upset' = TRUE /\ UNCHANGED <<kv, overlapped, crowded>>
    BY <1>12, Zenon DEF Restart
  <2>3. Capacity \in [Flights -> Int]
    BY BookingsAssumption
  <2>4. seats' \in [Instances -> [Flights -> Int]]
    BY <1>0, <2>2, <2>3 DEF OthersTyped
  <2>5. restarts' \in 0..MaxRestarts
    BY <1>0, <2>2, BookingsAssumption DEF OthersTyped
  <2>6. OthersTyped'
    BY <1>0, <2>2, <2>4, <2>5 DEF OthersTyped
  <2>7. \A c \in Calls : CallLocals(c)'
    BY <1>0, <1>3, <2>1 DEF CallLocals
  <2> QED
    BY <1>1, <2>1, <2>6, <2>7
<1>13. CASE UNCHANGED vars
  BY <1>0, <1>1, <1>13 DEF vars, OthersTyped, CallLocals
<1> QED
  BY <1>5, <1>6, <1>7, <1>9, <1>10, <1>11, <1>12, <1>13 DEF Next

(* So it holds in every reachable state.                                   *)
THEOREM TypeInvariant == Spec => []TypeInv
BY TypeInit, TypeStep, PTL DEF Spec

(* Every variable has its type.                                            *)
THEOREM TypeCorrect == Spec => []TypeOK
<1>1. TypeInv => TypeOK
  BY DEF TypeInv
<1> QED
  BY <1>1, TypeInvariant, PTL

----------------------------------------------------------------------------
(* Seats                                                                   *)

(* At first every instance has the seats of its flights, and no creation   *)
(* is under way.                                                           *)
LEMMA SeatsInit == Init => SeatsInv
BY BookingsAssumption
   DEF Init, SeatsInv, SeatKept, Creating, NoCall, Calls

(* It stays so as long as no creation gets further and no instance that    *)
(* has creations under way loses a seat.                                   *)
LEMMA SeatsKept ==
  ASSUME SeatsInv,
         \A c \in Creates :
           call'[c].at = "changing" => call'[c] = call[c],
         crowded \subseteq crowded',
         \A i \in Instances, f \in Flights :
           \/ seats[i][f] \in Int /\ seats'[i][f] \in Int
              /\ seats'[i][f] >= seats[i][f]
           \/ seats'[i][f] \in Int /\ seats'[i][f] >= 0
              /\ \A c \in Creates :
                   ~(call'[c].at = "changing" /\ call'[c].on = i)
  PROVE  SeatsInv'
<1>1. ASSUME NEW i \in Instances, NEW f \in Flights
      PROVE  SeatKept(i, f)'
  <2>1. Creating(i, f)' \subseteq Creating(i, f)
    BY DEF Creating
  <2>2. SeatKept(i, f)
    BY DEF SeatsInv
  <2>3. CASE /\ seats[i][f] \in Int /\ seats'[i][f] \in Int
             /\ seats'[i][f] >= seats[i][f]
    BY <2>1, <2>2, <2>3 DEF SeatKept
  <2>4. CASE /\ seats'[i][f] \in Int /\ seats'[i][f] >= 0
             /\ \A c \in Creates :
                  ~(call'[c].at = "changing" /\ call'[c].on = i)
    <3>1. Creating(i, f)' = {}
      BY <2>4 DEF Creating
    <3> QED
      BY <2>4, <3>1 DEF SeatKept
  <2> QED
    BY <2>3, <2>4
<1> QED
  BY <1>1 DEF SeatsInv

(* Every step preserves it.                                                *)
LEMMA SeatsStep == TypeInv /\ SeatsInv /\ [Next]_vars => SeatsInv'
<1> SUFFICES ASSUME TypeInv, SeatsInv, [Next]_vars PROVE SeatsInv'
  OBVIOUS
<1>0. /\ call \in [Calls -> CallRecords]
      /\ seats \in [Instances -> [Flights -> Int]]
      /\ \A c \in Calls : CallLocals(c)
      /\ \A i \in Instances, f \in Flights : seats[i][f] \in Int
  BY TypeOKSplit DEF TypeInv, OthersTyped
<1>1. /\ Creates \subseteq Calls /\ Changes \subseteq Calls
      /\ Creates \cap Changes = {}
  BY BookingsAssumption DEF Calls
<1>2. ASSUME NEW c \in Calls,
             \/ Went(c, "failure")
             \/ c \in Changes /\ (Went(c, "changing") \/ Went(c, "success")),
             crowded' = crowded,
             \A i \in Instances, f \in Flights :
               seats'[i][f] \in Int /\ seats'[i][f] >= seats[i][f]
      PROVE  SeatsInv'
  <2>1. \A d \in Creates : call'[d].at = "changing" => call'[d] = call[d]
    BY <1>1, <1>2 DEF Went
  <2> QED
    BY <1>0, <1>2, <2>1, SeatsKept
<1>3. ASSUME UNCHANGED seats
      PROVE  \A i \in Instances, f \in Flights :
               seats'[i][f] \in Int /\ seats'[i][f] >= seats[i][f]
  BY <1>0, <1>3
<1>4. ASSUME NEW c \in Creates, NEW i \in Instances, Create(c, i)
      PROVE  SeatsInv'
  <2>1. UNCHANGED seats /\ call[c].at = "idle"
    BY <1>4, CreateCases
  <2>2. CASE Went(c, "failure") /\ UNCHANGED crowded
    BY <1>1, <1>2, <1>3, <2>1, <2>2
  <2>3. CASE ~(Went(c, "failure") /\ UNCHANGED crowded)
    <3>1. PICK f \in Flights, r \in Records :
            /\ Begun(c, "create", i, c, r)
            /\ r.flight = f /\ seats[i][f] > 0
            /\ crowded' = IF Creating(i, f) = {} THEN crowded
                          ELSE crowded \cup {<<i, f>>}
      BY <1>4, <2>3, CreateCases
    <3>2. /\ call'[c].on = i /\ call'[c].record.flight = f
          /\ \A d \in Creates \ {c} : call'[d] = call[d]
      BY <1>1, <3>1 DEF Begun, Went
    <3>3. ASSUME NEW j \in Instances, NEW g \in Flights
          PROVE  SeatKept(j, g)'
      <4>1. SeatKept(j, g)
        BY DEF SeatsInv
      <4>2. CASE j = i /\ g = f
        <5>1. Creating(j, g)' \subseteq Creating(j, g) \cup {c}
          BY <3>2 DEF Creating
        <5>2. CASE Creating(i, f) = {}
          BY <1>0, <2>1, <3>1, <4>2, <5>1, <5>2 DEF SeatKept
        <5>3. CASE Creating(i, f) # {}
          BY <3>1, <4>2, <5>3 DEF SeatKept
        <5> QED
          BY <5>2, <5>3
      <4>3. CASE ~(j = i /\ g = f)
        <5>1. Creating(j, g)' \subseteq Creating(j, g)
          BY <3>2, <4>3 DEF Creating
        <5>2. crowded \subseteq crowded'
          BY <3>1
        <5> QED
          BY <2>1, <4>1, <5>1, <5>2 DEF SeatKept
      <4> QED
        BY <4>2, <4>3
    <3> QED
      BY <3>3 DEF SeatsInv
  <2> QED
    BY <2>2, <2>3
<1>5. ASSUME NEW c \in Changes, NEW i \in Instances, Require(c, i)
      PROVE  SeatsInv'
  <2>1. UNCHANGED crowded
    BY <1>5, RequireCases
  <2>2. CASE Went(c, "failure") /\ UNCHANGED <<seats, overlapped>>
    BY <1>1, <1>2, <1>3, <2>1, <2>2
  <2>3. CASE ~(Went(c, "failure") /\ UNCHANGED <<seats, overlapped>>)
    <3>1. PICK b \in Bookings, kind \in Kinds :
            /\ store[b] \in Records
            /\ Begun(c, kind, i, b, Changed(c, kind, store[b]))
            /\ seats' = IF kind = "cancel"
                        THEN [seats EXCEPT ![i][store[b].flight] = @ + 1]
                        ELSE seats
      BY <1>5, <2>3, RequireCases
    <3>2. \A j \in Instances, f \in Flights :
            seats'[j][f] \in Int /\ seats'[j][f] >= seats[j][f]
      <4>1. store[b].flight \in Flights
        BY <3>1 DEF Records
      <4>2. PICK g \in Flights : g = store[b].flight
        BY <4>1
      <4>3. CASE kind = "cancel"
        <5>1. seats' = [seats EXCEPT ![i][g] = seats[i][g] + 1]
          BY <3>1, <4>2, <4>3
        <5>2. \A j \in Instances, f \in Flights :
                \/ seats'[j][f] = seats[j][f]
                \/ seats'[j][f] = seats[j][f] + 1
          BY <1>0, <5>1
        <5> QED
          BY <1>0, <5>2
      <4>4. CASE kind # "cancel"
        BY <1>3, <3>1, <4>4
      <4> QED
        BY <4>3, <4>4
    <3>3. Went(c, "changing")
      BY <3>1 DEF Begun
    <3> QED
      BY <1>1, <1>2, <2>1, <3>2, <3>3
  <2> QED
    BY <2>2, <2>3
<1>6. ASSUME NEW c \in Changes, GetFails(c)
      PROVE  SeatsInv'
  <2>1. Went(c, "failure") /\ UNCHANGED <<seats, crowded>>
    BY <1>0, <1>1, <1>6, FailLemma DEF GetFails
  <2> QED
    BY <1>1, <1>2, <1>3, <2>1
<1>7. ASSUME NEW c \in Calls, SaveFails(c)
      PROVE  SeatsInv'
  <2>1. Went(c, "failure") /\ UNCHANGED <<seats, crowded>>
    BY <1>0, <1>7, FailLemma DEF SaveFails
  <2> QED
    BY <1>2, <1>3, <2>1
<1>8. ASSUME NEW c \in Calls, Save(c)
      PROVE  SeatsInv'
  <2>1. Went(c, "success") /\ call[c].at = "changing" /\ UNCHANGED crowded
    BY <1>0, <1>8, SucceedLemma DEF Save
  <2>2. CASE c \in Creates
    <3>1. PICK i \in Instances : i = call[c].on
      BY <1>0, <2>1 DEF CallLocals
    <3>2. PICK f \in Flights : f = call[c].record.flight
      <4>1. call[c].record \in Records
        BY <1>0, <2>1 DEF CallLocals
      <4> QED
        BY <4>1 DEF Records
    <3>3. seats' = [seats EXCEPT ![i][f] = seats[i][f] - 1]
      BY <1>8, <2>2, <3>1, <3>2 DEF Save
    <3>4. ASSUME NEW j \in Instances, NEW g \in Flights
          PROVE  SeatKept(j, g)'
      <4>1. SeatKept(j, g)
        BY DEF SeatsInv
      <4>2. Creating(j, g)' = Creating(j, g) \ {c}
        BY <1>1, <2>1 DEF Creating, Went
      <4>3. CASE j = i /\ g = f
        <5>1. c \in Creating(j, g)
          BY <2>1, <2>2, <3>1, <3>2, <4>3 DEF Creating
        <5>2. seats'[j][g] = seats[j][g] - 1 /\ seats[j][g] \in Int
          BY <1>0, <3>3, <4>3
        <5> QED
          BY <2>1, <4>1, <4>2, <5>1, <5>2 DEF SeatKept
      <4>4. CASE ~(j = i /\ g = f)
        <5>1. seats'[j][g] = seats[j][g]
          BY <1>0, <3>3, <4>4
        <5> QED
          BY <2>1, <4>1, <4>2, <5>1 DEF SeatKept
      <4> QED
        BY <4>3, <4>4
    <3> QED
      BY <3>4 DEF SeatsInv
  <2>3. CASE c \notin Creates
    <3>1. c \in Changes /\ UNCHANGED seats
      BY <1>8, <2>3 DEF Save, Calls
    <3> QED
      BY <1>2, <1>3, <2>1, <3>1
  <2> QED
    BY <2>2, <2>3
<1>9. ASSUME NEW i \in Instances, Restart(i)
      PROVE  SeatsInv'
  <2>1. \A c \in Creates :
          /\ call'[c].at = "changing" => call'[c] = call[c]
          /\ ~(call'[c].at = "changing" /\ call'[c].on = i)
    BY <1>0, <1>1, <1>9, RestartedCalls
  <2>2. seats' = [seats EXCEPT ![i] = Capacity] /\ UNCHANGED crowded
    BY <1>9, Zenon DEF Restart
  <2>3. \A j \in Instances, f \in Flights :
          \/ seats'[j][f] \in Int /\ seats'[j][f] >= seats[j][f]
          \/ j = i /\ seats'[j][f] \in Int /\ seats'[j][f] >= 0
    BY <1>0, <2>2, BookingsAssumption
  <2> QED
    BY <1>0, <2>1, <2>2, <2>3, SeatsKept
<1>10. CASE UNCHANGED <<seats, call, crowded>>
  BY <1>0, <1>10, SeatsKept
<1> QED
  BY <1>4, <1>5, <1>6, <1>7, <1>8, <1>9, <1>10 DEF Next, vars, Expire

(* No instance sells a seat it does not have, unless two creations for one *)
(* flight were between the check and the write together.                   *)
THEOREM NobodyOversells == Spec => []NoOversale
<1>1. SeatsInv => NoOversale
  BY DEF SeatsInv, SeatKept, NoOversale
<1> QED
  BY <1>1, TypeInvariant, SeatsInit, SeatsStep, PTL DEF Spec

----------------------------------------------------------------------------
(* Copies                                                                  *)

(* Every operation does to its copy what it is for, and undoes nothing of  *)
(* what calls before it have reported.                                     *)
LEMMA ChangedDoes ==
  ASSUME NEW c \in Changes, NEW kind \in Kinds, NEW r \in Records,
         r.status # "cancelled"
  PROVE  /\ Does(kind, c, Changed(c, kind, r))
         /\ \A k \in Kinds \cup {"create"}, d \in Calls :
              Does(k, d, r) => Does(k, d, Changed(c, kind, r))
<1> DEFINE new == Changed(c, kind, r)
<1>1. /\ kind = "cancel" => new.status = "cancelled"
      /\ r.renamed \/ kind = "modify" => new.renamed
      /\ r.checked_in \/ kind = "check_in" => new.checked_in
      /\ r.seat # "none" \/ kind = "check_in" => new.seat # "none"
      /\ r.seat = "selected" \/ kind = "select_seats" =>
           new.seat = "selected"
      /\ r.baggage \subseteq new.baggage
      /\ kind = "add_baggage" => c \in new.baggage
  BY ChangedLemma
<1> HIDE DEF new
<1>2. Does(kind, c, new)
  BY <1>1 DEF Does, Kinds
<1>3. ASSUME NEW k \in Kinds \cup {"create"}, NEW d \in Calls, Does(k, d, r)
      PROVE  Does(k, d, new)
  BY <1>1, <1>3 DEF Does, Kinds
<1> QED
  BY <1>2, <1>3 DEF new

(* At first nothing is under way and nothing was reported.                 *)
LEMMA CopiesInit == Init => CopiesInv
BY DEF Init, CopiesInv, Overlap, CopyIsCurrent, StoreIsCurrent, NoCall, Calls

(* Calls that fail and records that go change nothing of this.             *)
LEMMA CopiesKept ==
  ASSUME CopiesInv, UNCHANGED overlapped,
         \A c \in Calls : call'[c] = call[c] \/ call'[c].at = "failure",
         \A c \in Calls : call[c].at = "success" =>
           \/ store'[call[c].booking] = store[call[c].booking]
           \/ store'[call[c].booking] = None
           \/ call[c].booking \in overlapped
           \/ Does(call[c].kind, c, store'[call[c].booking])
  PROVE  CopiesInv'
<1>1. Changes \subseteq Calls
  BY DEF Calls
<1>2. Overlap'
  BY <1>1 DEF CopiesInv, Overlap
<1>3. ASSUME NEW c \in Calls
      PROVE  CopyIsCurrent(c)' /\ StoreIsCurrent(c)'
  BY DEF CopiesInv, CopyIsCurrent, StoreIsCurrent
<1> QED
  BY <1>2, <1>3 DEF CopiesInv

(* A call that takes up a booking does so with a record in which all is    *)
(* that was reported of it.                                                *)
LEMMA BegunCopies ==
  ASSUME TypeInv, CopiesInv, NEW c \in Calls, NEW kind, NEW i, NEW b, NEW r,
         Begun(c, kind, i, b, r), Does(kind, c, r),
         \A d \in Calls :
           call[d].at = "success" /\ call[d].booking = b =>
             b \in overlapped \/ Does(call[d].kind, d, r),
         overlapped \subseteq overlapped',
         c \in Changes /\ Changing(b) # {} => b \in overlapped'
  PROVE  CopiesInv'
<1>1. /\ \A d \in Calls \ {c} : call'[d] = call[d]
      /\ call'[c].at = "changing" /\ call'[c].kind = kind
      /\ call'[c].booking = b /\ call'[c].record = r
      /\ call[c].at = "idle" /\ store' = store
  BY DEF Begun, Went
<1>2. Changes \subseteq Calls
  BY DEF Calls
<1>3. Overlap'
  <2>1. ASSUME NEW d \in Changes, NEW e \in Changes, d # e,
               call'[d].at = "changing", call'[e].at = "changing",
               call'[d].booking = call'[e].booking
        PROVE  call'[d].booking \in overlapped'
    <3>1. CASE d # c /\ e # c
      BY <1>1, <1>2, <2>1, <3>1 DEF CopiesInv, Overlap
    <3>2. CASE d = c
      <4>1. e \in Changing(b)
        BY <1>1, <1>2, <2>1, <3>2 DEF Changing
      <4> QED
        BY <1>1, <3>2, <4>1
    <3>3. CASE e = c
      <4>1. d \in Changing(b)
        BY <1>1, <1>2, <2>1, <3>3 DEF Changing
      <4> QED
        BY <1>1, <2>1, <3>3, <4>1
    <3> QED
      BY <3>1, <3>2, <3>3
  <2> QED
    BY <2>1 DEF Overlap
<1>4. CopyIsCurrent(c)'
  BY <1>1 DEF CopyIsCurrent
<1>5. ASSUME NEW d \in Calls \ {c}
      PROVE  CopyIsCurrent(d)'
  BY <1>1 DEF CopiesInv, CopyIsCurrent
<1>6. ASSUME NEW d \in Calls
      PROVE  StoreIsCurrent(d)'
  BY <1>1 DEF CopiesInv, StoreIsCurrent
<1> QED
  BY <1>3, <1>4, <1>5, <1>6 DEF CopiesInv

(* Every step preserves it.                                                *)
LEMMA CopiesStep == TypeInv /\ CopiesInv /\ [Next]_vars => CopiesInv'
<1> SUFFICES ASSUME TypeInv, CopiesInv, [Next]_vars PROVE CopiesInv'
  OBVIOUS
<1>0. /\ call \in [Calls -> CallRecords]
      /\ store \in [Bookings -> Records \cup {None}]
      /\ \A c \in Calls : CallLocals(c)
  BY TypeOKSplit DEF TypeInv, OthersTyped
<1>1. /\ Creates \subseteq Calls /\ Changes \subseteq Calls
      /\ Calls \subseteq Creates \cup Changes /\ Bookings = Creates
      /\ Creates \cap Changes = {}
  BY BookingsAssumption DEF Calls, Bookings
<1>2. ASSUME NEW c \in Calls, Went(c, "failure"), UNCHANGED <<store, overlapped>>
      PROVE  CopiesInv'
  BY <1>2, CopiesKept DEF Went
<1>3. ASSUME NEW c \in Calls, call[c].at \in {"changing", "success"}
      PROVE  /\ call[c].kind \in Kinds \cup {"create"}
             /\ call[c].booking \in Bookings
  BY <1>0, <1>1, <1>3 DEF CallLocals
<1>4. ASSUME NEW c \in Creates, NEW i \in Instances, Create(c, i)
      PROVE  CopiesInv'
  <2>1. UNCHANGED <<store, overlapped>> /\ call[c].at = "idle"
    BY <1>4, CreateCases
  <2>2. CASE Went(c, "failure")
    BY <1>1, <1>2, <2>1, <2>2
  <2>3. CASE ~Went(c, "failure")
    <3>1. PICK r \in Records : Begun(c, "create", i, c, r)
      BY <1>4, <2>3, CreateCases
    <3>2. ASSUME NEW d \in Calls, call[d].at = "success", call[d].booking = c
          PROVE  FALSE
      BY <1>0, <1>1, <2>1, <3>2 DEF CallLocals
    <3>3. Does("create", c, r)
      BY DEF Does
    <3> QED
      BY <1>1, <2>1, <3>1, <3>2, <3>3, BegunCopies
  <2> QED
    BY <2>2, <2>3
<1>5. ASSUME NEW c \in Changes, NEW i \in Instances, Require(c, i)
      PROVE  CopiesInv'
  <2>1. UNCHANGED store
    BY <1>5, RequireCases
  <2>2. CASE Went(c, "failure") /\ UNCHANGED <<seats, overlapped>>
    BY <1>1, <1>2, <2>1, <2>2
  <2>3. CASE ~(Went(c, "failure") /\ UNCHANGED <<seats, overlapped>>)
    <3>1. PICK b \in Bookings, kind \in Kinds :
            /\ store[b] # None
            /\ store[b] \in Records /\ store[b].status # "cancelled"
            /\ Begun(c, kind, i, b, Changed(c, kind, store[b]))
            /\ overlapped' = IF Changing(b) = {} THEN overlapped
                             ELSE overlapped \cup {b}
      BY <1>5, <2>3, RequireCases
    <3>2. PICK s \in Records : s = store[b]
      BY <3>1
    <3>3. PICK r : r = Changed(c, kind, s)
      OBVIOUS
    <3>4. Does(kind, c, r)
      BY <3>1, <3>2, <3>3, ChangedDoes
    <3>5. ASSUME NEW d \in Calls, call[d].at = "success", call[d].booking = b,
                 b \notin overlapped
          PROVE  Does(call[d].kind, d, r)
      <4>1. s # None
        BY <3>1, <3>2
      <4>2. Does(call[d].kind, d, s)
        BY <3>2, <3>5, <4>1 DEF CopiesInv, StoreIsCurrent
      <4>3. call[d].kind \in Kinds \cup {"create"}
        BY <1>3, <3>5
      <4> QED
        BY <3>1, <3>2, <3>3, <4>2, <4>3, ChangedDoes
    <3>6. Begun(c, kind, i, b, r)
      BY <3>1, <3>2, <3>3
    <3>7. /\ overlapped \subseteq overlapped'
          /\ Changing(b) # {} => b \in overlapped'
      BY <3>1
    <3> QED
      BY <1>1, <3>4, <3>5, <3>6, <3>7, BegunCopies
  <2> QED
    BY <2>2, <2>3
<1>6. ASSUME NEW c \in Changes, GetFails(c)
      PROVE  CopiesInv'
  <2>1. Went(c, "failure") /\ UNCHANGED <<store, overlapped>>
    BY <1>0, <1>1, <1>6, FailLemma DEF GetFails
  <2> QED
    BY <1>1, <1>2, <2>1
(* What a call under way would write has in it all that was reported.      *)
<1>7. ASSUME NEW c \in Calls, call[c].at = "changing",
             store' = [store EXCEPT ![call[c].booking] = call[c].record],
             NEW d \in Calls, call[d].at = "success"
      PROVE  \/ store'[call[d].booking] = store[call[d].booking]
             \/ call[d].booking \in overlapped
             \/ Does(call[d].kind, d, store'[call[d].booking])
  <2>1. CASE call[d].booking = call[c].booking
    <3>1. store'[call[d].booking] = call[c].record
      BY <1>0, <1>3, <1>7, <2>1
    <3> QED
      BY <1>7, <2>1, <3>1 DEF CopiesInv, CopyIsCurrent
  <2>2. CASE call[d].booking # call[c].booking
    BY <1>0, <1>3, <1>7, <2>2
  <2> QED
    BY <2>1, <2>2
<1>8. ASSUME NEW c \in Calls, SaveFails(c)
      PROVE  CopiesInv'
  <2>1. /\ Went(c, "failure") /\ call[c].at = "changing" /\ UNCHANGED overlapped
        /\ \/ store' = store
           \/ store' = [store EXCEPT ![call[c].booking] = call[c].record]
    BY <1>0, <1>8, FailLemma DEF SaveFails
  <2>2. CASE store' = store
    BY <1>2, <2>1, <2>2
  <2>3. CASE store' = [store EXCEPT ![call[c].booking] = call[c].record]
    <3>1. \A d \in Calls : call'[d] = call[d] \/ call'[d].at = "failure"
      BY <2>1 DEF Went
    <3> QED
      BY <1>7, <2>1, <2>3, <3>1, CopiesKept
  <2> QED
    BY <2>1, <2>2, <2>3
<1>9. ASSUME NEW c \in Calls, Save(c)
      PROVE  CopiesInv'
  <2>1. /\ Went(c, "success") /\ call[c].at = "changing"
        /\ call'[c].kind = call[c].kind /\ call'[c].booking = call[c].booking
        /\ store' = [store EXCEPT ![call[c].booking] = call[c].record]
        /\ UNCHANGED overlapped
    BY <1>0, <1>9, SucceedLemma DEF Save
  <2>2. \A d \in Calls \ {c} : call'[d] = call[d]
    BY <2>1 DEF Went
  <2>3. call'[c].at = "success"
    BY <2>1 DEF Went
  <2>4. Overlap'
    <3>1. \A d \in Changes :
            call'[d].at = "changing" => d # c /\ call'[d] = call[d]
      BY <1>1, <2>2, <2>3
    <3>2. Overlap
      BY DEF CopiesInv
    <3> QED
      BY <2>1, <3>1, <3>2 DEF Overlap
  <2>5. ASSUME NEW d \in Calls
        PROVE  StoreIsCurrent(d)'
    <3>1. CASE d = c
      <4>1. store'[call[c].booking] = call[c].record
        BY <1>0, <1>3, <2>1
      <4> QED
        BY <2>1, <3>1, <4>1 DEF CopiesInv, CopyIsCurrent, StoreIsCurrent
    <3>2. CASE d # c
      BY <1>7, <2>1, <2>2, <3>2 DEF CopiesInv, StoreIsCurrent
    <3> QED
      BY <3>1, <3>2
  (* Nobody else who is changing that booking can rely on his copy.        *)
  <2>6. ASSUME NEW d \in Calls \ {c}, call[d].at = "changing",
               call[d].booking = call[c].booking
        PROVE  call[c].booking \in overlapped
    <3>1. d \in Changes /\ c \in Changes
      BY <1>0, <1>1, <2>1, <2>6 DEF CallLocals
    <3> QED
      BY <2>1, <2>6, <3>1 DEF CopiesInv, Overlap
  <2>7. ASSUME NEW d \in Calls
        PROVE  CopyIsCurrent(d)'
    <3>1. CASE d = c
      BY <2>3, <3>1 DEF CopyIsCurrent
    <3>2. CASE d # c
      <4>1. CopyIsCurrent(d)
        BY DEF CopiesInv
      <4> QED
        BY <2>1, <2>2, <2>6, <3>2, <4>1 DEF CopyIsCurrent
    <3> QED
      BY <3>1, <3>2
  <2> QED
    BY <2>4, <2>5, <2>7 DEF CopiesInv
<1>10. ASSUME NEW b \in Bookings, Expire(b)
      PROVE  CopiesInv'
  <2>1. /\ UNCHANGED <<call, overlapped>>
        /\ \A x \in Bookings : store'[x] = store[x] \/ store'[x] = None
    BY <1>0, <1>10 DEF Expire
  <2> QED
    BY <1>3, <2>1, CopiesKept
<1>11. ASSUME NEW i \in Instances, Restart(i)
      PROVE  CopiesInv'
  <2>1. \A c \in Calls : call'[c] = call[c] \/ call'[c].at = "failure"
    BY <1>0, <1>11, RestartedCalls
  <2>2. /\ UNCHANGED overlapped
        /\ store' = IF kv THEN store ELSE [b \in Bookings |-> None]
    BY <1>11, Zenon DEF Restart
  <2>3. \A x \in Bookings : store'[x] = store[x] \/ store'[x] = None
    BY <2>2
  <2> QED
    BY <1>3, <2>1, <2>2, <2>3, CopiesKept
<1>12. CASE UNCHANGED vars
  BY <1>12, CopiesKept DEF vars
<1> QED
  BY <1>4, <1>5, <1>6, <1>8, <1>9, <1>10, <1>11, <1>12 DEF Next

(* What a call has reported as done stays in the booking for as long as    *)
(* the store has it, unless two changes of the booking overlapped.         *)
THEOREM ReportsHold == Spec => []ReportedIsStored
<1>1. CopiesInv => ReportedIsStored
  BY DEF CopiesInv, StoreIsCurrent, ReportedIsStored, Stored, Does
<1> QED
  BY <1>1, TypeInvariant, CopiesInit, CopiesStep, PTL DEF Spec

----------------------------------------------------------------------------
(* A sum over the instances                                                *)

(* The instance that MapThenSumSet takes next.                             *)
Pick(s) == CHOOSE i \in s : TRUE

(* The recursive function that it is defined by ...                        *)
Sums(h, taken) ==
  h = [s \in SUBSET Instances |->
         IF s = {} THEN 0 ELSE taken[Pick(s)] + h[s \ {Pick(s)}]]

(* ... and its restriction to sets of no more than n instances.            *)
SumsUpTo(h, taken, n) ==
  h = [s \in {s \in SUBSET Instances : Cardinality(s) <= n} |->
         IF s = {} THEN 0 ELSE taken[Pick(s)] + h[s \ {Pick(s)}]]

(* Sets of instances are well-founded, and this is how the lemmas below    *)
(* argue by induction.                                                     *)
LEMMA MinimalSubset ==
  ASSUME NEW F \in SUBSET SUBSET Instances, F # {}
  PROVE  \E T \in F : \A U \in F : U \subseteq T => U = T
<1> DEFINE R == StrictSubsetOrdering(Instances)
<1>1. IsWellFoundedOn(R, FiniteSubsetsOf(Instances))
  BY FS_StrictSubsetOrderingWellFounded
<1>2. F \subseteq FiniteSubsetsOf(Instances)
  BY BookingsAssumption, FS_Subset DEF FiniteSubsetsOf
<1>3. \E T \in F : \A U \in F : <<U, T>> \notin R
  <2> HIDE DEF R
  <2> QED
    BY <1>1, <1>2, WFMin
<1>4. PICK T \in F : \A U \in F : <<U, T>> \notin R
  BY <1>3
<1> QED
  BY <1>4 DEF StrictSubsetOrdering

(* A set of instances without the one taken is smaller by one.             *)
LEMMA PickLemma ==
  ASSUME NEW s \in SUBSET Instances, s # {}
  PROVE  /\ Pick(s) \in s /\ Pick(s) \in Instances
         /\ s \ {Pick(s)} \in SUBSET Instances /\ s \ {Pick(s)} # s
         /\ Cardinality(s) \in Nat /\ Cardinality(s \ {Pick(s)}) = Cardinality(s) - 1
<1>1. Pick(s) \in s
  BY DEF Pick
<1>2. IsFiniteSet(s)
  BY BookingsAssumption, FS_Subset
<1> QED
  BY <1>1, <1>2, FS_RemoveElement, FS_CardinalityType

LEMMA SumExists ==
  ASSUME NEW taken
  PROVE  \E h : Sums(h, taken)
<1> DEFINE F == {s \in SUBSET Instances :
                   ~\E h : SumsUpTo(h, taken, Cardinality(s))}
<1>1. \A s \in SUBSET Instances : IsFiniteSet(s) /\ Cardinality(s) \in Nat
  BY BookingsAssumption, FS_Subset, FS_CardinalityType
<1>2. F = {}
  <2> SUFFICES ASSUME F # {} PROVE FALSE
    OBVIOUS
  <2>1. PICK T \in F : \A U \in F : U \subseteq T => U = T
    <3>1. F \in SUBSET SUBSET Instances
      OBVIOUS
    <3> HIDE DEF F
    <3> QED
      BY <3>1, MinimalSubset
  <2> DEFINE n == Cardinality(T)
  <2>2. T \in SUBSET Instances /\ n \in Nat /\ ~\E h : SumsUpTo(h, taken, n)
    BY <1>1
  <2>3. CASE T = {}
    <3>1. n = 0
      BY <2>3, FS_EmptySet
    <3>2. \A s \in SUBSET Instances : Cardinality(s) <= n <=> s = {}
      BY <1>1, <3>1, FS_EmptySet
    <3> DEFINE h == [s \in {s \in SUBSET Instances : Cardinality(s) <= n} |-> 0]
    <3> HIDE DEF n
    <3>3. SumsUpTo(h, taken, n)
      BY <3>2 DEF SumsUpTo
    <3> QED
      BY <2>2, <3>3
  <2>4. CASE T # {}
    <3>1. Cardinality(T \ {Pick(T)}) = n - 1 /\ T \ {Pick(T)} \notin F
      BY <2>1, <2>2, <2>4, PickLemma
    <3>2. PICK h : SumsUpTo(h, taken, n - 1)
      BY <2>2, <3>1
    <3> HIDE DEF n, F
    <3> DEFINE Value(s) == IF s = {} THEN 0 ELSE taken[Pick(s)] + h[s \ {Pick(s)}]
               k == [s \in {s \in SUBSET Instances : Cardinality(s) <= n} |->
                       Value(s)]
    <3>3. ASSUME NEW s \in SUBSET Instances, Cardinality(s) <= n - 1
          PROVE  k[s] = h[s]
      <4>1. Cardinality(s) <= n
        BY <1>1, <2>2, <3>3
      <4> QED
        BY <3>2, <3>3, <4>1 DEF SumsUpTo
    <3>4. ASSUME NEW s \in SUBSET Instances, Cardinality(s) <= n, s # {}
          PROVE  k[s \ {Pick(s)}] = h[s \ {Pick(s)}]
      <4>1. /\ s \ {Pick(s)} \in SUBSET Instances
            /\ Cardinality(s \ {Pick(s)}) <= n - 1
        BY <2>2, <3>4, PickLemma
      <4> QED
        BY <3>3, <4>1
    <3>5. SumsUpTo(k, taken, n)
      <4>1. k = [s \in {s \in SUBSET Instances : Cardinality(s) <= n} |->
                   IF s = {} THEN 0 ELSE taken[Pick(s)] + k[s \ {Pick(s)}]]
        BY <3>4
      <4> QED
        BY <4>1 DEF SumsUpTo
    <3> QED
      BY <2>2, <3>5
  <2> QED
    BY <2>3, <2>4
<1>3. PICK h : SumsUpTo(h, taken, Cardinality(Instances))
  BY <1>2
<1>4. \A s \in SUBSET Instances : Cardinality(s) <= Cardinality(Instances)
  BY BookingsAssumption, FS_Subset
<1>5. {s \in SUBSET Instances : Cardinality(s) <= Cardinality(Instances)}
        = SUBSET Instances
  BY <1>4
<1>6. Sums(h, taken)
  BY <1>3, <1>5 DEF SumsUpTo, Sums
<1> QED
  BY <1>6

(* Where one instance has taken more or less and the others as much as     *)
(* before, the sum changes as that one does.                               *)
LEMMA SumOfChange ==
  ASSUME NEW taken \in [Instances -> Int], NEW more \in [Instances -> Int],
         NEW i \in Instances,
         \A j \in Instances \ {i} : more[j] = taken[j]
  PROVE  \A h, k : Sums(h, taken) /\ Sums(k, more) =>
           /\ h[Instances] \in Int
           /\ k[Instances] = h[Instances] + (more[i] - taken[i])
<1> TAKE h, k
<1> HAVE Sums(h, taken) /\ Sums(k, more)
<1> DEFINE d == more[i] - taken[i]
           Good(s) == h[s] \in Int /\ k[s] = h[s] + IF i \in s THEN d ELSE 0
           F == {s \in SUBSET Instances : ~Good(s)}
<1>0. d \in Int /\ more[i] = taken[i] + d
  OBVIOUS
<1> HIDE DEF d
<1> SUFFICES ASSUME F # {} PROVE FALSE
  <2>1. F = {} => Good(Instances)
    OBVIOUS
  <2> QED
    BY <2>1 DEF d
<1>1. PICK T \in F : \A U \in F : U \subseteq T => U = T
  <2>1. F \in SUBSET SUBSET Instances
    OBVIOUS
  <2> HIDE DEF F
  <2> QED
    BY <2>1, MinimalSubset
<1>2. T \in SUBSET Instances /\ ~Good(T)
  OBVIOUS
<1>3. T # {}
  <2>1. h[{}] = 0 /\ k[{}] = 0
    BY DEF Sums
  <2>2. Good({})
    BY <2>1
  <2> QED
    BY <1>2, <2>2
<1> DEFINE j == Pick(T)
           U == T \ {j}
<1>4. /\ j \in T /\ j \in Instances
      /\ U \in SUBSET Instances /\ U # T /\ U \subseteq T
  BY <1>2, <1>3, PickLemma
<1>5. Good(U)
  BY <1>1, <1>4
<1>6. h[T] = taken[j] + h[U] /\ k[T] = more[j] + k[U]
  BY <1>2, <1>3 DEF Sums
<1>7. taken[j] \in Int /\ more[j] = IF j = i THEN taken[j] + d ELSE taken[j]
  BY <1>0, <1>4
<1>8. IF j = i THEN i \in T /\ i \notin U ELSE i \in T <=> i \in U
  BY <1>4
<1> HIDE DEF j, U
<1>9. Good(T)
  <2>1. CASE j = i
    BY <1>0, <1>5, <1>6, <1>7, <1>8, <2>1
  <2>2. CASE j # i
    BY <1>0, <1>5, <1>6, <1>7, <1>8, <2>2
  <2> QED
    BY <2>1, <2>2
<1> QED
  BY <1>2, <1>9

(* Where nobody has taken anything the sum is zero.                        *)
LEMMA SumOfNothing ==
  ASSUME NEW taken, \A i \in Instances : taken[i] = 0, NEW h, Sums(h, taken)
  PROVE  \A s \in SUBSET Instances : h[s] = 0
<1> DEFINE F == {s \in SUBSET Instances : h[s] # 0}
<1> SUFFICES ASSUME F # {} PROVE FALSE
  OBVIOUS
<1>1. PICK T \in F : \A U \in F : U \subseteq T => U = T
  <2>1. F \in SUBSET SUBSET Instances
    OBVIOUS
  <2> HIDE DEF F
  <2> QED
    BY <2>1, MinimalSubset
<1>2. T \in SUBSET Instances /\ h[T] # 0
  OBVIOUS
<1>3. T # {}
  BY <1>2 DEF Sums
<1>4. /\ Pick(T) \in Instances /\ T \ {Pick(T)} \in SUBSET Instances
      /\ T \ {Pick(T)} # T /\ T \ {Pick(T)} \subseteq T
  BY <1>2, <1>3, PickLemma
<1>5. h[T \ {Pick(T)}] = 0
  BY <1>1, <1>4
<1>6. h[T] = taken[Pick(T)] + h[T \ {Pick(T)}]
  BY <1>2, <1>3 DEF Sums
<1> QED
  BY <1>2, <1>4, <1>5, <1>6

(* The seats of a flight that are taken where so many are left.            *)
TakenOf(f, left) == [i \in Instances |-> Capacity[f] - left[i][f]]

SumOf(f, left) == MapThenSumSet(LAMBDA i : Capacity[f] - left[i][f], Instances)

LEMMA SumIs ==
  ASSUME NEW f, NEW left
  PROVE  \E h : Sums(h, TakenOf(f, left)) /\ SumOf(f, left) = h[Instances]
<1> DEFINE Rec(h) ==
             [s \in SUBSET Instances |->
                IF s = {} THEN 0
                ELSE (Capacity[f] - left[Pick(s)][f]) + h[s \ {Pick(s)}]]
<1>1. ASSUME NEW h
      PROVE  h = Rec(h) <=> Sums(h, TakenOf(f, left))
  <2>1. \A s \in SUBSET Instances : s # {} =>
          TakenOf(f, left)[Pick(s)] = Capacity[f] - left[Pick(s)][f]
    BY PickLemma DEF TakenOf
  <2> QED
    BY <2>1 DEF Sums
<1>2. \E h : h = Rec(h)
  BY <1>1, SumExists
<1> DEFINE it == CHOOSE h : h = Rec(h)
<1>3. it = Rec(it)
  BY <1>2
<1>4. SumOf(f, left) = it[Instances]
  BY DEF SumOf, MapThenSumSet, MapThenFoldSet, Pick
<1> HIDE DEF it
<1> QED
  BY <1>1, <1>3, <1>4

(* Where other seats of a flight are left on one instance, the sum changes *)
(* the other way.                                                          *)
LEMMA SumChanges ==
  ASSUME NEW f \in Flights, NEW i \in Instances,
         NEW left \in [Instances -> [Flights -> Int]],
         NEW now \in [Instances -> [Flights -> Int]],
         \A j \in Instances \ {i} : now[j][f] = left[j][f]
  PROVE  /\ SumOf(f, left) \in Int
         /\ SumOf(f, now) = SumOf(f, left) + (left[i][f] - now[i][f])
<1> DEFINE taken == TakenOf(f, left)
           more == TakenOf(f, now)
<1>1. PICK h : Sums(h, taken) /\ SumOf(f, left) = h[Instances]
  BY SumIs
<1>2. PICK k : Sums(k, more) /\ SumOf(f, now) = k[Instances]
  BY SumIs
<1>3. Capacity[f] \in Int /\ left[i][f] \in Int /\ now[i][f] \in Int
  BY BookingsAssumption
<1>4. taken \in [Instances -> Int] /\ more \in [Instances -> Int]
  BY <1>3 DEF TakenOf
<1>5. \A j \in Instances : /\ more[j] = Capacity[f] - now[j][f]
                           /\ taken[j] = Capacity[f] - left[j][f]
  BY DEF TakenOf
<1>6. /\ \A j \in Instances \ {i} : more[j] = taken[j]
      /\ more[i] - taken[i] = left[i][f] - now[i][f]
  BY <1>3, <1>5
<1> HIDE DEF taken, more
<1>7. \A g, m : Sums(g, taken) /\ Sums(m, more) =>
        /\ g[Instances] \in Int
        /\ m[Instances] = g[Instances] + (more[i] - taken[i])
  BY <1>4, <1>6, SumOfChange
<1>8. /\ h[Instances] \in Int
      /\ k[Instances] = h[Instances] + (more[i] - taken[i])
  BY <1>1, <1>2, <1>7
<1> QED
  BY <1>1, <1>2, <1>6, <1>8

LEMMA SumSame ==
  ASSUME NEW f \in Flights,
         NEW left \in [Instances -> [Flights -> Int]],
         NEW now \in [Instances -> [Flights -> Int]],
         \A j \in Instances : now[j][f] = left[j][f]
  PROVE  SumOf(f, now) = SumOf(f, left)
<1>1. Alone \in Instances /\ left[Alone][f] \in Int
  BY BookingsAssumption
<1>2. /\ SumOf(f, left) \in Int
      /\ SumOf(f, now) = SumOf(f, left) + (left[Alone][f] - now[Alone][f])
  BY <1>1, SumChanges
<1> QED
  BY <1>1, <1>2

----------------------------------------------------------------------------
(* The seats add up                                                        *)

Calm == ~upset /\ overlapped = {}

(* The bookings whose seat is taken.                                       *)
Takes(f, b) ==
  /\ store[b] # None
  /\ store[b].flight = f /\ store[b].status = "confirmed"
  /\ \A c \in Changing(b) : call[c].kind # "cancel"

Booked(f) == {b \in Bookings : Takes(f, b)}

(* A record is not stored before its creation writes it; a change holds a  *)
(* copy for the flight of the record it found confirmed.                   *)
Unwritten(c) ==
  /\ call[c].at \in {"idle", "changing"} => store[c] = None
  /\ call[c].at = "changing" => call[c].record.status = "confirmed"

Holds(c) ==
  LET b == call[c].booking IN
  call[c].at = "changing" =>
    /\ store[b] # None /\ store[b].status = "confirmed"
    /\ call[c].record.flight = store[b].flight
    /\ call[c].record.status =
         IF call[c].kind = "cancel" THEN "cancelled" ELSE "confirmed"

SumInv ==
  /\ \A c \in Creates : Unwritten(c)
  /\ Calm => \A c \in Changes : Holds(c)
  /\ Calm => \A f \in Flights : SumOf(f, seats) = Cardinality(Booked(f))

LEMMA SumInvIsSeatsAddUp == SumInv => SeatsAddUp
<1> SUFFICES ASSUME SumInv, Calm, NEW f \in Flights
             PROVE  MapThenSumSet(LAMBDA i : Capacity[f] - seats[i][f], Instances)
                      = Cardinality({b \in Bookings :
                          /\ store[b] # None
                          /\ store[b].flight = f /\ store[b].status = "confirmed"
                          /\ \A c \in Changing(b) : call[c].kind # "cancel"})
  BY DEF SeatsAddUp, Calm
<1>1. SumOf(f, seats) = Cardinality(Booked(f))
  BY DEF SumInv
<1> QED
  BY <1>1 DEF SumOf, Booked, Takes

(* Where the same bookings take seats, as many do.                         *)
LEMMA BookedSame ==
  ASSUME NEW f, \A b \in Bookings : Takes(f, b)' <=> Takes(f, b)
  PROVE  Booked(f)' = Booked(f)
  BY DEF Booked

LEMMA BookedFinite ==
  ASSUME NEW f
  PROVE  IsFiniteSet(Booked(f)) /\ Cardinality(Booked(f)) \in Nat
<1>1. Booked(f) \in SUBSET Calls
  BY DEF Booked, Bookings, Calls
<1> QED
  BY <1>1, BookingsAssumption, FS_Subset, FS_CardinalityType

(* One booking less, and one more.                                         *)
LEMMA BookedLess ==
  ASSUME NEW f, NEW b \in Bookings, Takes(f, b), ~Takes(f, b)',
         \A x \in Bookings \ {b} : Takes(f, x)' <=> Takes(f, x)
  PROVE  Cardinality(Booked(f)') = Cardinality(Booked(f)) - 1
<1>1. Booked(f)' = Booked(f) \ {b} /\ b \in Booked(f)
  BY DEF Booked
<1> QED
  BY <1>1, BookedFinite, FS_RemoveElement

LEMMA BookedMore ==
  ASSUME NEW f, NEW b \in Bookings, ~Takes(f, b), Takes(f, b)',
         \A x \in Bookings \ {b} : Takes(f, x)' <=> Takes(f, x)
  PROVE  Cardinality(Booked(f)') = Cardinality(Booked(f)) + 1
<1>1. Booked(f)' = Booked(f) \cup {b} /\ b \notin Booked(f)
  BY DEF Booked
<1> QED
  BY <1>1, BookedFinite, FS_AddElement

(* A booking whose record and whose changes are as they were.              *)
LEMMA TakesSame ==
  ASSUME NEW f, NEW b \in Bookings, store'[b] = store[b],
         \A c \in Changes : \/ call'[c] = call[c]
                            \/ c \notin Changing(b) /\ c \notin Changing(b)'
  PROVE  Takes(f, b)' <=> Takes(f, b)
<1>1. \A c \in Changes : c \in Changing(b)' <=> c \in Changing(b)
  BY DEF Changing
<1>2. \A c \in Changing(b) : call'[c] = call[c]
  BY DEF Changing
<1>3. Changing(b)' = Changing(b)
  BY <1>1 DEF Changing
<1> QED
  BY <1>2, <1>3 DEF Takes

(* What a failing call leaves alone.                                       *)
LEMMA SumFails ==
  ASSUME TypeInv, SumInv, NEW c \in Calls, call[c].at = "idle",
         Went(c, "failure"), UNCHANGED <<store, seats, overlapped, upset>>
  PROVE  SumInv'
<1>1. \A d \in Calls : call'[d] = call[d] \/ d = c
  BY DEF Went
<1>2. call'[c].at = "failure"
  BY DEF Went
<1>3. Creates \subseteq Calls /\ Changes \subseteq Calls
  BY DEF Calls
<1>4. \A d \in Creates : Unwritten(d)'
  BY <1>1, <1>2, <1>3 DEF SumInv, Unwritten
<1>5. Calm => \A d \in Changes : Holds(d)'
  BY <1>1, <1>2, <1>3 DEF SumInv, Holds
<1>6. ASSUME NEW f \in Flights PROVE Booked(f)' = Booked(f)
  <2>1. ASSUME NEW b \in Bookings PROVE Takes(f, b)' <=> Takes(f, b)
    BY <1>1, <1>2, <1>3, TakesSame DEF Changing
  <2> QED
    BY <2>1, BookedSame
<1> QED
  BY <1>4, <1>5, <1>6 DEF SumInv, Calm

LEMMA SumInit == Init => SumInv
<1> SUFFICES ASSUME Init PROVE SumInv
  OBVIOUS
<1>1. \A c \in Calls : call[c].at = "idle"
  BY DEF Init, NoCall
<1>2. /\ \A c \in Creates : Unwritten(c)
      /\ \A c \in Changes : Holds(c)
  BY <1>1 DEF Init, Unwritten, Holds, Bookings, Calls
<1>3. ASSUME NEW f \in Flights PROVE SumOf(f, seats) = Cardinality(Booked(f))
  <2>1. Booked(f) = {}
    BY DEF Init, Booked, Takes
  <2>2. \A i \in Instances : TakenOf(f, seats)[i] = 0
    <3>1. Capacity[f] \in Nat
      BY BookingsAssumption
    <3> QED
      BY <3>1 DEF Init, TakenOf
  <2>3. PICK h : /\ Sums(h, TakenOf(f, seats))
                 /\ SumOf(f, seats) = h[Instances]
    BY SumIs
  <2>4. \A s \in SUBSET Instances : h[s] = 0
    BY <2>2, <2>3, SumOfNothing
  <2> QED
    BY <2>1, <2>3, <2>4, FS_EmptySet
<1> QED
  BY <1>2, <1>3 DEF SumInv

LEMMA SumStep == TypeInv /\ CopiesInv /\ SumInv /\ [Next]_vars => SumInv'
<1> SUFFICES ASSUME TypeInv, TypeInv', CopiesInv, SumInv, [Next]_vars
             PROVE  SumInv'
  BY TypeStep
<1>0. /\ Creates \subseteq Calls /\ Changes \subseteq Calls /\ Bookings = Creates
      /\ Creates \cap Changes = {} /\ Calls = Creates \cup Changes
      /\ call \in [Calls -> CallRecords]
      /\ store \in [Bookings -> Records \cup {None}]
      /\ seats \in [Instances -> [Flights -> Int]]
      /\ seats' \in [Instances -> [Flights -> Int]]
  BY BookingsAssumption DEF Calls, Bookings, TypeInv, TypeOK, CallRecords
<1>1. ASSUME NEW c \in Creates, NEW i \in Instances, Create(c, i)
      PROVE  SumInv'
  <2>1. /\ UNCHANGED <<kv, store, seats, restarts, overlapped, upset>>
        /\ call[c].at = "idle"
    BY <1>1, CreateCases
  <2>2. CASE Went(c, "failure")
    BY <1>0, <2>1, <2>2, SumFails
  <2>3. CASE \E r \in Records :
               Begun(c, "create", i, c, r) /\ r.status = "confirmed"
    <3>1. PICK r \in Records :
            Begun(c, "create", i, c, r) /\ r.status = "confirmed"
      BY <2>3
    <3>2. /\ \A d \in Calls \ {c} : call'[d] = call[d]
          /\ call'[c].at = "changing" /\ call'[c].record = r
      BY <3>1 DEF Begun, Went
    <3>3. \A d \in Changes : call'[d] = call[d]
      BY <1>0, <3>2
    <3>4. \A d \in Creates : Unwritten(d)'
      BY <1>0, <2>1, <3>1, <3>2 DEF SumInv, Unwritten
    <3>5. Calm => \A d \in Changes : Holds(d)'
      BY <2>1, <3>3 DEF SumInv, Holds
    <3>6. ASSUME NEW f \in Flights PROVE Booked(f)' = Booked(f)
      <4>1. ASSUME NEW b \in Bookings PROVE Takes(f, b)' <=> Takes(f, b)
        BY <2>1, <3>3, TakesSame
      <4> QED
        BY <4>1, BookedSame
    <3> QED
      BY <2>1, <3>4, <3>5, <3>6 DEF SumInv, Calm
  <2> QED
    BY <1>1, <2>2, <2>3, CreateCases
<1>2. ASSUME NEW c \in Changes, NEW i \in Instances, Require(c, i)
      PROVE  SumInv'
  <2>1. /\ UNCHANGED <<kv, store, restarts, crowded, upset>>
        /\ call[c].at = "idle" /\ c \in Calls
    BY <1>0, <1>2, RequireCases
  <2>2. CASE Went(c, "failure") /\ UNCHANGED <<seats, overlapped>>
    BY <2>1, <2>2, SumFails
  <2>3. CASE ~(Went(c, "failure") /\ UNCHANGED <<seats, overlapped>>)
    <3>1. PICK b \in Bookings, kind \in Kinds :
            /\ call[b].at = "success"
            /\ store[b] # None
            /\ store[b] \in Records /\ store[b].status # "cancelled"
            /\ Begun(c, kind, i, b, Changed(c, kind, store[b]))
            /\ seats' = IF kind = "cancel"
                        THEN [seats EXCEPT ![i][store[b].flight] = @ + 1]
                        ELSE seats
            /\ overlapped' = IF Changing(b) = {} THEN overlapped
                             ELSE overlapped \cup {b}
      BY <1>2, <2>3, RequireCases
    <3> DEFINE r == Changed(c, kind, store[b])
               flight == store[b].flight
    <3>2. /\ \A d \in Calls \ {c} : call'[d] = call[d]
          /\ call'[c].at = "changing" /\ call'[c].booking = b
          /\ call'[c].kind = kind /\ call'[c].record = r
      BY <3>1 DEF Begun, Went
    <3>3. /\ store[b].status = "confirmed" /\ flight \in Flights
          /\ r.flight = flight
          /\ r.status = IF kind = "cancel" THEN "cancelled" ELSE "confirmed"
      BY <3>1, ChangedLemma DEF Records
    <3> HIDE DEF r
    <3>4. Calm' => Calm /\ Changing(b) = {}
      BY <2>1, <3>1 DEF Calm
    <3>5. \A d \in Creates : Unwritten(d)'
      BY <1>0, <2>1, <3>2 DEF SumInv, Unwritten
    <3>6. Calm' => \A d \in Changes : Holds(d)'
      <4> SUFFICES ASSUME Calm', NEW d \in Changes PROVE Holds(d)'
        OBVIOUS
      <4>1. CASE d = c
        BY <2>1, <3>1, <3>2, <3>3, <4>1 DEF Holds
      <4>2. CASE d # c
        <5>1. call'[d] = call[d] /\ Holds(d)
          BY <1>0, <3>2, <3>4, <4>2 DEF SumInv
        <5> QED
          BY <2>1, <5>1 DEF Holds
      <4> QED
        BY <4>1, <4>2
    <3>7. ASSUME NEW f \in Flights, NEW x \in Bookings \ {b}
          PROVE  Takes(f, x)' <=> Takes(f, x)
      <4>1. c \notin Changing(x) /\ c \notin Changing(x)'
        BY <2>1, <3>2 DEF Changing
      <4>2. \A d \in Changes : call'[d] = call[d] \/ d = c
        BY <1>0, <3>2
      <4> QED
        BY <2>1, <4>1, <4>2, TakesSame
    <3>8. ASSUME Calm'
          PROVE  /\ \A d \in Changing(b)' : d = c
                 /\ c \in Changing(b)'
      BY <1>0, <3>2, <3>4, <3>8 DEF Changing
    <3>9. ASSUME Calm', NEW f \in Flights
          PROVE  SumOf(f, seats') = Cardinality(Booked(f)')
      <4>1. SumOf(f, seats) = Cardinality(Booked(f))
        BY <3>4, <3>9 DEF SumInv
      <4>2. Takes(f, b) <=> flight = f
        BY <3>1, <3>3, <3>4, <3>9 DEF Takes
      <4>3. Takes(f, b)' <=> flight = f /\ kind # "cancel"
        BY <2>1, <3>1, <3>2, <3>3, <3>8, <3>9 DEF Takes
      <4>4. CASE kind = "cancel" /\ flight = f
        <5>1. /\ seats[i][f] - seats'[i][f] = -1
              /\ \A j \in Instances \ {i} : seats'[j][f] = seats[j][f]
          BY <1>0, <3>1, <4>4
        <5>2. SumOf(f, seats) \in Int /\ SumOf(f, seats') = SumOf(f, seats) + (-1)
          BY <1>0, <5>1, SumChanges
        <5>3. Cardinality(Booked(f)') = Cardinality(Booked(f)) - 1
          BY <3>7, <4>2, <4>3, <4>4, BookedLess
        <5> QED
          BY <4>1, <5>2, <5>3
      <4>5. CASE ~(kind = "cancel" /\ flight = f)
        <5>1. \A j \in Instances : seats'[j][f] = seats[j][f]
          BY <1>0, <3>1, <3>3, <4>5
        <5>2. SumOf(f, seats') = SumOf(f, seats)
          BY <1>0, <5>1, SumSame
        <5>3. Booked(f)' = Booked(f)
          BY <3>7, <4>2, <4>3, <4>5, BookedSame
        <5> QED
          BY <4>1, <5>2, <5>3
      <4> QED
        BY <4>4, <4>5
    <3> QED
      BY <3>5, <3>6, <3>9 DEF SumInv
  <2> QED
    BY <2>2, <2>3
<1>3. ASSUME NEW c \in Changes, GetFails(c)
      PROVE  SumInv'
  <2>1. /\ call[c].at = "idle" /\ Fail(c) /\ c \in Calls
        /\ UNCHANGED <<store, seats, overlapped, upset>>
    BY <1>0, <1>3 DEF GetFails
  <2> QED
    BY <1>0, <2>1, FailLemma, SumFails
<1>4. ASSUME NEW c \in Creates, Save(c)
      PROVE  SumInv'
  <2> DEFINE r == call[c].record
             i == call[c].on
  <2>1. /\ call[c].at = "changing" /\ call[c].booking = c
        /\ r \in Records /\ i \in Instances /\ r.status = "confirmed"
        /\ store[c] = None /\ r # None /\ r.flight \in Flights
    <3>1. CallLocals(c) /\ Unwritten(c) /\ call[c].at = "changing"
      BY <1>0, <1>4 DEF TypeInv, SumInv, Save
    <3>2. r \in Records /\ r # None
      BY <3>1, BookingsAssumption DEF CallLocals
    <3>3. r.flight \in Flights
      BY <3>2 DEF Records
    <3> QED
      BY <3>1, <3>2, <3>3 DEF CallLocals, Unwritten
  <2>2. /\ store' = [store EXCEPT ![c] = r]
        /\ seats' = [seats EXCEPT ![i][r.flight] = @ - 1]
        /\ UNCHANGED <<overlapped, upset>>
    BY <1>4, <2>1 DEF Save
  <2>3. /\ \A d \in Calls \ {c} : call'[d] = call[d]
        /\ call'[c].at = "success"
    BY <1>0, <1>4, SucceedLemma DEF Save, Went
  <2> HIDE DEF r, i
  <2>4. /\ \A d \in Changes : call'[d] = call[d]
        /\ \A d \in Changes : call[d].at = "changing" => call[d].booking # c
    <3>1. \A d \in Changes : call[d].at = "changing" =>
            call[call[d].booking].at = "success"
      BY <1>0 DEF TypeInv, CallLocals
    <3> QED
      BY <1>0, <2>1, <2>3, <3>1
  <2>5. \A d \in Creates : Unwritten(d)'
    BY <1>0, <2>2, <2>3 DEF SumInv, Unwritten
  <2>6. Calm => \A d \in Changes : Holds(d)'
    BY <1>0, <2>2, <2>4 DEF SumInv, Holds
  <2>7. Changing(c) = {} /\ Changing(c)' = {}
    BY <2>4 DEF Changing
  <2>8. ASSUME NEW f \in Flights, NEW x \in Bookings \ {c}
        PROVE  Takes(f, x)' <=> Takes(f, x)
    BY <1>0, <2>2, <2>4, TakesSame
  <2>9. ASSUME Calm, NEW f \in Flights
        PROVE  SumOf(f, seats') = Cardinality(Booked(f)')
    <3>1. SumOf(f, seats) = Cardinality(Booked(f))
      BY <2>9 DEF SumInv
    <3>2. store'[c] = r /\ c \in Bookings
      BY <1>0, <2>2
    <3>3. ~Takes(f, c)
      BY <2>1 DEF Takes
    <3>4. Takes(f, c)' <=> r.flight = f
      BY <2>1, <2>7, <3>2 DEF Takes
    <3>5. CASE r.flight = f
      <4>1. /\ seats[i][f] - seats'[i][f] = 1
            /\ \A j \in Instances \ {i} : seats'[j][f] = seats[j][f]
        BY <1>0, <2>1, <2>2, <3>5
      <4>2. SumOf(f, seats) \in Int /\ SumOf(f, seats') = SumOf(f, seats) + 1
        <5>1. /\ SumOf(f, seats) \in Int
              /\ SumOf(f, seats') = SumOf(f, seats) + (seats[i][f] - seats'[i][f])
          BY <1>0, <2>1, <4>1, SumChanges
        <5> QED
          BY <4>1, <5>1
      <4>3. Cardinality(Booked(f)') = Cardinality(Booked(f)) + 1
        BY <2>8, <3>2, <3>3, <3>4, <3>5, BookedMore
      <4> QED
        BY <3>1, <4>2, <4>3
    <3>6. CASE r.flight # f
      <4>1. \A j \in Instances : seats'[j][f] = seats[j][f]
        BY <1>0, <2>1, <2>2, <3>6
      <4>2. SumOf(f, seats) \in Int /\ SumOf(f, seats') = SumOf(f, seats)
        BY <1>0, <2>1, <4>1, SumChanges
      <4>3. Booked(f)' = Booked(f)
        BY <2>8, <3>2, <3>3, <3>4, <3>6, BookedSame
      <4> QED
        BY <3>1, <4>2, <4>3
    <3> QED
      BY <3>5, <3>6
  <2> QED
    BY <2>2, <2>5, <2>6, <2>9 DEF SumInv, Calm
<1>5. ASSUME NEW c \in Changes, Save(c)
      PROVE  SumInv'
  <2>0. PICK b \in Bookings, r \in Records :
          /\ call[c].booking = b /\ call[c].record = r
          /\ call[c].at = "changing" /\ call[b].at = "success"
    BY <1>0, <1>5 DEF TypeInv, CallLocals, Save
  <2>1. /\ call[c].at = "changing" /\ call[b].at = "success" /\ r # None
        /\ call[c].booking = b /\ call[c].record = r
    BY <2>0, BookingsAssumption
  <2>2. /\ store' = [store EXCEPT ![b] = r]
        /\ UNCHANGED <<seats, overlapped, upset>>
    BY <1>0, <1>5, <2>1 DEF Save
  <2>3. /\ \A d \in Calls \ {c} : call'[d] = call[d]
        /\ call'[c].at = "success" /\ c \in Calls
    BY <1>0, <1>5, SucceedLemma DEF Save, Went
  <2>4. Calm => Holds(c)
    BY DEF SumInv
  <2>5. Calm => \A d \in Changing(b) : d = c
    BY <2>1 DEF CopiesInv, Overlap, Changing, Calm
  <2>6. c \in Changing(b) /\ c \notin Changing(b)'
    BY <2>1, <2>3 DEF Changing
  <2>7. ASSUME NEW x \in Bookings \ {b}
        PROVE  /\ store'[x] = store[x]
               /\ c \notin Changing(x) /\ c \notin Changing(x)'
    BY <1>0, <2>1, <2>2, <2>3 DEF Changing
  <2>8. store'[b] = r
    BY <1>0, <2>1, <2>2
  <2> DEFINE cancels == call[c].kind = "cancel"
             sold == store[b]
  <2>9. Calm => /\ sold # None /\ sold.status = "confirmed"
                /\ r.flight = sold.flight
                /\ r.status = IF cancels THEN "cancelled" ELSE "confirmed"
    BY <2>1, <2>4 DEF Holds
  <2>10. Calm => Changing(b)' = {}
    <3>1. ASSUME NEW d \in Changes, call'[d].at = "changing",
                 call'[d].booking = b
          PROVE  d \in Changing(b) /\ d # c
      BY <1>0, <2>1, <2>3, <3>1 DEF Changing
    <3> QED
      BY <2>5, <3>1 DEF Changing
  <2>11. call[b].at = "success" /\ call'[b].at = "success"
    BY <1>0, <2>1, <2>3
  <2> HIDE DEF sold, cancels
  <2>12. \A d \in Creates : Unwritten(d)'
    <3> SUFFICES ASSUME NEW d \in Creates PROVE Unwritten(d)'
      OBVIOUS
    <3>1. CASE d = b
      BY <2>11, <3>1 DEF Unwritten
    <3>2. CASE d # b
      <4>1. call'[d] = call[d] /\ store'[d] = store[d] /\ Unwritten(d)
        BY <1>0, <2>3, <2>7, <3>2 DEF SumInv
      <4> QED
        BY <4>1 DEF Unwritten
    <3> QED
      BY <3>1, <3>2
  <2>13. Calm => \A d \in Changes : Holds(d)'
    <3> SUFFICES ASSUME Calm, NEW d \in Changes, call'[d].at = "changing"
                 PROVE  Holds(d)'
      BY DEF Holds
    <3>1. d # c /\ call'[d] = call[d] /\ Holds(d)
      BY <1>0, <2>3 DEF SumInv
    <3>2. call[d].booking \in Bookings /\ call[d].booking # b
      <4>1. CallLocals(d)
        BY <1>0 DEF TypeInv
      <4> QED
        BY <2>5, <3>1, <4>1 DEF CallLocals, Changing
    <3>3. store'[call[d].booking] = store[call[d].booking]
      BY <2>7, <3>2
    <3> QED
      BY <3>1, <3>3 DEF Holds
  <2>14. ASSUME Calm, NEW f \in Flights
         PROVE  Booked(f)' = Booked(f)
    <3>1. ASSUME NEW x \in Bookings \ {b}
          PROVE  Takes(f, x)' <=> Takes(f, x)
      <4>1. \A d \in Changes : call'[d] = call[d] \/ d = c
        BY <1>0, <2>3
      <4> QED
        BY <2>7, <4>1, TakesSame
    <3>2. Takes(f, b) <=> sold.flight = f /\ ~cancels
      BY <2>5, <2>6, <2>9, <2>14 DEF Takes, sold, cancels
    <3>3. Takes(f, b)' <=> r.flight = f /\ ~cancels
      BY <2>1, <2>8, <2>9, <2>10, <2>14 DEF Takes
    <3>4. Takes(f, b)' <=> Takes(f, b)
      BY <2>9, <2>14, <3>2, <3>3
    <3> QED
      BY <3>1, <3>4, BookedSame
  <2> QED
    BY <2>2, <2>12, <2>13, <2>14 DEF SumInv, Calm
<1>6. ASSUME upset',
             \A x \in Creates : \/ call'[x] = call[x]
                               \/ call'[x].at \in {"success", "failure"},
             \A x \in Creates : \/ store'[x] \in {store[x], None}
                               \/ call'[x].at \in {"success", "failure"}
      PROVE  SumInv'
  <2>1. ASSUME NEW x \in Creates PROVE Unwritten(x)'
    BY <1>6 DEF SumInv, Unwritten
  <2> QED
    BY <1>6, <2>1 DEF SumInv, Calm
<1>7. ASSUME NEW c \in Calls, SaveFails(c)
      PROVE  SumInv'
  <2>1. /\ \A d \in Calls \ {c} : call'[d] = call[d]
        /\ call'[c].at = "failure" /\ call[c].at = "changing"
    BY <1>0, <1>7, FailLemma DEF SaveFails, Went
  <2>2. upset' /\ \A x \in Creates : call[c].booking = x \/ store'[x] = store[x]
    BY <1>0, <1>7 DEF SaveFails
  <2>3. ASSUME NEW x \in Creates, call[c].booking = x
        PROVE  call'[x].at \in {"success", "failure"}
    <3>1. CallLocals(c)
      BY DEF TypeInv
    <3> QED
      BY <1>0, <2>1, <2>3, <3>1 DEF CallLocals
  <2> QED
    BY <1>0, <1>6, <2>1, <2>2, <2>3
<1>8. ASSUME NEW b \in Bookings, Expire(b)
      PROVE  SumInv'
  <2>1. /\ UNCHANGED call /\ upset'
        /\ \A x \in Creates : store'[x] \in {store[x], None}
    BY <1>0, <1>8 DEF Expire
  <2> QED
    BY <1>6, <2>1
<1>9. ASSUME NEW i \in Instances, Restart(i)
      PROVE  SumInv'
  <2>1. \A c \in Calls : call'[c] = call[c] \/ call'[c].at = "failure"
    BY <1>0, <1>9, RestartedCalls
  <2>2. /\ upset'
        /\ store' = IF kv THEN store ELSE [b \in Bookings |-> None]
    BY <1>9, Zenon DEF Restart
  <2>3. \A x \in Creates : store'[x] \in {store[x], None}
    BY <1>0, <2>2
  <2> QED
    BY <1>0, <1>6, <2>1, <2>2, <2>3
<1>10. CASE UNCHANGED vars
  <2>1. ASSUME NEW f \in Flights PROVE Booked(f)' = Booked(f)
    BY <1>10 DEF vars, Booked, Takes, Changing
  <2> QED
    BY <1>10, <2>1 DEF vars, SumInv, Unwritten, Holds, Calm
<1> QED
  BY <1>0, <1>1, <1>2, <1>3, <1>4, <1>5, <1>7, <1>8, <1>9, <1>10 DEF Next

(* Over all instances, wherever bookings were made and cancelled, the      *)
(* seats taken are those of the confirmed bookings, as long as nothing     *)
(* failed, expired or restarted and no two changes of a booking            *)
(* overlapped.                                                             *)
THEOREM SeatsAreAccountedFor == Spec => []SeatsAddUp
<1>1. TypeInv /\ CopiesInv /\ SumInv /\ [Next]_vars => SumInv'
  BY SumStep
<1> QED
  BY <1>1, TypeInvariant, CopiesInit, CopiesStep, SumInit, SumInvIsSeatsAddUp,
     PTL DEF Spec
=============================================================================
