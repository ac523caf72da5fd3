-------------------------- MODULE FlightBookings --------------------------
(***************************************************************************)
(* The bookings of the flight server.                                      *)
(*                                                                         *)
(*   servers/flight/mock_data.py   the operations                          *)
(*   servers/flight/kv_store.py    where bookings are kept                 *)
(*   servers/flight/server.py      the tools                               *)
(*                                                                         *)
(* Bookings are kept in the key-value store, or in the memory of the only  *)
(* instance; the seats left on a flight always in an instance's memory.    *)
(* Tools run in threads, and every operation gets a whole record and sets  *)
(* a whole record, so calls of one instance interleave as those of several *)
(* do.  What an operation does to the seats needs no step of its own: it   *)
(* commutes with whatever another call may do between it and the get or    *)
(* set next to it.                                                         *)
(*                                                                         *)
(* A booking is named by the call that creates it, its weight by the calls *)
(* that added to it, and of a name or a seat it matters who set it last.   *)
(***************************************************************************)
EXTENDS Integers, FiniteSets, FiniteSetsExt

CONSTANTS
  Creates,       \* calls of create_booking
  Changes,       \* calls of the operations on a booking
  Instances,
  Alone,         \* the instance of a server without the store
  Flights,       \* FLIGHTS
  Capacity,      \* seats_available at the start
  MaxRestarts,   \* bound
  None

Calls == Creates \cup Changes
Bookings == Creates
Kinds == {"cancel", "modify", "check_in", "select_seats", "add_baggage"}

Records ==
  [flight: Flights, status: {"confirmed", "cancelled"}, checked_in: BOOLEAN,
   seat: {"none", "assigned", "selected"}, renamed: BOOLEAN,
   baggage: SUBSET Changes]

ASSUME BookingsAssumption ==
  /\ Creates \cap Changes = {}
  /\ IsFiniteSet(Calls) /\ IsFiniteSet(Instances) /\ IsFiniteSet(Flights)
  /\ Alone \in Instances
  /\ Capacity \in [Flights -> Nat] /\ MaxRestarts \in Nat
  /\ None \notin Calls \cup Instances \cup Flights /\ None \notin Records

VARIABLES
  kv,         \* is the key-value store configured?
  store,      \* the booking store
  seats,      \* FLIGHTS[..]["seats_available"] of each instance
  call,       \* where a call stands, its operation, instance and booking,
              \* and the record it holds
  restarts,
  (* observation *)
  overlapped, \* bookings on which two changes were under way together
  crowded,    \* an instance and a flight with two creations under way together
  upset       \* a write failed, a booking expired or an instance restarted

vars == <<kv, store, seats, call, restarts, overlapped, crowded, upset>>

Changing(b) == {c \in Changes : call[c].at = "changing" /\ call[c].booking = b}

Creating(i, f) ==
  {c \in Creates : call[c].at = "changing" /\ call[c].on = i
                     /\ call[c].record.flight = f}

(* Memory of one instance only, where there is no store.                   *)
Serves(i) == kv \/ i = Alone

NoCall == [at |-> "idle", kind |-> "none", on |-> None, booking |-> None,
           record |-> None]

(* A ValueError's "success": false, or an exception.                       *)
Fail(c) == call' = [call EXCEPT ![c] = [NoCall EXCEPT !.at = "failure"]]

Succeed(c) ==
  call' = [call EXCEPT ![c] = [@ EXCEPT !.at = "success", !.on = None,
                                        !.record = None]]

----------------------------------------------------------------------------
(* The operations                                                          *)

(* Variant: a seat too many is sold.                                       *)
HasSeat_OffByOne(i, f) == seats[i][f] >= 0

HasSeat(i, f) == seats[i][f] > 0

(* create_booking up to the write of the new record.                       *)
Create(c, i) ==
  /\ call[c].at = "idle" /\ Serves(i)
  /\ \E f \in Flights \cup {None} :
       IF f \in Flights /\ HasSeat(i, f)
       THEN /\ call' = [call EXCEPT ![c] =
                 [at |-> "changing", kind |-> "create", on |-> i, booking |-> c,
                  record |-> [flight |-> f, status |-> "confirmed",
                              checked_in |-> FALSE, seat |-> "none",
                              renamed |-> FALSE, baggage |-> {}]]]
            /\ crowded' = IF Creating(i, f) = {} THEN crowded
                          ELSE crowded \cup {<<i, f>>}
       ELSE Fail(c) /\ UNCHANGED crowded
  /\ UNCHANGED <<kv, store, seats, restarts, overlapped, upset>>

(* Variant: a booking may be cancelled again.                              *)
Refuses_CancelAgain(kind, booking) ==
  \/ booking = None
  \/ booking.status = "cancelled" /\ kind # "cancel"
  \/ booking.checked_in /\ kind = "check_in"

(* The ValueErrors of the operations on a booking.                         *)
Refuses(kind, booking) ==
  \/ booking = None
  \/ booking.status = "cancelled"
  \/ booking.checked_in /\ kind = "check_in"

(* Variant: check-in assigns a seat whether one was selected or not.       *)
Changed_Reseats(c, kind, booking) ==
  CASE kind = "cancel" -> [booking EXCEPT !.status = "cancelled"]
    [] kind = "modify" -> [booking EXCEPT !.renamed = TRUE]
    [] kind = "check_in" -> [booking EXCEPT !.checked_in = TRUE, !.seat = "assigned"]
    [] kind = "select_seats" -> [booking EXCEPT !.seat = "selected"]
    [] kind = "add_baggage" -> [booking EXCEPT !.baggage = @ \cup {c}]

Changed(c, kind, booking) ==
  CASE kind = "cancel" -> [booking EXCEPT !.status = "cancelled"]
    [] kind = "modify" -> [booking EXCEPT !.renamed = TRUE]
    [] kind = "check_in" ->
         [booking EXCEPT !.checked_in = TRUE,
                         !.seat = IF @ = "none" THEN "assigned" ELSE @]
    [] kind = "select_seats" -> [booking EXCEPT !.seat = "selected"]
    [] kind = "add_baggage" -> [booking EXCEPT !.baggage = @ \cup {c}]

(* _require_booking, the checks, and the change of the copy; a cancelled   *)
(* booking's seat is given back before the record is written.  A caller    *)
(* knows the ids of bookings whose creation has succeeded.  A baggage's    *)
(* weight may be negative, and is then refused.                            *)
Require(c, i) ==
  /\ call[c].at = "idle" /\ Serves(i)
  /\ \E b \in Bookings, kind \in Kinds :
       /\ call[b].at = "success"
       /\ IF Refuses(kind, store[b])
          THEN Fail(c) /\ UNCHANGED <<seats, overlapped>>
          ELSE
          \/ kind = "add_baggage" /\ Fail(c) /\ UNCHANGED <<seats, overlapped>>
          \/ /\ call' = [call EXCEPT ![c] =
                    [at |-> "changing", kind |-> kind, on |-> i, booking |-> b,
                     record |-> Changed(c, kind, store[b])]]
             /\ seats' = IF kind = "cancel"
                         THEN [seats EXCEPT ![i][store[b].flight] = @ + 1]
                         ELSE seats
             /\ overlapped' = IF Changing(b) = {} THEN overlapped
                              ELSE overlapped \cup {b}
  /\ UNCHANGED <<kv, store, restarts, crowded, upset>>

(* The store does not answer the get: the exception is no ValueError, and  *)
(* ends the call.                                                          *)
GetFails(c) ==
  /\ call[c].at = "idle" /\ kv
  /\ Fail(c)
  /\ UNCHANGED <<kv, store, seats, restarts, overlapped, crowded, upset>>

(* _save_booking, and a created booking's seat is taken after it.          *)
Save(c) ==
  LET record == call[c].record IN
  /\ call[c].at = "changing"
  /\ store' = [store EXCEPT ![call[c].booking] = record]
  /\ seats' = IF c \in Creates
              THEN [seats EXCEPT ![call[c].on][record.flight] = @ - 1]
              ELSE seats
  /\ Succeed(c)
  /\ UNCHANGED <<kv, restarts, overlapped, crowded, upset>>

(* The write, or only its answer, is lost.                                 *)
SaveFails(c) ==
  /\ call[c].at = "changing" /\ kv
  /\ store' \in {store, [store EXCEPT ![call[c].booking] = call[c].record]}
  /\ Fail(c)
  /\ upset' = TRUE
  /\ UNCHANGED <<kv, seats, restarts, overlapped, crowded>>

----------------------------------------------------------------------------
(* The store and the instances                                             *)

(* BOOKING_TTL_SECONDS after its last write.                               *)
Expire(b) ==
  /\ kv /\ store[b] # None
  /\ store' = [store EXCEPT ![b] = None]
  /\ upset' = TRUE
  /\ UNCHANGED <<kv, seats, call, restarts, overlapped, crowded>>

Restart(i) ==
  /\ restarts < MaxRestarts /\ Serves(i)
  /\ restarts' = restarts + 1
  /\ seats' = [seats EXCEPT ![i] = Capacity]
  /\ store' = IF kv THEN store ELSE [b \in Bookings |-> None]
  /\ call' = [c \in Calls |->
       IF call[c].at = "changing" /\ call[c].on = i
       THEN [NoCall EXCEPT !.at = "failure"] ELSE call[c]]
  /\ upset' = TRUE
  /\ UNCHANGED <<kv, overlapped, crowded>>

Init ==
  /\ kv \in BOOLEAN
  /\ store = [b \in Bookings |-> None]
  /\ seats = [i \in Instances |-> Capacity]
  /\ call = [c \in Calls |-> NoCall]
  /\ restarts = 0
  /\ overlapped = {} /\ crowded = {} /\ upset = FALSE

Next ==
  \/ \E c \in Creates, i \in Instances : Create(c, i)
  \/ \E c \in Changes :
       GetFails(c) \/ \E i \in Instances : Require(c, i)
  \/ \E c \in Calls : Save(c) \/ SaveFails(c)
  \/ \E b \in Bookings : Expire(b)
  \/ \E i \in Instances : Restart(i)

Spec == Init /\ [][Next]_vars

----------------------------------------------------------------------------
(* Properties                                                              *)

(* Every variable has its type.                                            *)
TypeOK ==
  /\ kv \in BOOLEAN
  /\ store \in [Bookings -> Records \cup {None}]
  /\ seats \in [Instances -> [Flights -> Int]]
  /\ call \in [Calls -> [at: {"idle", "changing", "success", "failure"},
                         kind: Kinds \cup {"create", "none"},
                         on: Instances \cup {None},
                         booking: Bookings \cup {None},
                         record: Records \cup {None}]]
  /\ restarts \in 0..MaxRestarts
  /\ overlapped \subseteq Bookings
  /\ crowded \subseteq Instances \X Flights
  /\ upset \in BOOLEAN

(* The seats taken on all instances together, wherever bookings were made  *)
(* and cancelled, are those of the confirmed bookings in the store, unless *)
(* a write failed, a booking expired, an instance restarted or two changes *)
(* of one booking overlapped.                                              *)
SeatsAddUp ==
  ~upset /\ overlapped = {} =>
    \A f \in Flights :
      MapThenSumSet(LAMBDA i : Capacity[f] - seats[i][f], Instances)
        = Cardinality({b \in Bookings :
            /\ store[b] # None
            /\ store[b].flight = f /\ store[b].status = "confirmed"
            /\ \A c \in Changing(b) : call[c].kind # "cancel"})

(* No instance sells more seats than it has, unless two creations for one  *)
(* flight were between the check and the write together.                   *)
NoOversale ==
  \A i \in Instances, f \in Flights : <<i, f>> \notin crowded => seats[i][f] >= 0

Stored(c, booking) ==
  CASE call[c].kind = "create" -> TRUE
    [] call[c].kind = "cancel" -> booking.status = "cancelled"
    [] call[c].kind = "modify" -> booking.renamed
    [] call[c].kind = "check_in" -> booking.checked_in /\ booking.seat # "none"
    [] call[c].kind = "select_seats" -> booking.seat = "selected"
    [] call[c].kind = "add_baggage" -> c \in booking.baggage

(* Whatever a call has reported as done is in the booking for as long as   *)
(* the store has it: later changes of other fields, by any instance and    *)
(* even failed ones, leave it alone, unless two changes of the booking     *)
(* overlapped.  (A later name or seat takes the place of an earlier one.)  *)
ReportedIsStored ==
  \A c \in Calls :
    LET b == call[c].booking IN
    call[c].at = "success" =>
      store[b] = None \/ b \in overlapped \/ Stored(c, store[b])
=============================================================================
