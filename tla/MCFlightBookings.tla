-------------------------- MODULE MCFlightBookings --------------------------
(* Two creations that compete for the seats of one flight, and three      *)
(* changes of any kind.                                                    *)
EXTENDS FlightBookings, TLC

CONSTANTS n1, n2, x1, x2, x3, i1, i2, f1

OneSeat == [f \in Flights |-> 1]

Symmetry == Permutations(Creates) \cup Permutations(Changes)
=============================================================================
