---------------------------- MODULE MCShowtimeStore ----------------------------
(* Small instances of ShowtimeStore for TLC.                               *)
EXTENDS ShowtimeStore, TLC

CONSTANTS b1, b2, i1, i2

(* A screen with as many rows as there are letters, of one seat each, all  *)
(* but the first and the last marked unavailable; one mark names no seat.  *)
TallScreen ==
  [rows |-> 26, cols |-> 1, unavailable |-> [letter: 66..89, number: {1}] \cup {[letter |-> 65, number |-> 2]}]
Order == GenerateSeatsMap(TallScreen)
TwoSeats == Range(Order)

TwoInitialisers == {i1, i2}
TwoBookings == {b1, b2}
SeatRequests == {<< Order[1] >>, << Order[1], Order[2] >>}

(* Clients and calls are interchangeable.                                  *)
StoreSymmetry == Permutations(TwoBookings) \cup Permutations(TwoInitialisers)

(* How far requests drive a counter that is not there.                     *)
CounterFloor == -3
================================================================================
