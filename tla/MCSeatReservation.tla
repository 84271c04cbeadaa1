--------------------------- MODULE MCSeatReservation ---------------------------
(* Small instances of SeatReservation for TLC.                             *)
EXTENDS SeatReservation, TLC

CONSTANTS s1, s2, s3, b1, b2

MCBookings == {b1, b2}
ThreeSeats == {s1, s2, s3}

(* Requests that overlap in s2, one for a single seat, and one that names  *)
(* a seat twice, around another one.                                       *)
MCSeatLists == {<< s1, s2 >>, << s2, s3 >>, << s3 >>, << s1, s2, s1 >>}

(* How far repeated seats may drive the counter.                           *)
CounterFloor == -2
================================================================================
