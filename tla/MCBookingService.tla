---------------------------- MODULE MCBookingService ----------------------------
(* Small instances of BookingService for TLC.                              *)
EXTENDS BookingService, TLC

CONSTANTS s1, s2, b1, b2, b3, k1, k2

MCSeats == {s1, s2}
MCSeatLists == {<< s1 >>, << s1, s2 >>, << s2 >>}

ThreeBookings == {b1, b2, b3}
TwoBookings == {b1, b2}
OneBooking == {b1}

(* b1 and b2 are retries with one key whose seats differ, so both          *)
(* reservations succeed; b3 competes with b2.                              *)
ChangedRequests == b1 :> << s1 >> @@ b2 :> << s2 >> @@ b3 :> << s2 >>
RetryKeys == b1 :> k1 @@ b2 :> k1 @@ b3 :> k2

(* Two rivals.                                                             *)
RivalRequests == b1 :> << s1, s2 >> @@ b2 :> << s2 >>
RivalKeys == b1 :> k1 @@ b2 :> k2

(* The application clock is a second behind the Redis clock.               *)
Behind == -1
================================================================================
