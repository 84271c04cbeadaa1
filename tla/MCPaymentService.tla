---------------------------- MODULE MCPaymentService ----------------------------
(* Small instances of the booking and payment system for TLC.              *)
EXTENDS PaymentService, TLC

CONSTANTS s1, s2, b1, b2, k1, k2, p1, p2, w1, w2

OneSeat == {s1}
TwoSeats == {s1, s2}
OneSeatLists == {<< s1 >>}
TwoSeatLists == {<< s1, s2 >>, << s2 >>}

OneBooking == {b1}
TwoBookings == {b1, b2}
NoBookings == {}
OneKey == b1 :> k1
TwoKeys == b1 :> k1 @@ b2 :> k2

(* Two bookings want the same seat.                                        *)
SameSeat == b1 :> << s1 >> @@ b2 :> << s1 >>
(* One booking of two seats.                                               *)
Pair == b1 :> << s1, s2 >>
(* Two bookings that share one of their seats.                             *)
Overlapping == b1 :> << s1, s2 >> @@ b2 :> << s2 >>

TwoPayments == {p1, p2}
PayEach == p1 :> b1 @@ p2 :> b2
PaySameTwice == p1 :> b1 @@ p2 :> b1
OneHandler == {w1}
TwoHandlers == {w1, w2}

(* The handlers are alike; no liveness is checked with this symmetry.      *)
HandlerSymmetry == Permutations(Handlers)
================================================================================
