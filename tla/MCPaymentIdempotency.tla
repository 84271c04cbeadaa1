-------------------------- MODULE MCPaymentIdempotency --------------------------
(* A small instance of PaymentIdempotency for TLC.                         *)
EXTENDS PaymentIdempotency, TLC

CONSTANTS r1, r2, r3, r4, k1, k2, b1, b2, h1, h2

(* Three requests with one key, the third with another body and booking,   *)
(* and a request with a key of its own for the first booking.              *)
FourRequests == {r1, r2, r3, r4}
ChangedKeys == r1 :> k1 @@ r2 :> k1 @@ r3 :> k1 @@ r4 :> k2
ChangedBodies == r1 :> h1 @@ r2 :> h1 @@ r3 :> h2 @@ r4 :> h1
ChangedBookings == r1 :> b1 @@ r2 :> b1 @@ r3 :> b2 @@ r4 :> b1

(* The first two requests are interchangeable: they differ in nothing.     *)
RetrySymmetry == Permutations({r1, r2})
================================================================================
