----------------------------- MODULE PaymentService -----------------------------
(***************************************************************************)
(* PaymentService on top of BookingService: createPayment, the gateway's   *)
(* webhooks, and what a webhook makes of the booking.  The gateway is      *)
(* external: it reports an outcome of a transaction it was asked for at any *)
(* later time, as often as it likes, may change its mind, and several      *)
(* deliveries may be handled at once.                                      *)
(*                                                                         *)
(* A payment p is one createPayment request with an idempotency key of its *)
(* own, and the document it creates.                                       *)
(***************************************************************************)
EXTENDS BookingService

CONSTANTS
  Payments,         \* createPayment requests
  PaidBooking,      \* payment -> the booking it is for
  Handlers,         \* webhook requests the server handles at once
  GatewayOutcomes,  \* what the gateway may report: success, failed
  NoPayment         \* the payment of a handler that has no webhook

ASSUME PaymentsAssumption ==
  /\ PaidBooking \in [Payments -> Bookings]
  /\ GatewayOutcomes \subseteq {"success", "failed"}
  /\ NoPayment \notin Payments

VARIABLES
  payments,  \* the payments collection: status of each document
  checkout,  \* where each createPayment request is
  hook,      \* the webhook each handler is working on
  revoked    \* history: bookings that lost a booked seat

paymentVars == << payments, checkout, hook >>
bookingState == << store, now, bookings, cached, callVars, faults, revoked >>

(* Which bookings this step takes a booked seat from.                      *)
RecordRevoked ==
  revoked' = revoked \cup {b \in Bookings : \E s \in Seats :
                              seats[s] = Booked(b) /\ seats'[s] # Booked(b)}
systemVars == << bookingVars, paymentVars, revoked >>

(***************************************************************************)
(* createPayment                                                           *)
(***************************************************************************)
ActiveStatus == {"pending", "processing", "completed"}

(* validateBooking, and the search for a payment of the same booking.  A   *)
(* request that stops here changes nothing and may be sent again.  The two *)
(* reads are one step: a request that read the booking before another      *)
(* payment was created could as well have searched then.                   *)
CheckoutLookup(p) ==
  LET b == PaidBooking[p]
  IN  /\ checkout[p] = "idle" /\ Answered(b)
      /\ bookings[b].status = "pending" /\ bookings[b].hold_expires_at >= AppNow
      /\ \A q \in Payments : PaidBooking[q] = b => payments[q] \notin ActiveStatus
      /\ checkout' = [checkout EXCEPT ![p] = "create"]
      /\ UNCHANGED << bookingState, payments, hook >>

(* paymentModel.create: the unique index is on the idempotency key only.   *)
CheckoutCreate(p) ==
  /\ checkout[p] = "create"
  /\ \/ /\ payments' = [payments EXCEPT ![p] = "pending"]
        /\ checkout' = [checkout EXCEPT ![p] = "gateway"] /\ NoFault
     \/ /\ UNCHANGED payments
        /\ checkout' = [checkout EXCEPT ![p] = "done"] /\ Fault
  /\ UNCHANGED << store, now, bookings, cached, callVars, hook, revoked >>

(* The gateway call, and the update that makes the transaction findable.   *)
CheckoutGateway(p) ==
  /\ checkout[p] = "gateway"
  /\ \/ payments' = [payments EXCEPT ![p] = "processing"] /\ NoFault
     \/ UNCHANGED payments /\ Fault
  /\ checkout' = [checkout EXCEPT ![p] = "done"]
  /\ UNCHANGED << store, now, bookings, cached, callVars, hook, revoked >>

(* Transactions the gateway knows, and so may report on.                   *)
HasTransaction(p) == payments[p] \in {"processing", "completed", "failed"}

(***************************************************************************)
(* handleWebhook                                                           *)
(***************************************************************************)
NoWork == [pc |-> "idle", payment |-> NoPayment]
HookGoesTo(w, pc) == hook' = [hook EXCEPT ![w].pc = pc]
HookEnds(w) == hook' = [hook EXCEPT ![w] = NoWork]
HookBooking(w) == PaidBooking[hook[w].payment]

(* Found by transaction id; a completed payment is answered at once.       *)
WebhookLookup(w, p, outcome) ==
  /\ hook[w].pc = "idle"
  /\ HasTransaction(p) /\ payments[p] # "completed"
  /\ hook' = [hook EXCEPT ![w] =
       [pc |-> IF outcome = "success" THEN "complete" ELSE "fail", payment |-> p]]
  /\ UNCHANGED << bookingState, payments, checkout >>

(* updateOne with status {$ne: 'completed'}.                               *)
AnyMatches(p) == TRUE
NotCompleted(p) == payments[p] # "completed"

WebhookComplete(w) ==
  LET p == hook[w].payment
  IN  /\ hook[w].pc = "complete"
      /\ \/ /\ NotCompleted(p)
            /\ payments' = [payments EXCEPT ![p] = "completed"]
            /\ HookGoesTo(w, "confirm")
         \/ /\ ~ NotCompleted(p)
            /\ UNCHANGED payments
            /\ HookEnds(w)
      /\ UNCHANGED << bookingState, checkout >>

WebhookFail(w) ==
  LET p == hook[w].payment
  IN  /\ hook[w].pc = "fail"
      /\ \/ /\ NotCompleted(p)
            /\ payments' = [payments EXCEPT ![p] = "failed"]
            /\ HookGoesTo(w, "load")
         \/ /\ ~ NotCompleted(p)
            /\ UNCHANGED payments
            /\ HookEnds(w)
      /\ UNCHANGED << bookingState, checkout >>

(* confirmSeatsAfterPayment: load, confirm script, save if it succeeded.   *)
(* handleWebhook ignores the result.  A document loaded as confirmed makes *)
(* no difference: the script then finds no held seat and fails.            *)
SettleAnyway(w, success, pc) == HookGoesTo(w, pc)
Settle(w, success, pc) == IF success THEN HookGoesTo(w, pc) ELSE HookEnds(w)

WebhookConfirm(w) ==
  LET b == HookBooking(w)
  IN  /\ hook[w].pc = "confirm"
      /\ \/ /\ ConfirmSeats(b, List(b)) /\ NoFault
            /\ Settle(w, ConfirmSucceeds(b, List(b)), "saveConfirmed")
         \/ /\ Fault /\ HookEnds(w)
            /\ ConfirmSeats(b, List(b)) \/ UNCHANGED << store, now >>
      /\ UNCHANGED << bookings, cached, callVars, payments, checkout, revoked >>

WebhookSaveConfirmed(w) ==
  /\ hook[w].pc = "saveConfirmed"
  /\ \/ SaveStatus(HookBooking(w), "confirmed") /\ NoFault
     \/ UNCHANGED bookings /\ Fault
  /\ HookEnds(w)
  /\ UNCHANGED << store, now, cached, callVars, payments, checkout, revoked >>

(* releaseSeatsAfterPaymentFailure: load, release script, save if it       *)
(* succeeded.  A document that was loaded as cancelled has no changed      *)
(* status to save.                                                         *)
WebhookLoad(w) ==
  /\ hook[w].pc = "load"
  /\ HookGoesTo(w, IF bookings[HookBooking(w)].status = "cancelled"
                   THEN "releaseOnly" ELSE "release")
  /\ UNCHANGED << bookingState, payments, checkout >>

WebhookRelease(w) ==
  LET b == HookBooking(w)
  IN  /\ hook[w].pc \in {"release", "releaseOnly"}
      /\ \/ /\ ReleaseSeats(b, List(b)) /\ NoFault
            /\ Settle(w, ReleaseSucceeds(b, List(b)) /\ hook[w].pc = "release", "saveCancelled")
         \/ /\ Fault /\ HookEnds(w)
            /\ ReleaseSeats(b, List(b)) \/ UNCHANGED << store, now >>
      /\ RecordRevoked
      /\ UNCHANGED << bookings, cached, callVars, payments, checkout >>

WebhookSaveCancelled(w) ==
  /\ hook[w].pc = "saveCancelled"
  /\ \/ SaveStatus(HookBooking(w), "cancelled") /\ NoFault
     \/ UNCHANGED bookings /\ Fault
  /\ HookEnds(w)
  /\ UNCHANGED << store, now, cached, callVars, payments, checkout, revoked >>

(***************************************************************************)
(* The system                                                              *)
(***************************************************************************)
SystemInit ==
  /\ BookingInit
  /\ payments = [p \in Payments |-> "none"]
  /\ checkout = [p \in Payments |-> "idle"]
  /\ hook = [w \in Handlers |-> NoWork]
  /\ revoked = {}

(* A restart forgets the payment requests and webhooks in progress too.    *)
SystemCrash ==
  /\ BookingCrash
  /\ checkout' = [p \in Payments |->
       IF checkout[p] \in {"create", "gateway"} THEN "done" ELSE checkout[p]]
  /\ hook' = [w \in Handlers |-> NoWork]
  /\ UNCHANGED << payments, revoked >>

(* What BookingService does on its own, seen from here.                    *)
HoldSeats(b) == HoldSeatsStep(b) /\ RecordRevoked /\ UNCHANGED paymentVars
ConfirmBooking(b) == ConfirmStep(b) /\ UNCHANGED << paymentVars, revoked >>
CancelBooking(b) == CancelStep(b) /\ RecordRevoked /\ UNCHANGED paymentVars
ReleaseExpiredHolds == CronStep /\ RecordRevoked /\ UNCHANGED paymentVars
ClockTicks == ClockStep /\ UNCHANGED << paymentVars, revoked >>

CheckoutStep(p) == CheckoutLookup(p) \/ CheckoutCreate(p) \/ CheckoutGateway(p)
WebhookStep(w) ==
  \/ \E p \in Payments, outcome \in GatewayOutcomes : WebhookLookup(w, p, outcome)
  \/ WebhookComplete(w) \/ WebhookFail(w)
  \/ WebhookConfirm(w) \/ WebhookSaveConfirmed(w)
  \/ WebhookLoad(w) \/ WebhookRelease(w) \/ WebhookSaveCancelled(w)

SystemDone ==
  /\ AllDone
  /\ \A p \in Payments : checkout[p] \in {"idle", "done"}
  /\ \A w \in Handlers : hook[w].pc = "idle"

SystemEnd == SystemDone /\ UNCHANGED systemVars

SystemNext ==
  \/ \E b \in Bookings : HoldSeats(b) \/ ConfirmBooking(b) \/ CancelBooking(b)
  \/ ReleaseExpiredHolds
  \/ ClockTicks
  \/ \E p \in Payments : CheckoutStep(p)
  \/ \E w \in Handlers : WebhookStep(w)
  \/ SystemCrash
  \/ SystemEnd

SystemSpec == SystemInit /\ [][SystemNext]_systemVars

(* Time passes, the cron scheduler runs its job, and a request that was    *)
(* accepted runs to its end.  Nobody is obliged to send a request, and the *)
(* gateway is not obliged to report.                                       *)
SystemFairness ==
  /\ WF_systemVars(ClockTicks)
  /\ WF_systemVars(ReleaseExpiredHolds)
  /\ \A b \in Bookings :
       /\ WF_systemVars(hold[b].pc # "idle" /\ HoldSeats(b))
       /\ WF_systemVars(confirm[b].pc # "idle" /\ ConfirmBooking(b))
       /\ WF_systemVars(cancel[b] # "idle" /\ CancelBooking(b))
  /\ \A p \in Payments : WF_systemVars(checkout[p] # "idle" /\ CheckoutStep(p))
  /\ \A w \in Handlers : WF_systemVars(hook[w].pc # "idle" /\ WebhookStep(w))
SystemFairSpec == SystemSpec /\ SystemFairness

(***************************************************************************)
(* Properties                                                              *)
(***************************************************************************)
SystemTypeOK ==
  /\ BookingTypeOK
  /\ payments \in [Payments -> {"none", "failed"} \cup ActiveStatus]
  /\ checkout \in [Payments -> {"idle", "create", "gateway", "done"}]
  /\ hook \in [Handlers -> [pc: {"idle", "complete", "fail", "confirm", "load", "release",
                                 "releaseOnly", "saveConfirmed", "saveCancelled"},
                            payment: Payments \cup {NoPayment}]]
  /\ revoked \subseteq Bookings

PaymentOf(b, status) == \E p \in Payments : PaidBooking[p] = b /\ payments[p] = status

(* A seat is booked, and a booking confirmed, only for money: the booking  *)
(* has a completed payment, and keeps it, whatever order the webhooks of   *)
(* its payments are delivered and handled in.                              *)
SoldIsPaid ==
  /\ \A s \in Seats : seats[s].status = "booked" => PaymentOf(seats[s].booking_id, "completed")
  /\ \A b \in Bookings : bookings[b].status = "confirmed" => PaymentOf(b, "completed")

(* However often the gateway delivers a webhook, the seats of a payment    *)
(* are confirmed by one handler: never do two handlers settle the same     *)
(* payment as paid.                                                        *)
Settling(p) == {w \in Handlers : hook[w].payment = p /\ hook[w].pc \in {"confirm", "saveConfirmed"}}
OneSettlementPerPayment ==
  \A p \in Payments : Cardinality(Settling(p)) <= 1 /\ (Settling(p) # {} => payments[p] = "completed")

(* A confirmed booking has its seats booked in Redis, unless a release     *)
(* took booked seats of that booking away: the release of a cancellation,  *)
(* of the cron job or of a failed payment that overlapped the              *)
(* confirmation is the only way to lose them.  So two confirmed bookings   *)
(* that lost nothing share no seat.                                        *)
OwnsAllBooked(b) == \A s \in Range(List(b)) : seats[s] = Booked(b)
ConfirmedOwnsItsSeats ==
  \A b \in Bookings \ revoked : bookings[b].status = "confirmed" => OwnsAllBooked(b)

(* Who pays in time is served: while a booking is pending, its hold has    *)
(* not run out, and nobody is between releasing its seats and writing its  *)
(* status, the confirm script would book every one of its seats, or        *)
(* another payment's handler has booked them and is about to save that.    *)
(* The list must name a seat once: release and confirm alike fail on one   *)
(* that repeats a seat, having done their work.                            *)
FailureUnsaved(b) == \E w \in Handlers : hook[w].pc = "saveCancelled" /\ HookBooking(w) = b
BeingSold(b) ==
  OwnsAllBooked(b) /\ \E w \in Handlers : hook[w].pc = "saveConfirmed" /\ HookBooking(w) = b
PendingCanBeSold ==
  \A b \in Bookings :
    /\ faults = 0 /\ IsInjective(List(b))
    /\ bookings[b].status = "pending"
    /\ bookings[b].hold_expires_at - MaxLatency > now
    /\ ~ ReleaseUnsaved(b) /\ ~ FailureUnsaved(b)
    => ConfirmSucceeds(b, List(b)) \/ BeingSold(b)

(* A booking that was given up comes back as confirmed only if a release   *)
(* took booked seats from it.                                              *)
ClosedStaysClosed ==
  [][\A b \in Bookings :
       /\ faults' = 0
       /\ bookings[b].status \in {"cancelled", "expired"}
       /\ bookings'[b].status = "confirmed"
       => b \in revoked]_systemVars

(* README.md: "Zero overbooking guaranteed".  No seat belongs to two       *)
(* confirmed bookings.                                                     *)
ZeroOverbooking ==
  \A b, o \in Bookings :
    b # o /\ bookings[b].status = "confirmed" /\ bookings[o].status = "confirmed"
      => Range(List(b)) \cap Range(List(o)) = {}

(* README.md: "Safe retries, no duplicate charges".  A booking is paid at  *)
(* most once.                                                              *)
NoDuplicateCharge ==
  \A p, q \in Payments :
    p # q /\ PaidBooking[p] = PaidBooking[q] => ~ (payments[p] = "completed" /\ payments[q] = "completed")

(* seat-reservation.service.ts: "booked: Seat is permanently booked after  *)
(* successful payment".  No booked seat of a booking is ever taken back.   *)
BookedForGood == revoked = {}
================================================================================
