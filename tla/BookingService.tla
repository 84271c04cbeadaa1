----------------------------- MODULE BookingService -----------------------------
(***************************************************************************)
(* BookingService: seats are claimed in Redis, bookings are documents in   *)
(* MongoDB, and nothing makes the two writes one transaction.  Every       *)
(* request and the cron job is a process that can be overtaken at each     *)
(* await, so an operation is as many actions as it has awaits whose order  *)
(* with other processes matters.                                           *)
(*                                                                         *)
(* A booking b of this module is one call of holdSeats: the ObjectId it    *)
(* generates, and the document it creates under it.  Its seats and its     *)
(* idempotency key never change.                                           *)
(***************************************************************************)
EXTENDS SeatReservation

CONSTANTS
  RequestedSeats,  \* booking -> the seat list of the request
  KeyOf,           \* booking -> the idempotency key of the request
  Cancellable,     \* bookings whose users may ask to cancel
  Confirming,      \* bookings whose users may ask to confirm
  HoldSeconds,     \* HOLD_DURATION_SECONDS, 600 in the code
  CacheSeconds,    \* how long confirmBooking caches its answer, 3600 in the code
  Skew,            \* application clock - Redis clock
  MaxLatency,      \* bound on the seconds a call takes to reach Redis
  MaxFaults        \* bound on lost replies, failed writes and crashes

ASSUME RequestsAssumption ==
  /\ RequestedSeats \in [Bookings -> SeatLists]
  /\ DOMAIN KeyOf = Bookings
  /\ Cancellable \subseteq Bookings
  /\ Confirming \subseteq Bookings

ASSUME ClockAssumption ==
  /\ HoldSeconds \in Nat \ {0}
  /\ CacheSeconds \in Nat
  /\ Skew \in Int
  /\ MaxLatency \in Nat
  /\ MaxFaults \in Nat

(* The store is sent what the application's clock makes of HoldSeconds, up *)
(* to MaxLatency seconds late: offsets that SeatReservation allows for.    *)
ASSUME OffsetsAssumption ==
  \A late \in 0..MaxLatency : HoldSeconds + Skew - late \in HoldOffsets

VARIABLES
  bookings,  \* the bookings collection; status "none" is no document
  cached,    \* keys with an entry idempotency:hold:{key} in Redis
  hold,      \* where the holdSeats call of each booking is, the deadline it computed
  confirm,   \* where the confirmBooking call of each booking is, when it must have cached
  offers,    \* when the entry idempotency:confirm:{key} of each booking lapses
  cancel,    \* where the cancelBooking call of each booking is
  cron,      \* releaseExpiredHolds: the documents found, the one being saved
  faults     \* faults so far

confirmVars == << confirm, offers >>
callVars == << hold, confirmVars, cancel, cron >>
bookingVars == << seats, available, now, bookings, cached, callVars, faults >>

AppNow == now + Skew
List(b) == RequestedSeats[b]

(* A call of Redis or MongoDB throws.  executeScript throws after the      *)
(* script ran when its reply, or the reload after NOSCRIPT, is lost.       *)
Fault == faults < MaxFaults /\ faults' = faults + 1
NoFault == UNCHANGED faults

(* The unique index on idempotency_key.                                    *)
KeyAlwaysFree(b) == TRUE
KeyFree(b) == \A o \in Bookings : KeyOf[o] = KeyOf[b] => bookings[o].status = "none"

(* save() of a loaded document writes the paths that were assigned, by     *)
(* _id, whatever the document has become since.                            *)
SaveWholeDocument(b, status) == bookings' = [bookings EXCEPT ![b] = [status |-> status]]
SaveStatus(b, status) == bookings' = [bookings EXCEPT ![b].status = status]

(***************************************************************************)
(* holdSeats.  A request that validation refuses (unknown or past          *)
(* showtime, unknown seat) changes nothing and is one that never starts.   *)
(***************************************************************************)
HoldAt(pc, deadline) == [pc |-> pc, deadline |-> deadline]
HoldWith(b, pc, deadline) == hold' = [hold EXCEPT ![b] = HoldAt(pc, deadline)]
HoldGoesTo(b, pc) == HoldWith(b, pc, 0)

(* Cache, then MongoDB: a known key is answered with the earlier booking.  *)
(* Otherwise the call to Redis leaves with the deadline of the hold.  Only *)
(* requests whose hold runs out within the modelled time are sent.         *)
HoldLookup(b) ==
  /\ hold[b].pc = "idle"
  /\ now + MaxLatency + HoldSeconds < MaxTime
  /\ IF KeyOf[b] \in cached \/ ~ KeyFree(b)
     THEN HoldGoesTo(b, "answered")
     ELSE HoldWith(b, "reserve", AppNow + HoldSeconds)
  /\ UNCHANGED << store, now, bookings, cached, confirmVars, cancel, cron, faults >>

(* The reserve script.  The document's deadline is computed afresh when    *)
(* the reply arrives; a lost reply is reported as a failure.               *)
HoldReserve(b) ==
  /\ hold[b].pc = "reserve"
  /\ \/ /\ BatchReserve(b, List(b), hold[b].deadline)
        /\ \/ HoldWith(b, "create", AppNow + HoldSeconds) /\ NoFault
           \/ HoldGoesTo(b, "refused") /\ Fault
     \/ /\ ~ CanReserve(List(b))
        /\ HoldGoesTo(b, "refused") /\ NoFault
        /\ UNCHANGED << store, now >>
  /\ UNCHANGED << bookings, cached, confirmVars, cancel, cron >>

(* bookingModel.create, which the unique index on the key may refuse.      *)
HoldCreate(b) ==
  /\ hold[b].pc = "create"
  /\ \/ /\ KeyFree(b)
        /\ bookings' = [bookings EXCEPT ![b] =
             [status |-> "pending", hold_expires_at |-> hold[b].deadline]]
        /\ HoldGoesTo(b, "cache") /\ NoFault
     \/ /\ ~ KeyFree(b)
        /\ HoldGoesTo(b, "rollback") /\ NoFault
        /\ UNCHANGED bookings
     \/ /\ HoldGoesTo(b, "rollback") /\ Fault
        /\ UNCHANGED bookings
  /\ UNCHANGED << store, now, cached, confirmVars, cancel, cron >>

(* The cache write is inside the try block: its failure, too, rolls the    *)
(* seats back, and the document stays.                                     *)
HoldCache(b) ==
  /\ hold[b].pc = "cache"
  /\ \/ /\ cached' = cached \cup {KeyOf[b]}
        /\ HoldGoesTo(b, "held") /\ NoFault
     \/ /\ UNCHANGED cached
        /\ HoldGoesTo(b, "rollback") /\ Fault
  /\ UNCHANGED << store, now, bookings, confirmVars, cancel, cron >>

(* releaseSeats as the callers that ignore its result see it: the script   *)
(* runs, or an error is logged and nothing is released.                    *)
ReleaseForgotten(b) == UNCHANGED << store, now, faults >>
ReleaseOrError(b) ==
  \/ ReleaseSeats(b, List(b)) /\ NoFault
  \/ UNCHANGED << store, now >> /\ Fault

HoldRollback(b) ==
  /\ hold[b].pc = "rollback"
  /\ ReleaseOrError(b)
  /\ HoldGoesTo(b, "refused")
  /\ UNCHANGED << bookings, cached, confirmVars, cancel, cron >>

(* A client learns a booking's id from the reply to its request, or to a   *)
(* retry of it.                                                            *)
Answered(b) ==
  \/ hold[b].pc = "held"
  \/ \E o \in Bookings : KeyOf[o] = KeyOf[b] /\ hold[o].pc = "answered"

(***************************************************************************)
(* confirmBooking hands out a payment URL and caches it under the key of   *)
(* the request, one key for each booking.  A cached answer is given again  *)
(* without a look at the booking.                                          *)
(***************************************************************************)
ConfirmAt(pc, latest) == [pc |-> pc, latest |-> latest]

ConfirmLookup(b) ==
  /\ b \in Confirming /\ Answered(b)
  /\ confirm[b].pc = "idle" /\ offers[b] <= now
  /\ bookings[b].status = "pending" /\ bookings[b].hold_expires_at >= AppNow
  /\ confirm' = [confirm EXCEPT ![b] = ConfirmAt("cache", now + MaxLatency)]
  /\ UNCHANGED << store, now, bookings, cached, hold, offers, cancel, cron, faults >>

ConfirmCache(b) ==
  /\ confirm[b].pc = "cache"
  /\ \/ offers' = [offers EXCEPT ![b] = now + CacheSeconds] /\ NoFault
     \/ UNCHANGED offers /\ Fault
  /\ confirm' = [confirm EXCEPT ![b] = ConfirmAt("idle", 0)]
  /\ UNCHANGED << store, now, bookings, cached, hold, cancel, cron >>

(* Reading the entry does not prolong it.                                  *)
ReplayProlongs(b) == now + CacheSeconds
ReplayKeeps(b) == offers[b]

ConfirmReplay(b) ==
  /\ confirm[b].pc = "idle" /\ offers[b] > now
  /\ offers' = [offers EXCEPT ![b] = ReplayKeeps(b)]
  /\ UNCHANGED << store, now, bookings, cached, hold, confirm, cancel, cron, faults >>

(***************************************************************************)
(* cancelBooking: the status is checked on the document that was loaded,   *)
(* then the seats are released, then the loaded document is saved.         *)
(***************************************************************************)
CancelGoesTo(b, pc) == cancel' = [cancel EXCEPT ![b] = pc]

CancelLookup(b) ==
  /\ b \in Cancellable /\ Answered(b)
  /\ cancel[b] = "idle"
  /\ bookings[b].status = "pending"
  /\ CancelGoesTo(b, "release")
  /\ UNCHANGED << store, now, bookings, cached, hold, confirmVars, cron, faults >>

CancelRelease(b) ==
  /\ cancel[b] = "release"
  /\ ReleaseOrError(b)
  /\ CancelGoesTo(b, "save")
  /\ UNCHANGED << bookings, cached, hold, confirmVars, cron >>

CancelSave(b) ==
  /\ cancel[b] = "save"
  /\ \/ SaveStatus(b, "cancelled") /\ NoFault
     \/ UNCHANGED bookings /\ Fault
  /\ CancelGoesTo(b, "idle")
  /\ UNCHANGED << store, now, cached, hold, confirmVars, cron >>

(***************************************************************************)
(* releaseExpiredHolds, every minute: one query, then the documents it     *)
(* returned one after another, released and saved as they were loaded.     *)
(***************************************************************************)
CronIdle == [queue |-> {}, saving |-> NoBooking]

OverdueBackwards(b) == bookings[b].status = "pending" /\ bookings[b].hold_expires_at > AppNow
Overdue(b) == bookings[b].status = "pending" /\ bookings[b].hold_expires_at < AppNow

CronFind ==
  /\ cron = CronIdle
  /\ \E b \in Bookings : Overdue(b)
  /\ cron' = [cron EXCEPT !.queue = {b \in Bookings : Overdue(b)}]
  /\ UNCHANGED << store, now, bookings, cached, hold, confirmVars, cancel, faults >>

CronRelease(b) ==
  /\ b \in cron.queue /\ cron.saving = NoBooking
  /\ ReleaseOrError(b)
  /\ cron' = [queue |-> cron.queue \ {b}, saving |-> b]
  /\ UNCHANGED << bookings, cached, hold, confirmVars, cancel >>

(* A save that throws is logged; the job goes on with the next document.   *)
CronSave ==
  /\ cron.saving # NoBooking
  /\ \/ SaveStatus(cron.saving, "expired") /\ NoFault
     \/ UNCHANGED bookings /\ Fault
  /\ cron' = [cron EXCEPT !.saving = NoBooking]
  /\ UNCHANGED << store, now, cached, hold, confirmVars, cancel >>

(***************************************************************************)
(* The server stops and starts again: what it was doing is forgotten, what *)
(* Redis and MongoDB hold stays.                                           *)
(***************************************************************************)
InProgress(b) == hold[b].pc \in {"reserve", "create", "cache", "rollback"}

BookingCrash ==
  /\ Fault
  /\ hold' = [b \in Bookings |->
       IF InProgress(b) THEN HoldAt("lost", 0) ELSE hold[b]]
  /\ confirm' = [b \in Bookings |-> ConfirmAt("idle", 0)]
  /\ cancel' = [b \in Bookings |-> "idle"]
  /\ cron' = CronIdle
  /\ UNCHANGED << store, now, bookings, cached, offers >>

(***************************************************************************)
(* The service alone, on an initialised showtime.                          *)
(***************************************************************************)
BookingInit ==
  /\ Init
  /\ bookings = [b \in Bookings |-> [status |-> "none", hold_expires_at |-> 0]]
  /\ cached = {}
  /\ hold = [b \in Bookings |-> HoldAt("idle", 0)]
  /\ confirm = [b \in Bookings |-> ConfirmAt("idle", 0)]
  /\ offers = [b \in Bookings |-> 0]
  /\ cancel = [b \in Bookings |-> "idle"]
  /\ cron = CronIdle
  /\ faults = 0

HoldSeatsStep(b) ==
  HoldLookup(b) \/ HoldReserve(b) \/ HoldCreate(b) \/ HoldCache(b) \/ HoldRollback(b)
ConfirmStep(b) == ConfirmLookup(b) \/ ConfirmCache(b) \/ ConfirmReplay(b)
CancelStep(b) == CancelLookup(b) \/ CancelRelease(b) \/ CancelSave(b)
CronStep == CronFind \/ CronSave \/ \E b \in Bookings : CronRelease(b)

(* The clock waits for a call of Redis that has taken MaxLatency seconds.  *)
ClockStep ==
  /\ \A b \in Bookings :
       /\ hold[b].pc = "reserve" => AppNow + HoldSeconds < hold[b].deadline + MaxLatency
       /\ confirm[b].pc = "cache" => now < confirm[b].latest
  /\ Tick
  /\ UNCHANGED << bookings, cached, callVars, faults >>

BookingStep ==
  \/ \E b \in Bookings : HoldSeatsStep(b) \/ ConfirmStep(b) \/ CancelStep(b)
  \/ CronStep
  \/ ClockStep

(* The modelled time is over and every process has ended.                  *)
AllDone ==
  /\ now = MaxTime
  /\ cron = CronIdle
  /\ \A b \in Bookings : ~ InProgress(b) /\ confirm[b].pc = "idle" /\ cancel[b] = "idle"
BookingEnd == AllDone /\ UNCHANGED bookingVars

BookingNext == BookingStep \/ BookingCrash \/ BookingEnd

BookingSpec == BookingInit /\ [][BookingNext]_bookingVars

(* Time passes, the cron scheduler runs its job, and a request that was    *)
(* accepted runs to its end; nobody is obliged to send a request.          *)
BookingFairness ==
  /\ WF_bookingVars(ClockStep)
  /\ WF_bookingVars(CronStep)
  /\ \A b \in Bookings : WF_bookingVars(hold[b].pc # "idle" /\ HoldSeatsStep(b))
BookingFairSpec == BookingSpec /\ BookingFairness

(***************************************************************************)
(* Properties                                                              *)
(***************************************************************************)
BookingTypeOK ==
  /\ TypeOK
  /\ bookings \in [Bookings -> [status: {"none", "pending", "confirmed", "cancelled", "expired"},
                                hold_expires_at: Int]]
  /\ cached \subseteq Range(KeyOf)
  /\ hold \in [Bookings -> [pc: {"idle", "answered", "reserve", "create", "cache", "rollback",
                                 "held", "refused", "lost"},
                            deadline: Int]]
  /\ confirm \in [Bookings -> [pc: {"idle", "cache"}, latest: Nat]]
  /\ offers \in [Bookings -> Nat]
  /\ cancel \in [Bookings -> {"idle", "release", "save"}]
  /\ cron \in [queue: SUBSET Bookings, saving: Bookings \cup {NoBooking}]
  /\ faults \in 0..MaxFaults

OwnsSeat(b, s) == seats[s].booking_id = b
OwnsAll(b) == \A s \in Range(List(b)) : OwnsSeat(b, s)

(* A request that ends in an error leaves no seat behind: the loser of two *)
(* requests with one idempotency key gives its reservation back, and a     *)
(* refused reservation took nothing.                                       *)
RefusedOwnsNothing ==
  \A b \in Bookings :
    faults = 0 /\ hold[b].pc \in {"refused", "answered"} => \A s \in Seats : ~ OwnsSeat(b, s)

(* Retries of holdSeats with one idempotency key, however they overlap,    *)
(* end with the seats of at most one booking in Redis once no such call is *)
(* in progress, and with at most one document in MongoDB.                  *)
OneClaimPerKey ==
  \A b, o \in Bookings :
    b # o /\ KeyOf[b] = KeyOf[o] =>
      /\ bookings[b].status = "none" \/ bookings[o].status = "none"
      /\ (faults = 0 /\ ~ InProgress(b) /\ ~ InProgress(o)) =>
           ~ \E s, t \in Seats : OwnsSeat(b, s) /\ OwnsSeat(o, t)

(* MongoDB and Redis agree on a live pending booking: while the document   *)
(* says pending, its hold has not run out, and no process is between       *)
(* releasing its seats and writing its status, Redis has every seat of it  *)
(* in its name.  "Not run out" is by the Redis clock, and short of the     *)
(* document's deadline by what the reserve call took: Redis was sent a     *)
(* deadline computed before the call, the document has one computed after. *)
ReleaseUnsaved(b) == cancel[b] = "save" \/ cron.saving = b
PendingOwnsItsSeats ==
  \A b \in Bookings :
    /\ faults = 0
    /\ bookings[b].status = "pending"
    /\ bookings[b].hold_expires_at - MaxLatency > now
    /\ ~ ReleaseUnsaved(b)
    => OwnsAll(b)

(* A booking that was given up leaves no seat behind, booked or held,      *)
(* whichever of a cancellation, the cron job, a failed payment and a       *)
(* confirmation overlapped in it.                                          *)
ClosedOwnsNothing ==
  \A b \in Bookings :
    faults = 0 /\ bookings[b].status \in {"cancelled", "expired"} => \A s \in Seats : ~ OwnsSeat(b, s)

(* A payment URL is handed out on the word of a booking that could still   *)
(* be paid: however often it is asked for, through lost replies and        *)
(* restarts, the cached answer is gone CacheSeconds, and a call's latency, *)
(* after the hold has run out.                                             *)
OffersLapse ==
  \A b \in Bookings :
    offers[b] # 0 => offers[b] <= bookings[b].hold_expires_at - Skew + MaxLatency + CacheSeconds

(* A pending booking does not stay pending: it is cancelled, or the cron   *)
(* job expires it, through failed saves and restarts.                      *)
PendingEnds ==
  \A b \in Bookings : bookings[b].status = "pending" ~> bookings[b].status # "pending"

(* README.md: "Expired holds automatically released".  No hold stays in    *)
(* the hash for ever.                                                      *)
ExpiredHoldsReleased ==
  \A s \in Seats, b \in Bookings :
    (seats[s].status = "held" /\ seats[s].booking_id = b)
      ~> ~ (seats[s].status = "held" /\ seats[s].booking_id = b)
================================================================================
