--------------------------- MODULE PaymentService_proof ---------------------------
(***************************************************************************)
(* Theorems about the whole system: bookings, payments, the gateway's      *)
(* webhooks and restarts, for every set of requests and of handlers.       *)
(***************************************************************************)
EXTENDS PaymentService, BookingService_proof

(***************************************************************************)
(* The inductive invariant                                                 *)
(***************************************************************************)
PaymentTypes ==
  /\ payments \in [Payments -> {"none", "failed"} \cup ActiveStatus]
  /\ checkout \in [Payments -> {"idle", "create", "gateway", "done"}]
  /\ hook \in [Handlers -> [pc: {"idle", "complete", "fail", "confirm", "load", "release",
                                 "releaseOnly", "saveConfirmed", "saveCancelled"},
                            payment: Payments \cup {NoPayment}]]
  /\ revoked \subseteq Bookings

(* A payment document belongs to a request that found a booking, and has   *)
(* a transaction only once that request asked the gateway for it.          *)
CheckoutProgress(p) ==
  /\ checkout[p] \in {"idle", "create"} => payments[p] = "none"
  /\ checkout[p] = "gateway" => payments[p] = "pending"
  /\ checkout[p] # "idle" => Document(PaidBooking[p])

(* A handler works on a payment the gateway knows.                         *)
HookProgress(w) ==
  hook[w].pc # "idle" => hook[w].payment \in Payments /\ HasTransaction(hook[w].payment)

(* Two handlers never settle one payment: the first has completed it.      *)
Settles(w) == hook[w].pc \in {"confirm", "saveConfirmed"}
SettlesAlone(w) ==
  Settles(w) =>
    /\ payments[hook[w].payment] = "completed"
    /\ \A v \in Handlers \ {w} : Settles(v) => hook[v].payment # hook[w].payment

(* What a handler is about to save is what the script has done, and a      *)
(* booking that was loaded as cancelled has nothing left to release.       *)
SavesTheTruth(w) ==
  /\ hook[w].pc = "saveConfirmed" /\ HookBooking(w) \notin revoked => OwnsAllBooked(HookBooking(w))
  /\ hook[w].pc \in {"saveCancelled", "releaseOnly"} /\ faults = 0 => Gone(HookBooking(w))

HookInv(w) == HookProgress(w) /\ SettlesAlone(w) /\ SavesTheTruth(w)
PaymentInv ==
  /\ BookingInv /\ PaymentTypes
  /\ \A p \in Payments : CheckoutProgress(p)
  /\ \A w \in Handlers : HookInv(w)
  /\ SoldIsPaid
  /\ ConfirmedOwnsItsSeats

(***************************************************************************)
(* What the booking service does, seen from the payments                   *)
(***************************************************************************)

(* A seat that is booked for b and stays out of revoked stays booked for b.*)
BookedStays ==
  \A s \in Seats, b \in Bookings : seats[s] = Booked(b) /\ b \notin revoked' => seats'[s] = Booked(b)

(* revoked, the record of bookings whose booked seats were released,       *)
(* misses none.                                                            *)
LEMMA RecordKeeps ==
  ASSUME RecordRevoked \/ UNCHANGED << store, revoked >>
  PROVE  BookedStays /\ revoked \subseteq revoked' /\ (revoked \subseteq Bookings => revoked' \subseteq Bookings)
BY DEF RecordRevoked, BookedStays, store

(* Only a payment books a seat or makes a booking confirmed.               *)
NoneSold ==
  /\ \A s \in Seats : seats'[s].status = "booked" => seats'[s] = seats[s]
  /\ \A b \in Bookings : bookings'[b].status = "confirmed" => bookings[b].status = "confirmed"
(* A booking that has a document keeps it, and gains no seats.             *)
DocumentsSettled ==
  \A b \in Bookings : Document(b) => Document(b)' /\ NoneGained(b)

(* release-seats.lua books no seat, and changes none that stays booked.    *)
LEMMA ReleaseSellsNothing ==
  ASSUME NEW b, NEW l, ReleaseSeats(b, l)
  PROVE  \A s \in Seats : seats'[s].status = "booked" => seats'[s] = seats[s]
BY DEF ReleaseSeats, Free, Seat

(* No step of the booking service sells: only webhooks do. Nor does one    *)
(* take the document from a booking, or give seats to one that has its     *)
(* document.                                                               *)
LEMMA BookingEffects ==
  ASSUME BookingInv, BookingStep \/ BookingCrash
  PROVE  /\ NoneSold
         /\ DocumentsSettled
         /\ faults' = 0 => faults = 0
<1> USE DEF BookingInv, CallInv, SeatInv
<1>1. ASSUME NEW b \in Bookings, HoldSeatsStep(b)
      PROVE  NoneSold /\ DocumentsSettled /\ (faults' = 0 => faults = 0)
  <2>1. CASE HoldReserve(b)
    <3>1. Fault \/ NoFault BY <2>1 DEF HoldReserve
    <3>2. ~ Document(b) BY <2>1 DEF HoldReserve, HoldInv, HoldProgress
    <3>3. \A s \in Seats : seats'[s] = seats[s] \/ seats'[s] = Held(b, hold[b].deadline)
      BY <2>1 DEF HoldReserve, BatchReserve, store
    <3>4. UNCHANGED bookings BY <2>1 DEF HoldReserve
    <3>5. QED BY <3>1, <3>2, <3>3, <3>4, FaultsGrow
              DEF NoneSold, DocumentsSettled, Document, NoneGained, OwnsSeat, Held, Seat
  <2>2. CASE HoldRollback(b)
    <3>1. ReleaseOrError(b) /\ UNCHANGED bookings BY <2>2 DEF HoldRollback
    <3>2. \A s \in Seats : seats'[s].status = "booked" => seats'[s] = seats[s]
      BY <3>1, ReleaseSellsNothing DEF ReleaseOrError, store
    <3>3. QED BY <3>1, <3>2, ReleaseOutcome DEF NoneSold, DocumentsSettled, Document
  <2>3. CASE HoldLookup(b) \/ HoldCreate(b) \/ HoldCache(b)
    <3>1. /\ UNCHANGED store /\ (Fault \/ NoFault)
          /\ \A o \in Bookings : bookings'[o] = bookings[o] \/ bookings'[o].status = "pending"
      BY <2>3 DEF HoldLookup, HoldCreate, HoldCache, BookingTypeOK, NoFault
    <3>2. QED BY <3>1, FaultsGrow
              DEF NoneSold, DocumentsSettled, Document, NoneGained, OwnsSeat, store
  <2>4. QED BY <1>1, <2>1, <2>2, <2>3 DEF HoldSeatsStep
<1>2. ASSUME NEW b \in Bookings, ConfirmStep(b)
      PROVE  NoneSold /\ DocumentsSettled /\ (faults' = 0 => faults = 0)
  <2>1. UNCHANGED << store, bookings >> /\ (Fault \/ NoFault)
    BY <1>2 DEF ConfirmStep, ConfirmLookup, ConfirmCache, ConfirmReplay, NoFault
  <2>2. QED BY <2>1, FaultsGrow DEF NoneSold, DocumentsSettled, Document, NoneGained, OwnsSeat, store
<1>3. ASSUME NEW b \in Bookings,
             \/ ReleaseOrError(b) /\ UNCHANGED bookings
             \/ /\ UNCHANGED store /\ (Fault \/ NoFault)
                /\ UNCHANGED bookings \/ \E status \in {"cancelled", "expired"} : SaveStatus(b, status)
      PROVE  NoneSold /\ DocumentsSettled /\ (faults' = 0 => faults = 0)
  <2>1. CASE ReleaseOrError(b) /\ UNCHANGED bookings
    <3>1. \A s \in Seats : seats'[s].status = "booked" => seats'[s] = seats[s]
      BY <2>1, ReleaseSellsNothing DEF ReleaseOrError, store
    <3>2. QED BY <2>1, <3>1, ReleaseOutcome DEF NoneSold, DocumentsSettled, Document
  <2>2. CASE UNCHANGED store /\ (Fault \/ NoFault)
    <3>1. \A o \in Bookings : \/ bookings'[o] = bookings[o]
                              \/ bookings'[o].status \in {"cancelled", "expired"}
      BY <1>3, <2>1, <2>2 DEF SaveStatus, BookingTypeOK
    <3>2. QED BY <2>2, <3>1, FaultsGrow
              DEF NoneSold, DocumentsSettled, Document, NoneGained, OwnsSeat, store
  <2>3. QED BY <1>3, <2>1, <2>2
<1>4. ASSUME NEW b \in Bookings, CancelStep(b)
      PROVE  NoneSold /\ DocumentsSettled /\ (faults' = 0 => faults = 0)
  BY <1>3, <1>4 DEF CancelStep, CancelLookup, CancelRelease, CancelSave, NoFault
<1>5. CASE CronStep
  <2>1. cron.saving # NoBooking => cron.saving \in Bookings BY DEF BookingTypeOK
  <2>2. CASE CronSave BY <1>3, <2>1, <2>2 DEF CronSave
  <2>3. CASE \E b \in Bookings : CronRelease(b) BY <1>3, <2>3 DEF CronRelease
  <2>4. CASE CronFind
    <3>1. UNCHANGED << store, bookings, faults >> BY <2>4 DEF CronFind
    <3>2. QED BY <3>1 DEF NoneSold, DocumentsSettled, Document, NoneGained, OwnsSeat, store
  <2>5. QED BY <1>5, <2>2, <2>3, <2>4 DEF CronStep
<1>6. CASE ClockStep \/ BookingCrash
  <2>1. UNCHANGED << store, bookings >> /\ (Fault \/ NoFault)
    BY <1>6 DEF ClockStep, Tick, BookingCrash, NoFault
  <2>2. QED BY <2>1, FaultsGrow DEF NoneSold, DocumentsSettled, Document, NoneGained, OwnsSeat, store
<1>7. QED BY <1>1, <1>2, <1>4, <1>5, <1>6 DEF BookingStep

(* A step that neither sells nor completes anything leaves what was sold   *)
(* paid for, and in the hands of who paid.                                 *)
LEMMA SoldKept ==
  ASSUME SoldIsPaid, NoneSold, PaymentTypes,
         \A p \in Payments : payments[p] = "completed" => payments'[p] = "completed"
  PROVE  SoldIsPaid'
BY DEF SoldIsPaid, NoneSold, PaymentOf

(* A confirmed booking keeps its seats through every step that sells       *)
(* nothing, unless the step revokes them.                                  *)
LEMMA ConfirmedKept ==
  ASSUME ConfirmedOwnsItsSeats, NoneSold, BookedStays, revoked \subseteq revoked'
  PROVE  ConfirmedOwnsItsSeats'
<1>1. SUFFICES ASSUME NEW b \in Bookings, b \notin revoked', bookings'[b].status = "confirmed",
                      NEW s \in Range(List(b))
               PROVE  seats'[s] = Booked(b)
  BY DEF ConfirmedOwnsItsSeats, OwnsAllBooked, List, Booked, Seat
<1>2. s \in Seats BY <1>1, Lists
<1>3. seats[s] = Booked(b) BY <1>1 DEF ConfirmedOwnsItsSeats, OwnsAllBooked, NoneSold
<1>4. QED BY <1>1, <1>2, <1>3 DEF BookedStays

(* What a handler is about to save stays true.                             *)
LEMMA TruthKept ==
  ASSUME BookingInv, PaymentTypes, NEW w \in Handlers, HookInv(w),
         \A p \in Payments : CheckoutProgress(p),
         UNCHANGED hook[w], DocumentsSettled, BookedStays, revoked \subseteq revoked',
         faults' = 0 => faults = 0
  PROVE  SavesTheTruth(w)'
<1>1. SUFFICES ASSUME hook[w].pc # "idle" PROVE SavesTheTruth(w)' BY DEF SavesTheTruth
<1>2. HookBooking(w) \in Bookings /\ Document(HookBooking(w))
  BY <1>1, PaymentsAssumption DEF HookInv, HookProgress, HasTransaction, HookBooking, CheckoutProgress
<1>3. HookBooking(w)' = HookBooking(w) BY DEF HookBooking
<1>4. hook[w].pc \in {"saveCancelled", "releaseOnly"} /\ faults' = 0 => Gone(HookBooking(w))'
  BY <1>2, <1>3 DEF HookInv, SavesTheTruth, DocumentsSettled, NoneGained, Gone, OwnsSeat
<1>5. ASSUME hook[w].pc = "saveConfirmed", HookBooking(w) \notin revoked'
      PROVE  OwnsAllBooked(HookBooking(w))'
  <2>1. OwnsAllBooked(HookBooking(w)) BY <1>5 DEF HookInv, SavesTheTruth
  <2>2. Range(List(HookBooking(w))) \subseteq Seats BY <1>2, Lists
  <2>3. QED BY <1>2, <1>3, <1>5, <2>1, <2>2 DEF OwnsAllBooked, BookedStays, List, Booked, Seat
<1>6. QED BY <1>3, <1>4, <1>5 DEF SavesTheTruth

(* Steps that leave the payments and the handlers alone.                   *)
LEMMA PaymentBystander ==
  ASSUME PaymentInv, BookingInv', NoneSold, DocumentsSettled, faults' = 0 => faults = 0,
         RecordRevoked \/ UNCHANGED << store, revoked >>, UNCHANGED paymentVars
  PROVE  PaymentInv'
<1> USE DEF PaymentInv, paymentVars
<1>1. BookedStays /\ revoked \subseteq revoked' /\ revoked' \subseteq Bookings
  BY RecordKeeps DEF PaymentTypes
<1>2. PaymentTypes' BY <1>1 DEF PaymentTypes
<1>3. \A p \in Payments : CheckoutProgress(p)'
  BY PaymentsAssumption DEF CheckoutProgress, DocumentsSettled
<1>4. ASSUME NEW w \in Handlers PROVE HookInv(w)'
  <2>1. HookProgress(w)' /\ SettlesAlone(w)'
    BY DEF HookInv, HookProgress, HasTransaction, SettlesAlone, Settles
  <2>2. SavesTheTruth(w)' BY <1>1, TruthKept
  <2>3. QED BY <2>1, <2>2 DEF HookInv
<1>5. SoldIsPaid' BY SoldKept
<1>6. ConfirmedOwnsItsSeats' BY <1>1, ConfirmedKept
<1>7. QED BY <1>2, <1>3, <1>4, <1>5, <1>6

(* The steps of the booking service keep the invariant of the whole        *)
(* system.                                                                 *)
LEMMA PaymentBookingStep ==
  ASSUME PaymentInv,
         \/ \E b \in Bookings : HoldSeats(b) \/ ConfirmBooking(b) \/ CancelBooking(b)
         \/ ReleaseExpiredHolds
         \/ ClockTicks
  PROVE  PaymentInv'
<1>1. BookingStep
  BY DEF HoldSeats, ConfirmBooking, CancelBooking, ReleaseExpiredHolds, ClockTicks, BookingStep
<1>2. UNCHANGED paymentVars /\ (RecordRevoked \/ UNCHANGED << store, revoked >>)
  BY DEF HoldSeats, ConfirmBooking, CancelBooking, ReleaseExpiredHolds, ClockTicks, ConfirmStep,
         ConfirmLookup, ConfirmCache, ConfirmReplay, ClockStep, Tick
<1>3. BookingInv' BY <1>1, BookingInvStep DEF PaymentInv
<1>4. QED BY <1>1, <1>2, <1>3, BookingEffects, PaymentBystander DEF PaymentInv

(* A restart drops the payment requests and the webhooks in progress.      *)
LEMMA PaymentCrash ==
  ASSUME PaymentInv, SystemCrash
  PROVE  PaymentInv'
<1> USE DEF PaymentInv
<1>1. BookingCrash /\ UNCHANGED << payments, revoked, store >> BY DEF SystemCrash, BookingCrash
<1>2. BookingInv' /\ NoneSold /\ DocumentsSettled BY <1>1, BookingInvStep, BookingEffects
<1>3. BookedStays BY <1>1, RecordKeeps
<1>4. PaymentTypes' BY <1>1 DEF PaymentTypes, SystemCrash, NoWork
<1>5. \A p \in Payments : CheckoutProgress(p)'
  BY <1>1, <1>2, PaymentsAssumption DEF CheckoutProgress, SystemCrash, DocumentsSettled, PaymentTypes
<1>6. \A w \in Handlers : HookInv(w)'
  BY DEF HookInv, HookProgress, SettlesAlone, Settles, SavesTheTruth, SystemCrash, NoWork
<1>7. SoldIsPaid' BY <1>1, <1>2, SoldKept
<1>8. ConfirmedOwnsItsSeats' BY <1>1, <1>2, <1>3, ConfirmedKept
<1>9. QED BY <1>2, <1>4, <1>5, <1>6, <1>7, <1>8

(***************************************************************************)
(* createPayment                                                           *)
(***************************************************************************)
(* Where bookings and seats stay as they are, so does what is known of     *)
(* them.                                                                   *)
LEMMA AloneKeeps ==
  ASSUME BookingInv, UNCHANGED << store, now, bookings, cached, callVars >>, Fault \/ NoFault
  PROVE  BookingInv' /\ NoneSold /\ DocumentsSettled
<1> USE DEF BookingInv, callVars, confirmVars, store, NoneGained, OwnsSeat
<1>1. BookingTypeOK' BY FaultsGrow DEF BookingTypeOK, TypeOK
<1>2. \A b \in Bookings : CallInv(b)' BY OthersKeep, FaultsGrow
<1>3. \A b \in Bookings : OneDocument(b)' BY DocumentsKeep DEF Document
<1>4. NoneSold /\ DocumentsSettled BY DEF NoneSold, DocumentsSettled, Document
<1>5. QED BY <1>1, <1>2, <1>3, <1>4

(* createPayment: a payment is created for a booking that exists, is       *)
(* pending until the gateway answers its request, and only a webhook       *)
(* completes it.                                                           *)
LEMMA CheckoutKeeps ==
  ASSUME PaymentInv, NEW p \in Payments, CheckoutStep(p)
  PROVE  PaymentInv'
<1> USE DEF PaymentInv
<1>1. /\ UNCHANGED << store, now, bookings, cached, callVars, hook, revoked >>
      /\ Fault \/ NoFault
  BY DEF CheckoutStep, CheckoutLookup, CheckoutCreate, CheckoutGateway, bookingState, NoFault
<1>2. /\ BookingInv' /\ NoneSold /\ DocumentsSettled
      /\ BookedStays
      /\ faults' = 0 => faults = 0
  BY <1>1, AloneKeeps, RecordKeeps, FaultsGrow DEF BookingInv
<1>3. PICK status \in {"none", "failed"} \cup ActiveStatus, pc \in {"create", "gateway", "done"} :
        /\ payments' = [payments EXCEPT ![p] = status]
        /\ checkout' = [checkout EXCEPT ![p] = pc]
        /\ Document(PaidBooking[p])
        /\ pc = "create" => status = "none"
        /\ pc = "gateway" => status = "pending"
        /\ HasTransaction(p) => HasTransaction(p)'
        /\ payments[p] # "completed"
  <2>1. CASE CheckoutLookup(p)
    <3>1. checkout[p] = "idle" /\ payments[p] = "none" /\ payments' = [payments EXCEPT ![p] = "none"]
      BY <2>1 DEF CheckoutLookup, CheckoutProgress, PaymentTypes
    <3>2. Document(PaidBooking[p]) BY <2>1 DEF CheckoutLookup, Document
    <3>3. ~ HasTransaction(p) BY <3>1 DEF HasTransaction
    <3>4. QED BY <2>1, <3>1, <3>2, <3>3 DEF CheckoutLookup, ActiveStatus
  <2>2. CASE CheckoutCreate(p)
    <3>1. checkout[p] = "create" /\ payments[p] = "none" /\ Document(PaidBooking[p])
      BY <2>2 DEF CheckoutCreate, CheckoutProgress
    <3>2. ~ HasTransaction(p) BY <3>1 DEF HasTransaction
    <3>3. CASE /\ payments' = [payments EXCEPT ![p] = "pending"]
               /\ checkout' = [checkout EXCEPT ![p] = "gateway"]
      BY <3>1, <3>2, <3>3 DEF ActiveStatus
    <3>4. CASE /\ payments' = [payments EXCEPT ![p] = "none"]
               /\ checkout' = [checkout EXCEPT ![p] = "done"]
      BY <3>1, <3>2, <3>4 DEF ActiveStatus
    <3>5. UNCHANGED payments => payments' = [payments EXCEPT ![p] = "none"]
      BY <3>1 DEF PaymentTypes
    <3>6. QED BY <2>2, <3>3, <3>4, <3>5 DEF CheckoutCreate
  <2>3. CASE CheckoutGateway(p)
    <3>1. checkout[p] = "gateway" /\ payments[p] = "pending" /\ Document(PaidBooking[p])
      BY <2>3 DEF CheckoutGateway, CheckoutProgress
    <3>2. ~ HasTransaction(p) BY <3>1 DEF HasTransaction
    <3>3. PICK new \in {"processing", "pending"} :
            /\ payments' = [payments EXCEPT ![p] = new]
            /\ checkout' = [checkout EXCEPT ![p] = "done"]
      BY <2>3, <3>1 DEF CheckoutGateway, PaymentTypes
    <3>4. QED BY <3>1, <3>2, <3>3 DEF ActiveStatus
  <2>4. QED BY <2>1, <2>2, <2>3 DEF CheckoutStep
<1>4. /\ \A q \in Payments \ {p} : UNCHANGED << payments[q], checkout[q] >>
      /\ payments'[p] = status /\ checkout'[p] = pc
  BY <1>3 DEF PaymentTypes
<1>5. PaymentTypes' BY <1>1, <1>3 DEF PaymentTypes
<1>6. ASSUME NEW q \in Payments PROVE CheckoutProgress(q)'
  BY <1>1, <1>3, <1>4 DEF CheckoutProgress, Document
<1>7. ASSUME NEW w \in Handlers PROVE HookInv(w)'
  <2>1. HookProgress(w)'
    BY <1>1, <1>3, <1>4 DEF HookInv, HookProgress, HasTransaction
  <2>2. SettlesAlone(w)'
    BY <1>1, <1>3, <1>4 DEF HookInv, SettlesAlone, Settles, HookProgress
  <2>3. SavesTheTruth(w)' BY <1>1, <1>2, TruthKept
  <2>4. QED BY <2>1, <2>2, <2>3 DEF HookInv
<1>8. SoldIsPaid' BY <1>2, <1>3, <1>4, SoldKept
<1>9. ConfirmedOwnsItsSeats' BY <1>1, <1>2, ConfirmedKept
<1>10. QED BY <1>2, <1>5, <1>6, <1>7, <1>8, <1>9

(***************************************************************************)
(* handleWebhook                                                           *)
(***************************************************************************)
HookStates ==
  [pc: {"idle", "complete", "fail", "confirm", "load", "release",
        "releaseOnly", "saveConfirmed", "saveCancelled"},
   payment: Payments \cup {NoPayment}]

(* One handler moves; the others keep what they know.                      *)
LEMMA HandlerMoves ==
  ASSUME PaymentInv, NEW w \in Handlers, NEW new \in HookStates,
         hook' = [hook EXCEPT ![w] = new], UNCHANGED checkout,
         payments' \in [Payments -> {"none", "failed"} \cup ActiveStatus],
         \A p \in Payments : \/ payments'[p] = payments[p]
                             \/ HasTransaction(p) /\ HasTransaction(p)' /\ payments[p] # "completed",
         BookingInv', DocumentsSettled, BookedStays, revoked \subseteq revoked',
         revoked' \subseteq Bookings, faults' = 0 => faults = 0,
         HookInv(w)', SoldIsPaid', ConfirmedOwnsItsSeats'
  PROVE  PaymentInv'
<1> USE DEF PaymentInv
<1>1. hook'[w] = new /\ \A v \in Handlers \ {w} : hook'[v] = hook[v] BY DEF PaymentTypes
<1>2. PaymentTypes' BY DEF PaymentTypes, HookStates
<1>3. \A p \in Payments : CheckoutProgress(p)'
  BY PaymentsAssumption DEF CheckoutProgress, DocumentsSettled, HasTransaction
<1>4. ASSUME NEW v \in Handlers \ {w} PROVE HookInv(v)'
  <2>1. HookProgress(v)' BY <1>1 DEF HookInv, HookProgress, HasTransaction
  <2>2. SettlesAlone(v)'
    <3>1. SUFFICES ASSUME Settles(v)
                   PROVE  /\ payments'[hook[v].payment] = "completed"
                          /\ \A u \in Handlers \ {v} :
                               Settles(u)' => hook'[u].payment # hook[v].payment
      BY <1>1 DEF SettlesAlone, Settles
    <3>2. payments'[hook[v].payment] = "completed"
      BY <3>1 DEF HookInv, SettlesAlone, HookProgress, Settles
    <3>3. \A u \in Handlers \ {v, w} : Settles(u)' => hook'[u].payment # hook[v].payment
      BY <1>1, <3>1 DEF HookInv, SettlesAlone, Settles
    <3>4. Settles(w)' => hook'[w].payment # hook[v].payment
      BY <1>1, <3>1 DEF HookInv, SettlesAlone, Settles
    <3>5. QED BY <3>2, <3>3, <3>4
  <2>3. SavesTheTruth(v)' BY <1>1, TruthKept
  <2>4. QED BY <2>1, <2>2, <2>3 DEF HookInv
<1>5. QED BY <1>2, <1>3, <1>4

(* The same for steps that leave every variable of the bookings alone.     *)
LEMMA NoBookingChange ==
  ASSUME PaymentInv, UNCHANGED bookingState
  PROVE  /\ BookingInv' /\ NoneSold /\ DocumentsSettled /\ BookedStays
         /\ UNCHANGED << revoked, faults >>
         /\ revoked \subseteq Bookings
BY AloneKeeps, RecordKeeps DEF PaymentInv, PaymentTypes, bookingState, NoFault

(* handleWebhook finds the payment of the transaction; only a payment that *)
(* was sent to the gateway has one.                                        *)
LEMMA WebhookLookupKeeps ==
  ASSUME PaymentInv, NEW w \in Handlers, NEW p \in Payments, NEW outcome, WebhookLookup(w, p, outcome)
  PROVE  PaymentInv'
<1> USE DEF PaymentInv
<1>1. PICK pc \in {"complete", "fail"} : hook' = [hook EXCEPT ![w] = [pc |-> pc, payment |-> p]]
  BY DEF WebhookLookup
<1>2. UNCHANGED << bookingState, payments, checkout >> /\ HasTransaction(p) BY DEF WebhookLookup
<1>3. hook'[w] = [pc |-> pc, payment |-> p] BY <1>1 DEF PaymentTypes
<1>4. HookInv(w)'
  BY <1>2, <1>3 DEF HookInv, HookProgress, HasTransaction, SettlesAlone, Settles, SavesTheTruth
<1>5. SoldIsPaid' /\ ConfirmedOwnsItsSeats' BY <1>2, NoBookingChange, SoldKept, ConfirmedKept
<1>6. [pc |-> pc, payment |-> p] \in HookStates BY DEF HookStates
<1>7. payments' \in [Payments -> {"none", "failed"} \cup ActiveStatus] BY <1>2 DEF PaymentTypes
<1>8. QED BY <1>1, <1>2, <1>4, <1>5, <1>6, <1>7, NoBookingChange, HandlerMoves

(* The database completes, or fails, a payment at most once.               *)
LEMMA WebhookUpdateKeeps ==
  ASSUME PaymentInv, NEW w \in Handlers, WebhookComplete(w) \/ WebhookFail(w)
  PROVE  PaymentInv'
<1> USE DEF PaymentInv
<1>1. PICK p \in Payments : p = hook[w].payment /\ HasTransaction(p)
  BY DEF WebhookComplete, WebhookFail, HookInv, HookProgress
<1>2. UNCHANGED << bookingState, checkout >> BY DEF WebhookComplete, WebhookFail
<1>3. PICK status \in {"completed", "failed"}, new \in HookStates :
        /\ payments' = [payments EXCEPT ![p] = status]
        /\ hook' = [hook EXCEPT ![w] = new]
        /\ payments[p] = "completed" => status = "completed" /\ new.pc = "idle"
        /\ new.pc \in {"confirm", "load", "idle"}
        /\ new.pc = "confirm" => status = "completed" /\ payments[p] # "completed"
        /\ new.pc # "idle" => new.payment = p
  <2>1. CASE WebhookComplete(w) /\ NotCompleted(p)
    <3>1. hook' = [hook EXCEPT ![w] = [pc |-> "confirm", payment |-> p]]
      BY <1>1, <2>1 DEF WebhookComplete, HookGoesTo, PaymentTypes
    <3>2. [pc |-> "confirm", payment |-> p] \in HookStates BY DEF HookStates
    <3>3. QED BY <1>1, <2>1, <3>1, <3>2 DEF WebhookComplete, NotCompleted
  <2>2. CASE WebhookFail(w) /\ NotCompleted(p)
    <3>1. hook' = [hook EXCEPT ![w] = [pc |-> "load", payment |-> p]]
      BY <1>1, <2>2 DEF WebhookFail, HookGoesTo, PaymentTypes
    <3>2. [pc |-> "load", payment |-> p] \in HookStates BY DEF HookStates
    <3>3. QED BY <1>1, <2>2, <3>1, <3>2 DEF WebhookFail, NotCompleted
  <2>3. CASE ~ NotCompleted(p)
    <3>1. hook' = [hook EXCEPT ![w] = NoWork] /\ UNCHANGED payments /\ payments[p] = "completed"
      BY <1>1, <2>3 DEF WebhookComplete, WebhookFail, HookEnds, NotCompleted
    <3>2. NoWork \in HookStates /\ NoWork.pc = "idle" BY DEF HookStates, NoWork
    <3>3. payments' = [payments EXCEPT ![p] = "completed"] BY <3>1 DEF PaymentTypes
    <3>4. QED BY <3>1, <3>2, <3>3
  <2>4. QED BY <2>1, <2>2, <2>3
<1>4. /\ hook'[w] = new /\ \A v \in Handlers \ {w} : hook'[v] = hook[v]
      /\ payments'[p] = status /\ \A q \in Payments \ {p} : payments'[q] = payments[q]
  BY <1>3 DEF PaymentTypes
<1>5. payments' \in [Payments -> {"none", "failed"} \cup ActiveStatus]
  BY <1>3 DEF PaymentTypes, ActiveStatus
<1>6. \A q \in Payments : \/ payments'[q] = payments[q]
                          \/ HasTransaction(q) /\ HasTransaction(q)' /\ payments[q] # "completed"
  BY <1>1, <1>3, <1>4 DEF HasTransaction
<1>7. HookInv(w)'
  <2>1. HookProgress(w)' BY <1>3, <1>4 DEF HookProgress, HasTransaction
  <2>2. SettlesAlone(w)'
    BY <1>3, <1>4 DEF HookInv, SettlesAlone, Settles, HookProgress
  <2>3. SavesTheTruth(w)' BY <1>3, <1>4 DEF SavesTheTruth
  <2>4. QED BY <2>1, <2>2, <2>3 DEF HookInv
<1>8. SoldIsPaid' /\ ConfirmedOwnsItsSeats'
  BY <1>2, <1>6, NoBookingChange, SoldKept, ConfirmedKept
<1>9. QED BY <1>2, <1>3, <1>5, <1>6, <1>7, <1>8, NoBookingChange, HandlerMoves

(* A handler that goes on, or ends: what its next place is.                *)
LEMMA HookMove ==
  ASSUME PaymentInv, NEW w \in Handlers, hook[w].pc # "idle",
         NEW pc \in {"release", "releaseOnly", "saveConfirmed", "saveCancelled"},
         HookGoesTo(w, pc) \/ HookEnds(w)
  PROVE  \E new \in HookStates :
           /\ hook' = [hook EXCEPT ![w] = new]
           /\ hook'[w] = new
           /\ new.pc \in {pc, "idle"}
           /\ new.pc # "idle" => new.payment = hook[w].payment /\ HookGoesTo(w, pc)
<1>1. CASE HookGoesTo(w, pc)
  <2> DEFINE new == [pc |-> pc, payment |-> hook[w].payment]
  <2>1. hook \in [Handlers -> HookStates] BY DEF PaymentInv, PaymentTypes, HookStates
  <2>2. new \in HookStates /\ [hook[w] EXCEPT !.pc = pc] = new BY <2>1 DEF HookStates
  <2>3. hook' = [hook EXCEPT ![w] = new] BY <1>1, <2>2 DEF HookGoesTo
  <2>4. hook'[w] = new BY <2>1, <2>3
  <2>5. QED BY <1>1, <2>2, <2>3, <2>4
<1>2. CASE HookEnds(w)
  <2>1. NoWork \in HookStates /\ NoWork.pc = "idle" BY DEF HookStates, NoWork
  <2>2. hook' = [hook EXCEPT ![w] = NoWork] BY <1>2 DEF HookEnds
  <2>3. hook'[w] = NoWork BY <2>2 DEF PaymentInv, PaymentTypes
  <2>4. QED BY <2>1, <2>2, <2>3
<1>3. QED BY <1>1, <1>2

(* The steps of a handler after the payment's update: the payments stay.   *)
LEMMA BookingUpdated ==
  ASSUME PaymentInv, NEW w \in Handlers, NEW new \in HookStates,
         hook' = [hook EXCEPT ![w] = new], hook'[w] = new, UNCHANGED << payments, checkout >>,
         hook[w].pc # "idle", new.pc # "idle" => new.payment = hook[w].payment,
         new.pc = "saveConfirmed" => hook[w].pc = "confirm", new.pc # "confirm",
         BookingInv', DocumentsSettled, BookedStays, revoked \subseteq revoked',
         revoked' \subseteq Bookings, faults' = 0 => faults = 0,
         SavesTheTruth(w)', SoldIsPaid', ConfirmedOwnsItsSeats'
  PROVE  PaymentInv'
<1> USE DEF PaymentInv
<1>1. \A v \in Handlers \ {w} : hook'[v] = hook[v] BY DEF PaymentTypes
<1>2. HookProgress(w)' BY DEF HookInv, HookProgress, HasTransaction
<1>3. SettlesAlone(w)' BY <1>1 DEF HookInv, SettlesAlone, Settles
<1>4. HookInv(w)' BY <1>2, <1>3 DEF HookInv
<1>5. payments' \in [Payments -> {"none", "failed"} \cup ActiveStatus] BY DEF PaymentTypes
<1>6. QED BY <1>4, <1>5, HandlerMoves

(* The booking of a webhook in progress has a document.                    *)
LEMMA HookBookingExists ==
  ASSUME PaymentInv, NEW w \in Handlers, hook[w].pc # "idle"
  PROVE  /\ hook[w].payment \in Payments
         /\ HookBooking(w) \in Bookings
         /\ Document(HookBooking(w))
BY PaymentsAssumption
   DEF PaymentInv, HookInv, HookProgress, HasTransaction, HookBooking, CheckoutProgress

(* A handler whose payment failed loads the booking and goes on to release *)
(* its seats, and to save nothing if it was cancelled already.             *)
LEMMA WebhookLoadKeeps ==
  ASSUME PaymentInv, NEW w \in Handlers, WebhookLoad(w)
  PROVE  PaymentInv'
<1>1. UNCHANGED << bookingState, payments, checkout >> /\ hook[w].pc # "idle" BY DEF WebhookLoad
<1>2. PICK pc \in {"release", "releaseOnly"} :
        /\ HookGoesTo(w, pc)
        /\ pc = "releaseOnly" => bookings[HookBooking(w)].status = "cancelled"
  BY DEF WebhookLoad
<1>3. PICK new \in HookStates : /\ hook' = [hook EXCEPT ![w] = new] /\ hook'[w] = new
                                /\ new.pc \in {pc, "idle"}
                                /\ new.pc # "idle" => new.payment = hook[w].payment
  BY <1>1, <1>2, HookMove
<1>4. SavesTheTruth(w)'
  <2>1. new.pc = "releaseOnly" /\ faults = 0 => Gone(HookBooking(w))
    BY <1>1, <1>2, <1>3, HookBookingExists DEF PaymentInv, BookingInv, CallInv, SeatInv, GivenUp
  <2>2. new.pc # "idle" => HookBooking(w)' = HookBooking(w) BY <1>3 DEF HookBooking
  <2>3. QED BY <1>1, <1>2, <1>3, <2>1, <2>2 DEF SavesTheTruth, bookingState, store, Gone, OwnsSeat
<1>5. SoldIsPaid' /\ ConfirmedOwnsItsSeats'
  BY <1>1, NoBookingChange, SoldKept, ConfirmedKept DEF PaymentInv
<1>6. QED BY <1>1, <1>3, <1>4, <1>5, NoBookingChange, BookingUpdated

(* The confirm script books what is held; nothing that is booked changes.  *)
LEMMA ConfirmEffect ==
  ASSUME BookingInv, NEW b \in Bookings, Document(b), PaymentTypes, SoldIsPaid, ConfirmedOwnsItsSeats,
         PaymentOf(b, "completed"),
         ConfirmSeats(b, List(b)) \/ UNCHANGED << store, now >>, Fault \/ NoFault,
         UNCHANGED << bookings, cached, callVars, payments, revoked >>
  PROVE  /\ BookingInv' /\ DocumentsSettled /\ BookedStays
         /\ SoldIsPaid' /\ ConfirmedOwnsItsSeats'
<1> USE DEF BookingInv, CallInv, callVars, confirmVars
<1>1. [Next]_vars /\ UNCHANGED now BY Lists DEF Next, store, vars, ConfirmSeats
<1>2. TypeOK' BY <1>1, TypeStep DEF BookingTypeOK
<1>3. BookingTypeOK' BY <1>2, FaultsGrow DEF BookingTypeOK
<1>4. \A s \in Seats : \/ seats'[s] = seats[s]
                       \/ seats[s].status = "held" /\ OwnsSeat(b, s) /\ seats'[s] = Booked(b)
  BY DEF ConfirmSeats, Confirmable, OwnsSeat, store
<1>5. \A o \in Bookings : NoneGained(o) BY <1>4 DEF NoneGained, OwnsSeat, Booked, Seat
<1>6. GivenUp(b)' BY <1>5, FaultsGrow DEF SeatInv, GivenUp, ReleaseUnsaved, NoneGained, Gone
<1>7. BookingInv' BY <1>1, <1>3, <1>5, <1>6, FaultsGrow, SettlingKeeps DEF Document
<1>8. DocumentsSettled BY <1>5 DEF DocumentsSettled, Document
<1>9. BookedStays BY <1>4 DEF BookedStays, Booked, Seat
<1>10. SoldIsPaid' BY <1>4 DEF SoldIsPaid, PaymentOf, Booked, Seat
<1>11. ConfirmedOwnsItsSeats'
  <2>1. \A o \in Bookings : Range(List(o)) \subseteq Seats BY Lists
  <2>2. QED BY <1>9, <2>1 DEF ConfirmedOwnsItsSeats, OwnsAllBooked, BookedStays, List, Booked, Seat
<1>12. QED BY <1>7, <1>8, <1>9, <1>10, <1>11

(* The script answers success: every entry was held, and is booked now.    *)
LEMMA ConfirmedAll ==
  ASSUME NEW b \in Bookings, ConfirmSeats(b, List(b)), ConfirmSucceeds(b, List(b))
  PROVE  OwnsAllBooked(b)'
<1>1. Range(List(b)) \subseteq Seats BY Lists
<1>2. \A s \in Range(List(b)) : Confirmable(b, s) BY DEF ConfirmSucceeds, Range
<1>3. QED BY <1>1, <1>2 DEF ConfirmSeats, OwnsAllBooked, List, Booked, Seat

(* confirm-seats.lua runs for a payment this handler has completed; the    *)
(* booking is saved as confirmed only if the script booked every seat.     *)
LEMMA WebhookConfirmKeeps ==
  ASSUME PaymentInv, NEW w \in Handlers, WebhookConfirm(w)
  PROVE  PaymentInv'
<1>1. PICK b \in Bookings : b = HookBooking(w) /\ Document(b) /\ PaymentOf(b, "completed")
  BY HookBookingExists
     DEF WebhookConfirm, PaymentInv, HookInv, SettlesAlone, Settles, PaymentOf, HookBooking
<1>2. /\ hook[w].pc = "confirm"
      /\ UNCHANGED << bookings, cached, callVars, payments, checkout, revoked >>
      /\ Fault \/ NoFault
      /\ ConfirmSeats(b, List(b)) \/ UNCHANGED << store, now >>
      /\ HookGoesTo(w, "saveConfirmed") \/ HookEnds(w)
      /\ HookGoesTo(w, "saveConfirmed") /\ ~ HookEnds(w)
           => ConfirmSeats(b, List(b)) /\ ConfirmSucceeds(b, List(b))
  BY <1>1 DEF WebhookConfirm, Settle
<1>3. /\ BookingInv' /\ DocumentsSettled /\ BookedStays
      /\ SoldIsPaid' /\ ConfirmedOwnsItsSeats'
  BY <1>1, <1>2, ConfirmEffect DEF PaymentInv
<1>4. PICK new \in HookStates : /\ hook' = [hook EXCEPT ![w] = new] /\ hook'[w] = new
                                /\ new.pc \in {"saveConfirmed", "idle"}
                                /\ new.pc # "idle" => /\ new.payment = hook[w].payment
                                                      /\ HookGoesTo(w, "saveConfirmed")
  BY <1>2, HookMove
<1>5. SavesTheTruth(w)'
  <2>1. CASE new.pc = "idle" BY <1>4, <2>1 DEF SavesTheTruth
  <2>2. CASE new.pc = "saveConfirmed"
    <3>1. HookBooking(w)' = b BY <1>1, <1>4, <2>2 DEF HookBooking
    <3>2. HookEnds(w) => hook'[w] = NoWork BY DEF HookEnds, PaymentInv, PaymentTypes
    <3>3. ~ HookEnds(w) BY <1>4, <2>2, <3>2 DEF NoWork
    <3>4. OwnsAllBooked(b)' BY <1>2, <1>4, <2>2, <3>3, ConfirmedAll
    <3>5. QED BY <1>4, <2>2, <3>1, <3>4 DEF SavesTheTruth
  <2>3. QED BY <1>4, <2>1, <2>2
<1>6. QED BY <1>2, <1>3, <1>4, <1>5, FaultsGrow, BookingUpdated
          DEF PaymentInv, PaymentTypes, BookingInv

(* The release after a failed payment: booked seats it takes from a        *)
(* booking are recorded as revoked.                                        *)
LEMMA WebhookReleaseKeeps ==
  ASSUME PaymentInv, NEW w \in Handlers, WebhookRelease(w)
  PROVE  PaymentInv'
<1> USE DEF callVars, confirmVars
<1>1. PICK b \in Bookings : b = HookBooking(w) /\ Document(b)
  BY HookBookingExists DEF WebhookRelease
<1>2. /\ hook[w].pc # "idle"
      /\ UNCHANGED << bookings, cached, callVars, payments, checkout >>
      /\ Fault \/ NoFault
      /\ ReleaseSeats(b, List(b)) \/ UNCHANGED << store, now >>
      /\ HookGoesTo(w, "saveCancelled") \/ HookEnds(w)
      /\ ~ HookEnds(w) => ReleaseSeats(b, List(b))
      /\ RecordRevoked
  BY <1>1 DEF WebhookRelease, Settle
<1>3. /\ BookingTypeOK /\ OwnSeatsOnly(b) /\ GivenUp(b)
      /\ revoked \subseteq Bookings
  BY DEF PaymentInv, BookingInv, CallInv, SeatInv, PaymentTypes
<1>4. [Next]_vars /\ UNCHANGED now BY <1>1, <1>2, Lists DEF Next, store, vars, ReleaseSeats
<1>5. TypeOK' BY <1>3, <1>4, TypeStep DEF BookingTypeOK
<1>6. BookingTypeOK' BY <1>2, <1>3, <1>5, FaultsGrow DEF BookingTypeOK
<1>7. (\A o \in Bookings : NoneGained(o)) /\ (ReleaseSeats(b, List(b)) => Gone(b)')
  BY <1>2, <1>3, ReleaseGains DEF NoneGained, OwnsSeat, store
<1>8. GivenUp(b)'
  BY <1>2, <1>3, <1>7, FaultsGrow DEF GivenUp, ReleaseUnsaved, NoneGained, Gone
<1>9. BookingInv'
  BY <1>1, <1>2, <1>3, <1>4, <1>6, <1>7, <1>8, FaultsGrow, SettlingKeeps DEF PaymentInv, Document
<1>10. DocumentsSettled /\ BookedStays /\ revoked \subseteq revoked' /\ revoked' \subseteq Bookings
  BY <1>2, <1>3, <1>7, RecordKeeps DEF DocumentsSettled, Document
<1>11. NoneSold
  BY <1>2, ReleaseSellsNothing DEF NoneSold, store
<1>12. SoldIsPaid' /\ ConfirmedOwnsItsSeats'
  BY <1>2, <1>10, <1>11, SoldKept, ConfirmedKept DEF PaymentInv
<1>13. PICK new \in HookStates : /\ hook' = [hook EXCEPT ![w] = new] /\ hook'[w] = new
                                 /\ new.pc \in {"saveCancelled", "idle"}
                                 /\ new.pc # "idle" => new.payment = hook[w].payment
  BY <1>2, HookMove
<1>14. SavesTheTruth(w)'
  <2>1. CASE new.pc = "idle" BY <1>13, <2>1 DEF SavesTheTruth
  <2>2. CASE new.pc = "saveCancelled"
    <3>1. HookBooking(w)' = b BY <1>1, <1>2, <1>13, <2>2 DEF HookBooking
    <3>2. HookEnds(w) => hook'[w] = NoWork BY DEF HookEnds, PaymentInv, PaymentTypes
    <3>3. Gone(b)' BY <1>2, <1>7, <1>13, <2>2, <3>2 DEF NoWork
    <3>4. QED BY <1>13, <2>2, <3>1, <3>3 DEF SavesTheTruth
  <2>3. QED BY <1>13, <2>1, <2>2
<1>15. QED BY <1>2, <1>3, <1>9, <1>10, <1>12, <1>13, <1>14, FaultsGrow, BookingUpdated

(* The two saves: the status they write is true of Redis and of the        *)
(* payments.                                                               *)
LEMMA SaveEffect ==
  ASSUME PaymentInv, NEW b \in Bookings, Document(b), NEW status \in {"confirmed", "cancelled"},
         SaveStatus(b, status) \/ UNCHANGED bookings, Fault \/ NoFault,
         UNCHANGED << store, now, cached, callVars, payments, revoked >>,
         status = "cancelled" /\ faults = 0 => Gone(b),
         status = "confirmed" => /\ PaymentOf(b, "completed")
                                 /\ b \notin revoked => OwnsAllBooked(b)
  PROVE  /\ BookingInv' /\ DocumentsSettled /\ BookedStays
         /\ SoldIsPaid' /\ ConfirmedOwnsItsSeats'
<1> USE DEF callVars, confirmVars, store
<1>1. BookingTypeOK /\ GivenUp(b) BY DEF PaymentInv, BookingInv, CallInv, SeatInv
<1>2. /\ \A o \in Bookings : bookings'[o].hold_expires_at = bookings[o].hold_expires_at
      /\ \A o \in Bookings \ {b} : bookings'[o] = bookings[o]
      /\ Document(b)'
      /\ bookings'[b].status = status \/ UNCHANGED bookings
      /\ BookingTypeOK'
  BY <1>1, SaveOutcome, FaultsGrow DEF BookingTypeOK, TypeOK
<1>3. \A o \in Bookings : NoneGained(o) BY DEF NoneGained, OwnsSeat
<1>4. GivenUp(b)' BY <1>1, <1>2, FaultsGrow DEF GivenUp, ReleaseUnsaved, Gone, OwnsSeat
<1>5. BookingInv' BY <1>1, <1>2, <1>3, <1>4, FaultsGrow, SettlingKeeps DEF PaymentInv
<1>6. DocumentsSettled BY <1>2, <1>3 DEF DocumentsSettled, Document
<1>7. BookedStays BY DEF BookedStays
<1>8. SoldIsPaid' BY <1>2 DEF PaymentInv, SoldIsPaid, PaymentOf
<1>9. ConfirmedOwnsItsSeats'
  BY <1>2 DEF PaymentInv, ConfirmedOwnsItsSeats, OwnsAllBooked, List, Booked, Seat
<1>10. QED BY <1>5, <1>6, <1>7, <1>8, <1>9

(* A handler that has saved is free for the next webhook.                  *)
LEMMA WebhookEnds ==
  ASSUME PaymentInv, NEW w \in Handlers, hook[w].pc # "idle", HookEnds(w),
         UNCHANGED << payments, checkout, revoked >>, Fault \/ NoFault,
         BookingInv', DocumentsSettled, BookedStays, SoldIsPaid', ConfirmedOwnsItsSeats'
  PROVE  PaymentInv'
<1>1. hook' = [hook EXCEPT ![w] = NoWork] BY DEF HookEnds
<1>2. hook'[w] = NoWork /\ NoWork \in HookStates /\ NoWork.pc = "idle"
  BY <1>1 DEF PaymentInv, PaymentTypes, HookStates, NoWork
<1>3. SavesTheTruth(w)' BY <1>2 DEF SavesTheTruth
<1>4. faults' = 0 => faults = 0 BY FaultsGrow DEF PaymentInv, BookingInv
<1>5. revoked' \subseteq Bookings BY DEF PaymentInv, PaymentTypes
<1>6. QED BY <1>1, <1>2, <1>3, <1>4, <1>5, BookingUpdated

(* The save: what the handler writes is what its script did, however long  *)
(* ago that was.                                                           *)
LEMMA WebhookSaveKeeps ==
  ASSUME PaymentInv, NEW w \in Handlers, WebhookSaveConfirmed(w) \/ WebhookSaveCancelled(w)
  PROVE  PaymentInv'
<1>1. PICK b \in Bookings : b = HookBooking(w) /\ Document(b)
  BY HookBookingExists DEF WebhookSaveConfirmed, WebhookSaveCancelled
<1>2. /\ hook[w].pc # "idle" /\ HookEnds(w)
      /\ UNCHANGED << store, now, cached, callVars, payments, checkout, revoked >>
      /\ Fault \/ NoFault
  BY DEF WebhookSaveConfirmed, WebhookSaveCancelled
<1>3. CASE WebhookSaveConfirmed(w)
  <2>1. SaveStatus(b, "confirmed") \/ UNCHANGED bookings BY <1>1, <1>3 DEF WebhookSaveConfirmed
  <2>2. PaymentOf(b, "completed") /\ (b \notin revoked => OwnsAllBooked(b))
    BY <1>1, <1>3, HookBookingExists
       DEF WebhookSaveConfirmed, PaymentInv, HookInv, SettlesAlone, Settles, SavesTheTruth,
           PaymentOf, HookBooking
  <2>3. QED BY <1>1, <1>2, <2>1, <2>2, SaveEffect, WebhookEnds
<1>4. CASE WebhookSaveCancelled(w)
  <2>1. SaveStatus(b, "cancelled") \/ UNCHANGED bookings BY <1>1, <1>4 DEF WebhookSaveCancelled
  <2>2. faults = 0 => Gone(b)
    BY <1>1, <1>4 DEF WebhookSaveCancelled, PaymentInv, HookInv, SavesTheTruth
  <2>3. QED BY <1>1, <1>2, <2>1, <2>2, SaveEffect, WebhookEnds
<1>5. QED BY <1>3, <1>4

(***************************************************************************)
(* The invariant holds, and what follows                                   *)
(***************************************************************************)
(* The invariant holds before the first request.                           *)
LEMMA PaymentInvInit == SystemInit => PaymentInv
<1> SUFFICES ASSUME SystemInit PROVE PaymentInv OBVIOUS
<1> USE DEF SystemInit
<1>1. BookingInv BY BookingInvInit
<1>2. PaymentTypes BY DEF PaymentTypes, NoWork
<1>3. \A p \in Payments : CheckoutProgress(p) BY DEF CheckoutProgress
<1>4. \A w \in Handlers : HookInv(w)
  BY DEF HookInv, HookProgress, SettlesAlone, Settles, SavesTheTruth, NoWork
<1>5. SoldIsPaid BY DEF SoldIsPaid, BookingInit, Init, Free, Seat
<1>6. ConfirmedOwnsItsSeats BY DEF ConfirmedOwnsItsSeats, BookingInit
<1>7. QED BY <1>1, <1>2, <1>3, <1>4, <1>5, <1>6 DEF PaymentInv

(* Every step of the whole system keeps it.                                *)
LEMMA PaymentInvStep ==
  ASSUME PaymentInv, [SystemNext]_systemVars
  PROVE  PaymentInv'
<1>1. ASSUME NEW w \in Handlers, WebhookStep(w) PROVE PaymentInv'
  BY <1>1, WebhookLookupKeeps, WebhookUpdateKeeps, WebhookConfirmKeeps, WebhookSaveKeeps,
     WebhookLoadKeeps, WebhookReleaseKeeps
     DEF WebhookStep
<1>2. CASE UNCHANGED systemVars
  <2>1. BookingInv' /\ NoneSold /\ DocumentsSettled
    BY <1>2, AloneKeeps DEF systemVars, bookingVars, store, PaymentInv, NoFault
  <2>2. QED BY <1>2, <2>1, PaymentBystander DEF systemVars, bookingVars, store
<1>3. QED
  BY <1>1, <1>2, PaymentBookingStep, PaymentCrash, CheckoutKeeps DEF SystemNext, SystemEnd

(* PaymentInv is an invariant of the whole system.                         *)
LEMMA PaymentInvHolds == SystemSpec => []PaymentInv
BY PaymentInvInit, PaymentInvStep, PTL DEF SystemSpec

(* The properties follow from the invariant.                               *)
LEMMA PaymentSafety ==
  ASSUME PaymentInv
  PROVE  /\ SystemTypeOK /\ OneSettlementPerPayment
         /\ RefusedOwnsNothing /\ OneClaimPerKey /\ ClosedOwnsNothing /\ OffersLapse
<1> USE DEF PaymentInv
<1>1. SystemTypeOK BY DEF BookingInv, SystemTypeOK, PaymentTypes
<1>2. ASSUME NEW p \in Payments
      PROVE  Cardinality(Settling(p)) <= 1 /\ (Settling(p) # {} => payments[p] = "completed")
  <2>1. CASE Settling(p) = {} BY <2>1, FS_EmptySet
  <2>2. ASSUME NEW w \in Settling(p)
        PROVE  Cardinality(Settling(p)) <= 1 /\ payments[p] = "completed"
    <3>1. w \in Handlers /\ Settles(w) /\ hook[w].payment = p BY <2>2 DEF Settling, Settles
    <3>2. payments[p] = "completed" /\ Settling(p) = {w}
      BY <3>1, <2>2 DEF HookInv, SettlesAlone, Settling, Settles
    <3>3. QED BY <3>2, FS_Singleton
  <2>3. QED BY <2>1, <2>2
<1>3. OneSettlementPerPayment BY <1>2 DEF OneSettlementPerPayment
<1>4. QED BY <1>1, <1>3, BookingSafety

(* Types, in every state of the whole system.                              *)
THEOREM SystemTypeCorrect == SystemSpec => []SystemTypeOK
BY PaymentInvHolds, PaymentSafety, PTL

(* No seat is booked and no booking confirmed without a completed payment  *)
(* for it, whatever webhooks are delivered, how often, in which order and  *)
(* to how many handlers at once, and wherever the server stops.            *)
THEOREM SoldSeatsArePaid == SystemSpec => []SoldIsPaid
<1>1. PaymentInv => SoldIsPaid BY DEF PaymentInv
<1>2. QED BY <1>1, PaymentInvHolds, PTL

(* However many handlers a webhook is delivered to, one of them settles.   *)
THEOREM SettledOnce == SystemSpec => []OneSettlementPerPayment
BY PaymentInvHolds, PaymentSafety, PTL

(* A confirmed booking has its seats booked unless booked seats were taken *)
(* from it by a release.                                                   *)
THEOREM ConfirmedOwnsSeats == SystemSpec => []ConfirmedOwnsItsSeats
<1>1. PaymentInv => ConfirmedOwnsItsSeats BY DEF PaymentInv
<1>2. QED BY <1>1, PaymentInvHolds, PTL

(* With payments, too: a booking that was given up has no seats, held or   *)
(* booked, unless a fault came between.                                    *)
THEOREM ClosedCleanWithPayments == SystemSpec => []ClosedOwnsNothing
BY PaymentInvHolds, PaymentSafety, PTL

(* And a refused request leaves nothing, retries share one claim, payment  *)
(* URLs lapse.                                                             *)
THEOREM RequestsSafeWithPayments ==
  SystemSpec => [](RefusedOwnsNothing /\ OneClaimPerKey /\ OffersLapse)
BY PaymentInvHolds, PaymentSafety, PTL

(***************************************************************************)
(* A booking that was given up                                             *)
(***************************************************************************)
(* Redis has no seat in the name of a booking that owns none: its list has *)
(* one at least.                                                           *)
LEMMA GoneOwnsNone ==
  ASSUME NEW b \in Bookings, Gone(b)
  PROVE  ~ OwnsAllBooked(b) /\ ~ \A s \in Range(List(b)) : OwnsSeat(b, s)
<1>1. PICK s \in Range(List(b)) : TRUE
  <2>1. List(b) \in Seq(Seats) /\ List(b) # << >> BY Lists, ListsAssumption
  <2>2. 1 \in DOMAIN List(b) BY <2>1
  <2>3. QED BY <2>2 DEF Range
<1>2. s \in Seats BY <1>1, Lists
<1>3. QED BY <1>1, <1>2 DEF Gone, OwnsAllBooked, OwnsSeat, Booked, Seat

(* Only the save after a successful confirm script makes a booking         *)
(* confirmed.                                                              *)
LEMMA OnlySavesConfirm ==
  ASSUME PaymentInv, [SystemNext]_systemVars, NEW b \in Bookings,
         bookings[b].status # "confirmed", bookings'[b].status = "confirmed"
  PROVE  \E w \in Handlers : WebhookSaveConfirmed(w) /\ HookBooking(w) = b
<1>1. ~ (BookingStep \/ BookingCrash) BY BookingEffects DEF PaymentInv, NoneSold
<1>2. ~ UNCHANGED bookings OBVIOUS
<1>3. PICK w \in Handlers : WebhookSaveConfirmed(w) \/ WebhookSaveCancelled(w)
  BY <1>1, <1>2
     DEF SystemNext, SystemEnd, SystemCrash, systemVars, bookingVars, BookingStep, HoldSeats,
         ConfirmBooking, CancelBooking, ReleaseExpiredHolds, ClockTicks, CheckoutStep,
         CheckoutLookup, CheckoutCreate, CheckoutGateway, bookingState, WebhookStep, WebhookLookup,
         WebhookComplete, WebhookFail, WebhookConfirm, WebhookLoad, WebhookRelease
<1>4. PICK status \in {"confirmed", "cancelled"} :
        SaveStatus(HookBooking(w), status) /\ (status = "confirmed" => WebhookSaveConfirmed(w))
  BY <1>2, <1>3 DEF WebhookSaveConfirmed, WebhookSaveCancelled
<1>5. HookBooking(w) = b /\ status = "confirmed"
  BY <1>4 DEF SaveStatus, PaymentInv, BookingInv, BookingTypeOK
<1>6. QED BY <1>4, <1>5

(* Without a fault, a booking that was cancelled or has expired becomes    *)
(* confirmed only after a release took booked seats from it: a handler     *)
(* that saves it as confirmed has seen its own script book every seat, and *)
(* a booking that was given up has none.                                   *)
THEOREM ClosedIsForGood == SystemSpec => ClosedStaysClosed
<1>1. ASSUME PaymentInv, [SystemNext]_systemVars, NEW b \in Bookings, faults' = 0,
             bookings[b].status \in {"cancelled", "expired"}, bookings'[b].status = "confirmed"
      PROVE  b \in revoked
  <2>1. PICK w \in Handlers : WebhookSaveConfirmed(w) /\ HookBooking(w) = b
    BY <1>1, OnlySavesConfirm
  <2>2. faults = 0
    BY <1>1, <2>1, FaultsGrow DEF WebhookSaveConfirmed, PaymentInv, BookingInv
  <2>3. Gone(b) BY <1>1, <2>2 DEF PaymentInv, BookingInv, CallInv, SeatInv, GivenUp
  <2>4. b \notin revoked => OwnsAllBooked(b)
    BY <1>1, <2>1 DEF PaymentInv, HookInv, SavesTheTruth, WebhookSaveConfirmed
  <2>5. QED BY <2>3, <2>4, GoneOwnsNone
<1>2. PaymentInv /\ [SystemNext]_systemVars =>
        [\A b \in Bookings :
           /\ faults' = 0
           /\ bookings[b].status \in {"cancelled", "expired"}
           /\ bookings'[b].status = "confirmed"
           => b \in revoked]_systemVars
  BY <1>1
<1>3. QED BY <1>2, PaymentInvHolds, PTL DEF SystemSpec, ClosedStaysClosed

(* README.md's "Zero overbooking guaranteed", as far as it is true: two    *)
(* bookings that are both confirmed share no seat unless booked seats of   *)
(* one of them were released.  The hash is there all the time: how it is   *)
(* lost and initialised is ShowtimeStore's matter.                         *)
THEOREM OverbookingNeedsARelease ==
  SystemSpec => [](\A b, o \in Bookings \ revoked :
                     b # o /\ bookings[b].status = "confirmed" /\ bookings[o].status = "confirmed"
                       => Range(List(b)) \cap Range(List(o)) = {})
<1>1. PaymentInv => \A b, o \in Bookings \ revoked :
                      b # o /\ bookings[b].status = "confirmed" /\ bookings[o].status = "confirmed"
                        => Range(List(b)) \cap Range(List(o)) = {}
  <2>1. SUFFICES ASSUME PaymentInv, NEW b \in Bookings \ revoked, NEW o \in Bookings \ revoked,
                        bookings[b].status = "confirmed", bookings[o].status = "confirmed",
                        NEW s \in Range(List(b)) \cap Range(List(o))
                 PROVE  b = o
    OBVIOUS
  <2>2. seats[s] = Booked(b) /\ seats[s] = Booked(o)
    BY <2>1 DEF PaymentInv, ConfirmedOwnsItsSeats, OwnsAllBooked
  <2>3. seats[s].booking_id = b /\ seats[s].booking_id = o BY <2>2 DEF Booked, Seat
  <2>4. QED BY <2>3
<1>2. QED BY <1>1, PaymentInvHolds, PTL

(***************************************************************************)
(* Who pays in time is served.  What is known of a live booking in         *)
(* BookingService holds on, up to the handler that books its seats; after  *)
(* a failed payment's release, until that handler has saved.               *)
(***************************************************************************)
Sellable(b) ==
  ~ IsInjective(List(b)) \/ FailureUnsaved(b) \/ BeingSold(b) \/ LiveOwnsItsSeats(b)
SaleInv == PaymentInv /\ \A b \in Bookings : Sellable(b)

(* A seat of b is one of the store's.                                      *)
LEMMA BookedListStays ==
  ASSUME NEW b \in Bookings, OwnsAllBooked(b),
         \A s \in Seats : seats[s] = Booked(b) => seats'[s] = Booked(b)
  PROVE  OwnsAllBooked(b)'
BY Lists DEF OwnsAllBooked, List, Booked, Seat

(* A step that leaves the handlers alone, and either ends the booking's    *)
(* being live or leaves booked seats booked.                               *)
LEMMA SellableKept ==
  ASSUME NEW b \in Bookings, Sellable(b), LiveOwnsItsSeats(b) => LiveOwnsItsSeats(b)',
         UNCHANGED hook,
         \/ faults' # 0 \/ ~ Live(b)'
         \/ \A s \in Seats : seats[s] = Booked(b) => seats'[s] = Booked(b)
  PROVE  Sellable(b)'
<1>1. CASE BeingSold(b)
  <2>1. faults' # 0 \/ ~ Live(b)' => LiveOwnsItsSeats(b)' BY DEF LiveOwnsItsSeats
  <2>2. CASE \A s \in Seats : seats[s] = Booked(b) => seats'[s] = Booked(b)
    BY <1>1, <2>2, BookedListStays DEF BeingSold, HookBooking, Sellable
  <2>3. QED BY <2>1, <2>2 DEF Sellable
<1>2. CASE ~ BeingSold(b) BY <1>2 DEF Sellable, FailureUnsaved, HookBooking, List
<1>3. QED BY <1>1, <1>2

(* The booking service, a restart and a step of createPayment.             *)
LEMMA SellableBystander ==
  ASSUME PaymentInv, PaymentInv', NEW b \in Bookings, Sellable(b), UNCHANGED hook \/ BookingCrash,
         BookingStep \/ BookingCrash \/ (UNCHANGED << store, now, bookings, callVars >> /\ (Fault \/ NoFault))
  PROVE  Sellable(b)'
<1> USE DEF PaymentInv
<1>1. CASE BookingCrash
  <2>1. LiveOwnsItsSeats(b)' BY <1>1, FaultsGrow DEF BookingCrash, LiveOwnsItsSeats, BookingInv
  <2>2. QED BY <2>1 DEF Sellable
<1>2. CASE BookingStep /\ UNCHANGED hook
  BY <1>2, LiveStep, LiveKeepsBooked, SellableKept
<1>3. CASE UNCHANGED << store, now, bookings, callVars, hook >> /\ (Fault \/ NoFault)
  <2>1. LiveOwnsItsSeats(b) => LiveOwnsItsSeats(b)'
    BY <1>3, FaultsGrow DEF BookingInv, LiveOwnsItsSeats, Live, Promised, HoldsSeat, ReleaseUnsaved,
                            callVars, store, List
  <2>2. QED BY <1>3, <2>1, SellableKept DEF store
<1>4. QED BY <1>1, <1>2, <1>3

(* A handler's step: b stays sellable if its seats and its status stay,    *)
(* whatever the handler does next.                                         *)
LEMMA SellableOther ==
  ASSUME PaymentInv, PaymentInv', NEW b \in Bookings, Sellable(b),
         NEW w \in Handlers, NEW new, hook' = [hook EXCEPT ![w] = new],
         hook[w].pc \in {"saveConfirmed", "saveCancelled"} => HookBooking(w) # b,
         UNCHANGED << now, bookings[b], callVars >>, faults' = 0 => faults = 0,
         LiveSeatsStay(b), \A s \in Seats : seats[s] = Booked(b) => seats'[s] = Booked(b)
  PROVE  Sellable(b)'
<1> USE DEF PaymentInv, BookingInv
<1>1. \A v \in Handlers \ {w} : hook'[v] = hook[v] BY DEF PaymentTypes
<1>2. FailureUnsaved(b) => FailureUnsaved(b)' BY <1>1 DEF FailureUnsaved, HookBooking
<1>3. BeingSold(b) => BeingSold(b)'
  BY <1>1, BookedListStays DEF BeingSold, HookBooking
<1>4. ASSUME LiveOwnsItsSeats(b) PROVE LiveOwnsItsSeats(b)'
  <2>1. now' >= now BY DEF BookingTypeOK, TypeOK
  <2>2. Live(b)' => Live(b) /\ Promised(b)' = Promised(b)
    BY DEF Live, Promised, ReleaseUnsaved, callVars
  <2>3. QED BY <1>4, <2>1, <2>2, LiveKept
<1>5. QED BY <1>2, <1>3, <1>4 DEF Sellable, List

(* In time, a booking that still holds its seats has them all confirmable  *)
(* and releasable: the two scripts succeed on a list without repetitions.  *)
LEMMA ScriptsSucceed ==
  ASSUME BookingInv, NEW b \in Bookings, IsInjective(List(b)),
         Promised(b) > now, \A s \in Range(List(b)) : HoldsSeat(b, s)
  PROVE  ConfirmSucceeds(b, List(b)) /\ ReleaseSucceeds(b, List(b))
<1>1. \A i \in DOMAIN List(b) : List(b)[i] \in Range(List(b)) BY DEF Range
<1>2. Promised(b) \in Int /\ now \in Int
  BY ClockAssumption DEF Promised, BookingInv, BookingTypeOK, TypeOK
<1>3. \A s \in Range(List(b)) : seats[s].held_until \in Int
  <2>1. Range(List(b)) \subseteq Seats BY Lists
  <2>2. QED BY <2>1, HoldDeadlines DEF BookingInv, BookingTypeOK
<1>4. QED BY <1>1, <1>2, <1>3 DEF ConfirmSucceeds, ReleaseSucceeds, Confirmable, Releasable, HoldsSeat

(* The confirm script, by a handler of the booking's own payment or of     *)
(* another's.                                                              *)
LEMMA SellableConfirm ==
  ASSUME PaymentInv, PaymentInv', NEW b \in Bookings, Sellable(b), NEW w \in Handlers, WebhookConfirm(w)
  PROVE  Sellable(b)'
<1> USE DEF PaymentInv
<1>1. PICK o \in Bookings : o = HookBooking(w) BY HookBookingExists DEF WebhookConfirm
<1>2. /\ hook[w].pc = "confirm"
      /\ UNCHANGED << now, bookings, callVars >>
      /\ Fault \/ NoFault
      /\ ConfirmSeats(o, List(o)) \/ UNCHANGED << store, now >>
      /\ \E new : hook' = [hook EXCEPT ![w] = new]
  BY <1>1 DEF WebhookConfirm, ConfirmSeats, Settle, HookGoesTo, HookEnds
<1>3. faults' = 0 => faults = 0 /\ NoFault BY <1>2, FaultsGrow DEF BookingInv
<1>4. \A s \in Seats : seats[s] = Booked(b) => seats'[s] = Booked(b)
  BY <1>2 DEF ConfirmSeats, Confirmable, Booked, Seat, store
<1>5. CASE o # b \/ UNCHANGED store
  <2>1. LiveSeatsStay(b) BY <1>2, <1>5 DEF ConfirmSeats, Confirmable, LiveSeatsStay, store
  <2>2. QED BY <1>2, <1>3, <1>4, <2>1, SellableOther
<1>6. CASE o = b /\ ConfirmSeats(b, List(b))
  <2>1. CASE faults' # 0 BY <2>1 DEF Sellable, LiveOwnsItsSeats
  <2>2. CASE faults' = 0 /\ BeingSold(b)
    <3>1. PICK v \in Handlers : hook[v].pc = "saveConfirmed" /\ HookBooking(v) = b
      BY <2>2 DEF BeingSold
    <3>2. hook'[v] = hook[v] BY <1>2, <3>1 DEF PaymentTypes
    <3>3. OwnsAllBooked(b)' BY <1>4, <2>2, BookedListStays DEF BeingSold
    <3>4. QED BY <3>1, <3>2, <3>3 DEF Sellable, BeingSold, HookBooking
  <2>3. CASE FailureUnsaved(b)
    <3>1. PICK v \in Handlers : hook[v].pc = "saveCancelled" /\ HookBooking(v) = b
      BY <2>3 DEF FailureUnsaved
    <3>2. hook'[v] = hook[v] BY <1>2, <3>1 DEF PaymentTypes
    <3>3. QED BY <3>1, <3>2 DEF Sellable, FailureUnsaved, HookBooking
  <2>4. CASE /\ faults' = 0 /\ IsInjective(List(b)) /\ LiveOwnsItsSeats(b)
             /\ Live(b) /\ Promised(b) > now
    <3>1. ConfirmSucceeds(b, List(b))
      BY <1>3, <2>4, ScriptsSucceed DEF LiveOwnsItsSeats
    <3>2. OwnsAllBooked(b)' BY <1>6, <3>1, ConfirmedAll
    <3>3. HookGoesTo(w, "saveConfirmed")
      BY <1>1, <1>3, <1>6, <2>4, <3>1, FaultsGrow DEF WebhookConfirm, Settle, BookingInv
    <3>4. hook'[w].pc = "saveConfirmed" /\ hook'[w].payment = hook[w].payment
      BY <3>3 DEF HookGoesTo, PaymentTypes
    <3>5. QED BY <1>1, <1>6, <3>2, <3>4 DEF Sellable, BeingSold, HookBooking
  <2>5. CASE ~ (Live(b) /\ Promised(b) > now)
    BY <1>2, <2>5 DEF Sellable, LiveOwnsItsSeats, Live, Promised, ReleaseUnsaved, callVars
  <2>6. CASE ~ IsInjective(List(b)) BY <2>6 DEF Sellable, List
  <2>7. QED BY <2>1, <2>2, <2>3, <2>4, <2>5, <2>6 DEF Sellable
<1>7. QED BY <1>2, <1>5, <1>6 DEF store

(* The release script after a failed payment: a live booking's seats are   *)
(* all there for it to release, so it succeeds and the handler goes on to  *)
(* save; a booking loaded as cancelled has none.                           *)
LEMMA SellableRelease ==
  ASSUME PaymentInv, PaymentInv', NEW b \in Bookings, Sellable(b), NEW w \in Handlers, WebhookRelease(w)
  PROVE  Sellable(b)'
<1> USE DEF PaymentInv
<1>1. PICK o \in Bookings : o = HookBooking(w) BY HookBookingExists DEF WebhookRelease
<1>2. /\ hook[w].pc \in {"release", "releaseOnly"}
      /\ UNCHANGED << now, bookings, callVars >>
      /\ Fault \/ NoFault
      /\ ReleaseSeats(o, List(o)) \/ UNCHANGED << store, now >>
      /\ \E new : hook' = [hook EXCEPT ![w] = new]
  BY <1>1 DEF WebhookRelease, ReleaseSeats, Settle, HookGoesTo, HookEnds
<1>3. faults' = 0 => faults = 0 /\ NoFault BY <1>2, FaultsGrow DEF BookingInv
<1>4. ASSUME o # b \/ UNCHANGED store \/ Gone(b) PROVE Sellable(b)'
  <2>1. LiveSeatsStay(b) /\ \A s \in Seats : seats[s] = Booked(b) => seats'[s] = Booked(b)
    BY <1>2, <1>4 DEF ReleaseSeats, Released, Releasable, LiveSeatsStay, Booked, Seat, store,
                      Gone, OwnsSeat
  <2>2. QED BY <1>2, <1>3, <2>1, SellableOther
<1>5. CASE o = b /\ ReleaseSeats(b, List(b))
  <2>1. CASE faults' # 0 BY <2>1 DEF Sellable, LiveOwnsItsSeats
  <2>2. CASE faults' = 0 /\ hook[w].pc = "releaseOnly"
    <3>1. Gone(b) BY <1>1, <1>3, <1>5, <2>2 DEF HookInv, SavesTheTruth
    <3>2. QED BY <1>4, <3>1
  <2>3. CASE faults' = 0 /\ hook[w].pc = "release" /\ ReleaseSucceeds(b, List(b))
    <3>1. HookGoesTo(w, "saveCancelled")
      BY <1>1, <1>3, <1>5, <2>3, FaultsGrow DEF WebhookRelease, Settle, BookingInv
    <3>2. hook'[w].pc = "saveCancelled" /\ hook'[w].payment = hook[w].payment
      BY <3>1 DEF HookGoesTo, PaymentTypes
    <3>3. QED BY <1>1, <1>5, <3>2 DEF Sellable, FailureUnsaved, HookBooking
  <2>4. CASE FailureUnsaved(b)
    <3>1. PICK v \in Handlers : hook[v].pc = "saveCancelled" /\ HookBooking(v) = b
      BY <2>4 DEF FailureUnsaved
    <3>2. hook'[v] = hook[v] BY <1>2, <3>1 DEF PaymentTypes
    <3>3. QED BY <3>1, <3>2 DEF Sellable, FailureUnsaved, HookBooking
  <2>5. CASE IsInjective(List(b)) /\ ~ ReleaseSucceeds(b, List(b)) /\ BeingSold(b)
    <3>1. \A i \in DOMAIN List(b) : List(b)[i] \in Range(List(b)) BY DEF Range
    <3>2. QED BY <2>5, <3>1
              DEF BeingSold, OwnsAllBooked, ReleaseSucceeds, Releasable, Booked, Seat
  <2>6. CASE /\ faults' = 0 /\ IsInjective(List(b)) /\ ~ ReleaseSucceeds(b, List(b))
             /\ LiveOwnsItsSeats(b)
    <3>1. ~ (Live(b) /\ Promised(b) > now) BY <1>3, <2>6, ScriptsSucceed DEF LiveOwnsItsSeats
    <3>2. QED BY <1>2, <3>1 DEF Sellable, LiveOwnsItsSeats, Live, Promised, ReleaseUnsaved, callVars
  <2>7. CASE ~ IsInjective(List(b)) BY <2>7 DEF Sellable, List
  <2>8. QED BY <1>2, <2>1, <2>2, <2>3, <2>4, <2>5, <2>6, <2>7 DEF Sellable
<1>6. QED BY <1>2, <1>4, <1>5 DEF store

(* The saves: once it has been written, the booking is no longer pending.  *)
LEMMA SellableSave ==
  ASSUME PaymentInv, PaymentInv', NEW b \in Bookings, Sellable(b), NEW w \in Handlers,
         WebhookSaveConfirmed(w) \/ WebhookSaveCancelled(w)
  PROVE  Sellable(b)'
<1> USE DEF PaymentInv
<1>1. PICK o \in Bookings : o = HookBooking(w) /\ Document(o)
  BY HookBookingExists DEF WebhookSaveConfirmed, WebhookSaveCancelled
<1>2. /\ hook' = [hook EXCEPT ![w] = NoWork]
      /\ UNCHANGED << store, now, callVars >>
      /\ Fault \/ NoFault
  BY DEF WebhookSaveConfirmed, WebhookSaveCancelled, HookEnds
<1>3. PICK status \in {"confirmed", "cancelled"} :
        \/ SaveStatus(o, status) /\ NoFault
        \/ UNCHANGED bookings /\ Fault
  BY <1>1 DEF WebhookSaveConfirmed, WebhookSaveCancelled
<1>4. CASE o = b
  <2>1. faults' = 0 => bookings'[b].status = status
    BY <1>3, <1>4, FaultsGrow DEF SaveStatus, BookingInv, BookingTypeOK
  <2>2. hold'[b].pc # "create"
    BY <1>1, <1>2, <1>4 DEF BookingInv, CallInv, HoldInv, HoldProgress, callVars
  <2>3. QED BY <2>1, <2>2 DEF Sellable, LiveOwnsItsSeats, Live
<1>5. CASE o # b
  <2>1. UNCHANGED bookings[b] BY <1>3, <1>5 DEF SaveStatus, BookingInv, BookingTypeOK
  <2>2. LiveSeatsStay(b) /\ UNCHANGED seats BY <1>2 DEF LiveSeatsStay, store
  <2>3. faults' = 0 => faults = 0 BY <1>2, FaultsGrow DEF BookingInv
  <2>4. HookBooking(w) # b BY <1>1, <1>5
  <2>5. QED BY <1>2, <2>1, <2>2, <2>3, <2>4, SellableOther
<1>6. QED BY <1>4, <1>5

(* Every step of the whole system keeps what makes a booking sellable.     *)
LEMMA SaleStep ==
  ASSUME SaleInv, [SystemNext]_systemVars
  PROVE  SaleInv'
<1>1. PaymentInv' BY PaymentInvStep DEF SaleInv
<1>2. ASSUME NEW b \in Bookings PROVE Sellable(b)'
  <2>1. PaymentInv /\ Sellable(b) BY DEF SaleInv
  <2>2. ASSUME NEW w \in Handlers, WebhookStep(w) PROVE Sellable(b)'
    <3>1. CASE \/ \E p \in Payments, outcome \in GatewayOutcomes : WebhookLookup(w, p, outcome)
               \/ WebhookComplete(w) \/ WebhookFail(w) \/ WebhookLoad(w)
      <4>1. /\ UNCHANGED bookingState
            /\ hook[w].pc \in {"idle", "complete", "fail", "load"}
            /\ \E new : hook' = [hook EXCEPT ![w] = new]
        BY <3>1 DEF WebhookLookup, WebhookComplete, WebhookFail, WebhookLoad, HookGoesTo, HookEnds
      <4>2. LiveSeatsStay(b) /\ UNCHANGED << now, bookings[b], callVars, faults, seats >>
        BY <4>1 DEF bookingState, LiveSeatsStay, store
      <4>3. QED BY <1>1, <2>1, <4>1, <4>2, SellableOther
    <3>2. QED BY <1>1, <2>1, <2>2, <3>1, SellableConfirm, SellableRelease, SellableSave
              DEF WebhookStep
  <2>3. CASE BookingStep /\ UNCHANGED hook BY <1>1, <2>1, <2>3, SellableBystander
  <2>4. CASE BookingCrash BY <1>1, <2>1, <2>4, SellableBystander
  <2>5. CASE (\E p \in Payments : CheckoutStep(p)) \/ UNCHANGED systemVars
    <3>1. UNCHANGED << store, now, bookings, callVars, hook >> /\ (Fault \/ NoFault)
      BY <2>5 DEF CheckoutStep, CheckoutLookup, CheckoutCreate, CheckoutGateway, bookingState,
                  systemVars, bookingVars, paymentVars, store, NoFault
    <3>2. QED BY <1>1, <2>1, <3>1, SellableBystander
  <2>6. QED
    BY <2>2, <2>3, <2>4, <2>5
       DEF SystemNext, SystemEnd, SystemCrash, BookingStep, HoldSeats, ConfirmBooking,
           CancelBooking, ReleaseExpiredHolds, ClockTicks, paymentVars
<1>3. QED BY <1>1, <1>2 DEF SaleInv

(* A booking whose document says pending, in time, and which nobody is     *)
(* about to close, can be paid: the confirm script would book all of its   *)
(* seats, or has, for a handler that is about to save it.  This is for any *)
(* number of bookings, payments, handlers and deliveries, in any order.    *)
THEOREM PaidInTimeIsServed == SystemSpec => []PendingCanBeSold
<1>1. SystemInit => SaleInv
  BY PaymentInvInit
     DEF SaleInv, Sellable, LiveOwnsItsSeats, Live, SystemInit, BookingInit, HoldAt
<1>2. SaleInv => PendingCanBeSold
  <2>1. SUFFICES ASSUME SaleInv, NEW b \in Bookings, faults = 0, IsInjective(List(b)),
                        bookings[b].status = "pending",
                        bookings[b].hold_expires_at - MaxLatency > now,
                        ~ ReleaseUnsaved(b), ~ FailureUnsaved(b), ~ BeingSold(b)
                 PROVE  ConfirmSucceeds(b, List(b))
    BY DEF PendingCanBeSold
  <2>2. BookingInv /\ LiveOwnsItsSeats(b) BY <2>1 DEF SaleInv, PaymentInv, Sellable
  <2>3. Live(b) /\ Promised(b) > now BY <2>1, <2>2, PendingIsLive
  <2>4. QED BY <2>1, <2>2, <2>3, ScriptsSucceed DEF LiveOwnsItsSeats
<1>3. QED BY <1>1, <1>2, SaleStep, PTL DEF SystemSpec

(* Every step of the whole system is one of the store's scripts, a tick or *)
(* none of its business.                                                   *)
LEMMA SystemStoreStep ==
  ASSUME PaymentInv, [SystemNext]_systemVars
  PROVE  [Next]_vars
<1> USE DEF PaymentInv, BookingInv, CallInv, HoldInv
<1>1. ASSUME NEW w \in Handlers, WebhookStep(w) PROVE [Next]_vars
  <2>1. CASE WebhookConfirm(w) \/ WebhookRelease(w)
    <3>1. PICK b \in Bookings : b = HookBooking(w)
      BY <2>1, HookBookingExists DEF WebhookConfirm, WebhookRelease
    <3>2. ConfirmSeats(b, List(b)) \/ ReleaseSeats(b, List(b)) \/ UNCHANGED << store, now >>
      BY <2>1, <3>1 DEF WebhookConfirm, WebhookRelease
    <3>3. QED BY <3>2, Lists DEF Next, store, vars
  <2>2. CASE ~ (WebhookConfirm(w) \/ WebhookRelease(w))
    <3>1. UNCHANGED << store, now >>
      BY <1>1, <2>2 DEF WebhookStep, WebhookLookup, WebhookComplete, WebhookFail,
                        WebhookSaveConfirmed, WebhookLoad, WebhookSaveCancelled, bookingState
    <3>2. QED BY <3>1 DEF store, vars
  <2>3. QED BY <2>1, <2>2
<1>2. ASSUME NEW p \in Payments, CheckoutStep(p) PROVE [Next]_vars
  BY <1>2 DEF CheckoutStep, CheckoutLookup, CheckoutCreate, CheckoutGateway, bookingState, store, vars
<1>3. CASE BookingStep \/ BookingCrash BY <1>3, BookingStoreStep
<1>4. CASE UNCHANGED systemVars BY <1>4 DEF systemVars, bookingVars, vars
<1>5. QED
  BY <1>1, <1>2, <1>3, <1>4
     DEF SystemNext, SystemEnd, SystemCrash, HoldSeats, ConfirmBooking, CancelBooking,
         ReleaseExpiredHolds, ClockTicks, BookingStep

(* The whole system uses the store within what the ledger allows: a seat   *)
(* with a live hold is never handed over, only its holder's payment sells  *)
(* it, and it comes back only by a release in the name of that booking.    *)
THEOREM SystemImplementsLedger == SystemSpec => LedgerSpec
<1>1. SystemInit => Ledger!LedgerInit
  BY DEF SystemInit, BookingInit, Init, Ledger!LedgerInit, LedgerEntry, Ledger!Nobody,
         Ledger!Entry, Free, Seat
<1>2. PaymentInv /\ PaymentInv' /\ [SystemNext]_systemVars => [Ledger!LedgerNext]_ledgerOf
  BY SystemStoreStep, LedgerStep DEF PaymentInv, BookingInv, BookingTypeOK
<1>3. QED
  BY <1>1, <1>2, PaymentInvHolds, PTL DEF SystemSpec, LedgerSpec, Ledger!LedgerSpec, ledgerOf
================================================================================
