-------------------------- MODULE BookingService_proof --------------------------
(***************************************************************************)
(* Theorems about bookings, for every set of seats, requests and keys, any *)
(* hold duration, latency and skew, and any number of faults.              *)
(***************************************************************************)
EXTENDS BookingService, SeatReservation_proof

(***************************************************************************)
(* The inductive invariant                                                 *)
(***************************************************************************)
Document(b) == bookings[b].status # "none"
Gone(b) == \A s \in Seats : ~ OwnsSeat(b, s)

(* A deadline on its way to Redis is at most MaxLatency seconds old.       *)
SentInTime(b) ==
  hold[b].pc = "reserve" =>
    \E late \in 0..MaxLatency : hold[b].deadline = AppNow + HoldSeconds - late

(* Whoever confirms, cancels or expires a booking has found its document.  *)
ActsOnDocument(b) ==
  \/ confirm[b].pc # "idle" \/ offers[b] # 0 \/ cancel[b] # "idle"
  \/ b \in cron.queue \/ cron.saving = b
  => Document(b)

(* Where a holdSeats call is, and what there is of its booking by then.    *)
HoldProgress(b) ==
  /\ hold[b].pc \in {"idle", "answered", "reserve", "create"} => ~ Document(b)
  /\ hold[b].pc \in {"cache", "held"} => Document(b)
  /\ hold[b].pc \in {"idle", "answered", "reserve"} => Gone(b)

(* Without faults a call that is rolled back, or was, has no document, and *)
(* no call is lost.                                                        *)
HoldUndisturbed(b) ==
  faults = 0 =>
    /\ hold[b].pc # "lost"
    /\ hold[b].pc \in {"rollback", "refused"} => ~ Document(b)
    /\ hold[b].pc = "refused" => Gone(b)

(* A booking has none but the seats its request named.                     *)
OwnSeatsOnly(b) == \A s \in Seats : OwnsSeat(b, s) => s \in Range(List(b))

OneDocument(b) == \A o \in Bookings \ {b} : KeyOf[o] = KeyOf[b] => ~ (Document(b) /\ Document(o))

(* Who writes that a booking is given up has released its seats before.    *)
GivenUp(b) ==
  faults = 0 /\ (ReleaseUnsaved(b) \/ bookings[b].status \in {"cancelled", "expired"}) => Gone(b)

(* A payment URL is cached at most MaxLatency seconds after it was found   *)
(* that the booking's hold had not run out.                                *)
OfferInTime(b) ==
  LET runsOut == bookings[b].hold_expires_at - Skew
  IN  /\ confirm[b].pc = "cache" => now <= confirm[b].latest /\ confirm[b].latest <= runsOut + MaxLatency
      /\ offers[b] # 0 => offers[b] <= runsOut + MaxLatency + CacheSeconds

HoldInv(b) == SentInTime(b) /\ HoldProgress(b) /\ HoldUndisturbed(b)
SeatInv(b) == OwnSeatsOnly(b) /\ GivenUp(b)
CallInv(b) == HoldInv(b) /\ SeatInv(b) /\ ActsOnDocument(b) /\ OfferInTime(b)
BookingInv ==
  /\ BookingTypeOK
  /\ \A b \in Bookings : CallInv(b) /\ OneDocument(b)

(***************************************************************************)
(* Steps of the service are steps of the store                             *)
(***************************************************************************)
(* What the assumptions say of a request: its list names seats, its key is *)
(* a key, and it is not the value the cron job has between two bookings.   *)
LEMMA Lists ==
  ASSUME NEW b \in Bookings
  PROVE  /\ List(b) \in SeatLists
         /\ Range(List(b)) \subseteq Seats
         /\ KeyOf[b] \in Range(KeyOf)
         /\ b # NoBooking
<1>1. List(b) \in SeatLists BY RequestsAssumption DEF List
<1>2. Range(List(b)) \subseteq Seats BY <1>1, EntriesFinite
<1>3. KeyOf[b] \in Range(KeyOf) BY RequestsAssumption DEF Range
<1>4. QED BY <1>1, <1>2, <1>3, SeatsAssumption

(* The deadline a reserve call arrives with lies ahead of the Redis clock. *)
LEMMA ReserveIsStoreStep ==
  ASSUME NEW b \in Bookings, BookingTypeOK, SentInTime(b), HoldReserve(b)
  PROVE  [Next]_vars
<1>1. CASE BatchReserve(b, List(b), hold[b].deadline)
  <2>1. PICK late \in 0..MaxLatency : hold[b].deadline = AppNow + HoldSeconds - late
    BY DEF HoldReserve, SentInTime
  <2>2. now \in Int /\ Skew \in Int /\ HoldSeconds \in Int /\ late \in Int
    BY ClockAssumption DEF BookingTypeOK, TypeOK
  <2>3. hold[b].deadline = now + (HoldSeconds + Skew - late)
    BY <2>1, <2>2 DEF AppNow
  <2>4. HoldSeconds + Skew - late \in HoldOffsets BY OffsetsAssumption
  <2>5. QED BY <1>1, <2>3, <2>4, Lists DEF Next
<1>2. CASE UNCHANGED << store, now >> BY <1>2 DEF store, vars
<1>3. QED BY <1>1, <1>2 DEF HoldReserve

(* Every step of the booking service, a restart included, is one of the    *)
(* store's scripts, a tick or none of its business (booking.service.ts     *)
(* calls no other).                                                        *)
LEMMA BookingStoreStep ==
  ASSUME BookingTypeOK, \A b \in Bookings : SentInTime(b), BookingStep \/ BookingCrash
  PROVE  [Next]_vars
<1>1. ASSUME NEW b \in Bookings, HoldSeatsStep(b) PROVE [Next]_vars
  <2>1. CASE HoldReserve(b) BY <2>1, ReserveIsStoreStep
  <2>2. CASE HoldRollback(b)
    BY <2>2, Lists DEF HoldRollback, ReleaseOrError, Next, store, vars
  <2>3. CASE HoldLookup(b) \/ HoldCreate(b) \/ HoldCache(b)
    BY <2>3 DEF HoldLookup, HoldCreate, HoldCache, store, vars
  <2>4. QED BY <1>1, <2>1, <2>2, <2>3 DEF HoldSeatsStep
<1>2. ASSUME NEW b \in Bookings, ConfirmStep(b) PROVE [Next]_vars
  BY <1>2 DEF ConfirmStep, ConfirmLookup, ConfirmCache, ConfirmReplay, store, vars
<1>3. ASSUME NEW b \in Bookings, CancelStep(b) PROVE [Next]_vars
  BY <1>3, Lists DEF CancelStep, CancelLookup, CancelRelease, CancelSave, ReleaseOrError, Next, store, vars
<1>4. CASE CronStep
  BY <1>4, Lists DEF CronStep, CronFind, CronRelease, CronSave, ReleaseOrError, Next, store, vars
<1>5. CASE ClockStep BY <1>5 DEF ClockStep, Next
<1>6. CASE BookingCrash BY <1>6 DEF BookingCrash, store, vars
<1>7. QED BY <1>1, <1>2, <1>3, <1>4, <1>5, <1>6 DEF BookingStep

(***************************************************************************)
(* The invariant is inductive                                              *)
(***************************************************************************)
NoneGained(b) == \A s \in Seats : OwnsSeat(b, s)' => OwnsSeat(b, s)

(* Scripts other than a reservation give nobody a seat.                    *)
LEMMA ReleaseGains ==
  ASSUME BookingTypeOK, NEW b \in Bookings, OwnSeatsOnly(b), ReleaseSeats(b, List(b))
  PROVE  /\ \A o \in Bookings : NoneGained(o)
         /\ Gone(b)'
<1>1. \A s \in Seats : seats'[s] = IF s \in Range(List(b)) /\ OwnsSeat(b, s) THEN Free ELSE seats[s]
  BY DEF ReleaseSeats, Released, Releasable, OwnsSeat
<1>2. \A o \in Bookings : Free.booking_id # o BY SeatsAssumption DEF Free, Seat
<1>3. QED BY <1>1, <1>2 DEF NoneGained, Gone, OwnsSeat, OwnSeatsOnly

(* confirm-seats.lua changes the status of seats, not their owner.         *)
LEMMA ConfirmGains ==
  ASSUME BookingTypeOK, NEW b \in Bookings, ConfirmSeats(b, List(b))
  PROVE  \A o \in Bookings : NoneGained(o)
BY DEF ConfirmSeats, Confirmable, NoneGained, OwnsSeat, Booked, Seat

(* What is known of a booking stays true while what it speaks of stays.    *)
LEMMA HoldKept ==
  ASSUME NEW b \in Bookings, HoldInv(b), NoneGained(b),
         UNCHANGED << now, hold[b], Document(b) >>, faults' = 0 => faults = 0
  PROVE  HoldInv(b)'
BY DEF HoldInv, SentInTime, AppNow, HoldProgress, HoldUndisturbed, NoneGained, Gone

(* A booking that gains no seat and whose document stays as it is owns     *)
(* only seats of its list, and none once it was given up.                  *)
LEMMA SeatsKept ==
  ASSUME NEW b \in Bookings, SeatInv(b), NoneGained(b),
         UNCHANGED bookings[b].status, ReleaseUnsaved(b)' => ReleaseUnsaved(b),
         faults' = 0 => faults = 0
  PROVE  SeatInv(b)'
<1>1. OwnSeatsOnly(b)' BY DEF SeatInv, OwnSeatsOnly, NoneGained, List
<1>2. GivenUp(b)' BY DEF SeatInv, GivenUp, NoneGained, Gone
<1>3. QED BY <1>1, <1>2 DEF SeatInv

(* The age of a cached payment URL depends on the clock and on the         *)
(* booking's own confirmBooking call.                                      *)
LEMMA OfferKept ==
  ASSUME NEW b \in Bookings, OfferInTime(b),
         UNCHANGED << now, bookings[b].hold_expires_at, confirm[b], offers[b] >>
  PROVE  OfferInTime(b)'
BY DEF OfferInTime

(* A step that is not about booking o, and gives it no seat, keeps what is *)
(* known of o: this is where the interleaving of requests is dealt with.   *)
LEMMA OthersKeep ==
  ASSUME NEW o \in Bookings, CallInv(o), NoneGained(o),
         UNCHANGED << now, hold[o], bookings[o], confirm[o], offers[o], cancel[o] >>,
         o \in cron'.queue => o \in cron.queue,
         cron'.saving = o => cron.saving = o,
         faults' = 0 => faults = 0
  PROVE  CallInv(o)'
<1> USE DEF CallInv
<1>1. HoldInv(o)' BY HoldKept DEF Document
<1>2. SeatInv(o)' BY SeatsKept DEF ReleaseUnsaved
<1>3. ActsOnDocument(o)' BY DEF ActsOnDocument, Document
<1>4. OfferInTime(o)' BY OfferKept
<1>5. QED BY <1>1, <1>2, <1>3, <1>4

(* No document, no second document.                                        *)
LEMMA DocumentsKeep ==
  ASSUME \A b \in Bookings : OneDocument(b),
         \A b \in Bookings : Document(b)' => Document(b)
  PROVE  \A b \in Bookings : OneDocument(b)'
BY DEF OneDocument

(* Faults are counted up to the bound, and never uncounted: a step that    *)
(* leaves the count at zero is a step without a fault.                     *)
LEMMA FaultsGrow ==
  ASSUME BookingTypeOK, Fault \/ NoFault
  PROVE  /\ faults' \in 0..MaxFaults
         /\ faults' = 0 => faults = 0 /\ NoFault
         /\ Fault => faults' # 0
BY ClockAssumption DEF BookingTypeOK, Fault, NoFault

(* The steps of one holdSeats call.  Those that touch neither documents    *)
(* nor seats leave all but HoldInv of their own call alone.                *)
LEMMA HoldOnly ==
  ASSUME BookingInv, NEW b \in Bookings, NEW pc, NEW deadline \in Int,
         pc \in {"answered", "reserve", "create", "cache", "rollback", "held", "refused"},
         HoldWith(b, pc, deadline), HoldInv(b)',
         UNCHANGED << store, now, bookings, confirmVars, cancel, cron >>,
         cached' \subseteq Range(KeyOf), Fault \/ NoFault
  PROVE  BookingInv'
<1> USE DEF BookingInv, NoneGained, OwnsSeat, store, confirmVars
<1>1. BookingTypeOK' BY FaultsGrow DEF BookingTypeOK, TypeOK, HoldWith, HoldAt
<1>2. ASSUME NEW o \in Bookings PROVE CallInv(o)'
  <2>1. CASE o # b
    <3>1. hold'[o] = hold[o] BY <2>1 DEF BookingTypeOK, HoldWith
    <3>2. QED BY <3>1, OthersKeep, FaultsGrow
  <2>2. CASE o = b
    <3> USE DEF CallInv
    <3>1. SeatInv(b)' BY SeatsKept, FaultsGrow DEF ReleaseUnsaved
    <3>2. ActsOnDocument(b)' BY DEF ActsOnDocument, Document
    <3>3. OfferInTime(b)' BY OfferKept
    <3>4. QED BY <2>2, <3>1, <3>2, <3>3
  <2>3. QED BY <2>1, <2>2
<1>3. \A o \in Bookings : OneDocument(o)' BY DocumentsKeep DEF Document
<1>4. QED BY <1>1, <1>2, <1>3

(* holdSeats finds no booking under its key and takes a deadline of full   *)
(* length from its clock, or answers with the booking it finds.            *)
LEMMA HoldLookupKeeps ==
  ASSUME BookingInv, NEW b \in Bookings, HoldLookup(b)
  PROVE  BookingInv'
<1>1. PICK pc \in {"answered", "reserve"} :
        HoldWith(b, pc, IF pc = "reserve" THEN AppNow + HoldSeconds ELSE 0)
  BY DEF HoldLookup, HoldGoesTo
<1>2. UNCHANGED << store, now, bookings, cached, confirmVars, cancel, cron, faults >>
  BY DEF HoldLookup
<1>3. AppNow + HoldSeconds \in Int
  BY ClockAssumption DEF BookingInv, BookingTypeOK, TypeOK, AppNow
<1>4. HoldInv(b)'
  <2>1. /\ hold'[b] = HoldAt(pc, IF pc = "reserve" THEN AppNow + HoldSeconds ELSE 0)
        /\ hold[b].pc = "idle"
    BY <1>1 DEF HoldWith, HoldLookup, BookingInv, BookingTypeOK
  <2>2. SentInTime(b)'
    <3>1. 0 \in 0..MaxLatency /\ AppNow + HoldSeconds = AppNow' + HoldSeconds - 0
      BY <1>2, <1>3, ClockAssumption DEF AppNow, BookingInv, BookingTypeOK, TypeOK
    <3>2. QED BY <2>1, <3>1 DEF SentInTime, HoldAt
  <2>3. HoldProgress(b)' /\ HoldUndisturbed(b)'
    BY <1>2, <2>1 DEF HoldProgress, HoldUndisturbed, Document, Gone, OwnsSeat, store, HoldAt,
                      BookingInv, CallInv, HoldInv
  <2>4. QED BY <2>2, <2>3 DEF HoldInv
<1>5. cached' \subseteq Range(KeyOf) BY <1>2 DEF BookingInv, BookingTypeOK
<1>6. QED BY <1>1, <1>2, <1>3, <1>4, <1>5, HoldOnly DEF NoFault

(* The reserve call: the seats it takes are those of its list, for a       *)
(* booking that has no document yet; a refusal without a fault takes none. *)
LEMMA HoldReserveKeeps ==
  ASSUME BookingInv, NEW b \in Bookings, HoldReserve(b)
  PROVE  BookingInv'
<1> USE DEF BookingInv, CallInv
<1>1. /\ hold[b].pc = "reserve" /\ Gone(b) /\ ~ Document(b) /\ OwnSeatsOnly(b) /\ SentInTime(b)
      /\ UNCHANGED << now, bookings, cached, confirmVars, cancel, cron >>
      /\ Fault \/ NoFault
  BY DEF HoldReserve, HoldInv, HoldProgress, SeatInv, BatchReserve
<1>2. AppNow + HoldSeconds \in Int /\ 0 \in Int
  BY ClockAssumption DEF BookingTypeOK, TypeOK, AppNow
<1>3. PICK pc \in {"create", "refused"}, deadline \in Int :
        /\ HoldWith(b, pc, deadline)
        /\ pc = "refused" => Fault \/ UNCHANGED store
  BY <1>2 DEF HoldReserve, HoldGoesTo
<1>4. BookingTypeOK'
  <2>1. TypeOK' BY ReserveIsStoreStep, TypeStep DEF BookingTypeOK, HoldInv
  <2>2. faults' \in 0..MaxFaults BY <1>1, FaultsGrow
  <2>3. QED BY <1>1, <1>3, <2>1, <2>2 DEF BookingTypeOK, HoldWith, HoldAt, confirmVars
<1>5. /\ \A o \in Bookings \ {b} : NoneGained(o)
      /\ \A s \in Seats : OwnsSeat(b, s)' => s \in Range(List(b))
      /\ UNCHANGED store => Gone(b)'
  BY <1>1 DEF HoldReserve, BatchReserve, NoneGained, Gone, OwnsSeat, Held, Seat, store
<1>6. ASSUME NEW o \in Bookings \ {b} PROVE CallInv(o)'
  <2>1. hold'[o] = hold[o] BY <1>3 DEF BookingTypeOK, HoldWith
  <2>2. QED BY <1>1, <1>5, <2>1, OthersKeep, FaultsGrow DEF confirmVars
<1>7. CallInv(b)'
  <2>1. hold'[b] = HoldAt(pc, deadline) BY <1>3 DEF BookingTypeOK, HoldWith
  <2>2. HoldInv(b)'
    BY <1>1, <1>3, <1>5, <2>1, FaultsGrow
       DEF HoldInv, SentInTime, HoldProgress, HoldUndisturbed, Document, HoldAt
  <2>3. OwnSeatsOnly(b)' BY <1>5 DEF OwnSeatsOnly, List
  <2>4. GivenUp(b)' BY <1>1 DEF GivenUp, ReleaseUnsaved, ActsOnDocument, Document
  <2>5. ActsOnDocument(b)' BY <1>1 DEF ActsOnDocument, Document, confirmVars
  <2>6. OfferInTime(b)' BY <1>1, OfferKept DEF confirmVars
  <2>7. QED BY <2>2, <2>3, <2>4, <2>5, <2>6 DEF SeatInv
<1>8. \A o \in Bookings : OneDocument(o)' BY <1>1, DocumentsKeep DEF Document
<1>9. QED BY <1>4, <1>6, <1>7, <1>8

(* The insert of the document. The unique index on the key is what keeps   *)
(* two documents from sharing one (OneDocument).                           *)
LEMMA HoldCreateKeeps ==
  ASSUME BookingInv, NEW b \in Bookings, HoldCreate(b)
  PROVE  BookingInv'
<1> USE DEF BookingInv, CallInv
<1>1. /\ hold[b].pc = "create" /\ ~ Document(b)
      /\ UNCHANGED << store, now, cached, confirmVars, cancel, cron >>
      /\ Fault \/ NoFault
      /\ HoldGoesTo(b, "cache") \/ HoldGoesTo(b, "rollback")
  BY DEF HoldCreate, HoldInv, HoldProgress
<1>2. CASE UNCHANGED bookings
  <2>1. HoldGoesTo(b, "rollback")
    BY <1>1, <1>2 DEF HoldCreate, BookingTypeOK, Document
  <2>2. HoldInv(b)'
    BY <1>1, <1>2, <2>1
       DEF HoldInv, SentInTime, HoldProgress, HoldUndisturbed, Document, HoldGoesTo, HoldWith,
           HoldAt, BookingTypeOK
  <2>3. QED BY <1>1, <1>2, <2>1, <2>2, HoldOnly DEF HoldGoesTo, BookingTypeOK
<1>3. CASE KeyFree(b) /\ NoFault /\ HoldGoesTo(b, "cache")
           /\ bookings' = [bookings EXCEPT ![b] =
                [status |-> "pending", hold_expires_at |-> hold[b].deadline]]
  <2> USE DEF NoneGained, OwnsSeat, store, confirmVars, NoFault
  <2>1. /\ hold'[b] = HoldAt("cache", 0)
        /\ bookings'[b] = [status |-> "pending", hold_expires_at |-> hold[b].deadline]
        /\ \A o \in Bookings \ {b} : UNCHANGED << hold[o], bookings[o] >>
    BY <1>3 DEF BookingTypeOK, HoldGoesTo, HoldWith
  <2>2. BookingTypeOK'
    BY <1>1, <1>3 DEF BookingTypeOK, TypeOK, HoldGoesTo, HoldWith, HoldAt
  <2>3. ASSUME NEW o \in Bookings \ {b} PROVE CallInv(o)'
    BY <1>1, <1>3, <2>1, OthersKeep
  <2>4. CallInv(b)'
    <3>1. HoldInv(b)'
      BY <1>1, <2>1 DEF HoldInv, SentInTime, HoldProgress, HoldUndisturbed, Document, HoldAt
    <3>2. OwnSeatsOnly(b)' BY <1>1 DEF SeatInv, OwnSeatsOnly, List
    <3>3. GivenUp(b)' BY <1>1, <2>1 DEF GivenUp, ReleaseUnsaved, ActsOnDocument
    <3>4. ActsOnDocument(b)' BY <2>1 DEF ActsOnDocument, Document
    <3>5. OfferInTime(b)' BY <1>1 DEF OfferInTime, ActsOnDocument, BookingTypeOK
    <3>6. QED BY <3>1, <3>2, <3>3, <3>4, <3>5 DEF SeatInv
  <2>5. ASSUME NEW o \in Bookings PROVE OneDocument(o)'
    BY <1>3, <2>1 DEF OneDocument, KeyFree, Document
  <2>6. QED BY <2>2, <2>3, <2>4, <2>5
<1>4. QED BY <1>2, <1>3 DEF HoldCreate

(* The cache write; only one that fails, a fault, sends a call that has    *)
(* its document to the rollback.                                           *)
LEMMA HoldCacheKeeps ==
  ASSUME BookingInv, NEW b \in Bookings, HoldCache(b)
  PROVE  BookingInv'
<1> USE DEF BookingInv, CallInv
<1>1. PICK pc \in {"held", "rollback"} : HoldWith(b, pc, 0) /\ (pc = "rollback" => Fault)
  BY DEF HoldCache, HoldGoesTo
<1>2. /\ UNCHANGED << store, now, bookings, confirmVars, cancel, cron >>
      /\ cached' \subseteq Range(KeyOf)
      /\ Fault \/ NoFault
      /\ Document(b)
  BY Lists DEF HoldCache, BookingTypeOK, HoldInv, HoldProgress
<1>3. HoldInv(b)'
  <2>1. hold'[b] = HoldAt(pc, 0) BY <1>1 DEF HoldWith, BookingTypeOK
  <2>2. QED BY <1>1, <1>2, <2>1, FaultsGrow
            DEF HoldInv, SentInTime, HoldProgress, HoldUndisturbed, Document, HoldAt
<1>4. QED BY <1>1, <1>2, <1>3, HoldOnly

(* A release that is logged when it fails, as its caller finds it.         *)
LEMMA ReleaseOutcome ==
  ASSUME BookingTypeOK, NEW b \in Bookings, OwnSeatsOnly(b), ReleaseOrError(b)
  PROVE  /\ TypeOK'
         /\ Fault \/ NoFault
         /\ faults' \in 0..MaxFaults
         /\ faults' = 0 => faults = 0 /\ Gone(b)'
         /\ \A o \in Bookings : NoneGained(o)
         /\ UNCHANGED now
<1>1. Fault \/ NoFault BY DEF ReleaseOrError
<1>2. [Next]_vars BY Lists DEF ReleaseOrError, Next, store, vars
<1>3. TypeOK' BY <1>2, TypeStep DEF BookingTypeOK
<1>4. CASE ReleaseSeats(b, List(b)) /\ NoFault
  BY <1>1, <1>3, <1>4, ReleaseGains, FaultsGrow DEF ReleaseSeats
<1>5. CASE UNCHANGED << store, now >> /\ Fault
  BY <1>1, <1>3, <1>5, FaultsGrow DEF NoneGained, OwnsSeat, store
<1>6. QED BY <1>4, <1>5 DEF ReleaseOrError

(* The rollback: unless its release fails, the refused booking has no seat *)
(* when the call ends.                                                     *)
LEMMA HoldRollbackKeeps ==
  ASSUME BookingInv, NEW b \in Bookings, HoldRollback(b)
  PROVE  BookingInv'
<1> USE DEF BookingInv, CallInv, SeatInv, confirmVars
<1>1. /\ hold[b].pc = "rollback" /\ ReleaseOrError(b) /\ HoldWith(b, "refused", 0)
      /\ UNCHANGED << bookings, cached, confirmVars, cancel, cron >>
  BY DEF HoldRollback, HoldGoesTo
<1>2. /\ hold'[b] = HoldAt("refused", 0)
      /\ \A o \in Bookings \ {b} : UNCHANGED hold[o]
  BY <1>1 DEF HoldWith, BookingTypeOK
<1>3. BookingTypeOK' BY <1>1, ReleaseOutcome DEF BookingTypeOK, HoldWith, HoldAt
<1>4. ASSUME NEW o \in Bookings \ {b} PROVE CallInv(o)'
  BY <1>1, <1>2, ReleaseOutcome, OthersKeep
<1>5. CallInv(b)'
  <2>1. HoldInv(b)'
    BY <1>1, <1>2, ReleaseOutcome
       DEF HoldInv, SentInTime, HoldProgress, HoldUndisturbed, Document, HoldAt
  <2>2. SeatInv(b)' BY <1>1, ReleaseOutcome, SeatsKept DEF ReleaseUnsaved
  <2>3. ActsOnDocument(b)' BY <1>1 DEF ActsOnDocument, Document
  <2>4. OfferInTime(b)' BY <1>1, ReleaseOutcome, OfferKept
  <2>5. QED BY <2>1, <2>2, <2>3, <2>4
<1>6. \A o \in Bookings : OneDocument(o)' BY <1>1, DocumentsKeep DEF Document
<1>7. QED BY <1>3, <1>4, <1>5, <1>6

(* The steps of holdSeats together.                                        *)
LEMMA HoldKeeps ==
  ASSUME BookingInv, NEW b \in Bookings, HoldSeatsStep(b)
  PROVE  BookingInv'
BY HoldLookupKeeps, HoldReserveKeeps, HoldCreateKeeps, HoldCacheKeeps, HoldRollbackKeeps
   DEF HoldSeatsStep

(* The steps of confirmBooking: nothing but the caching of one answer.     *)
LEMMA ConfirmKeeps ==
  ASSUME BookingInv, NEW b \in Bookings, ConfirmStep(b)
  PROVE  BookingInv'
<1> USE DEF BookingInv, CallInv, NoneGained, OwnsSeat, store
<1>0. /\ now \in Nat /\ MaxLatency \in Nat /\ CacheSeconds \in Nat /\ Skew \in Int
      /\ bookings[b].hold_expires_at \in Int
      /\ confirm[b] \in [pc: {"idle", "cache"}, latest: Nat]
      /\ offers[b] \in Nat
  BY ClockAssumption DEF BookingTypeOK, TypeOK
<1>1. /\ UNCHANGED << store, now, bookings, cached, hold, cancel, cron >>
      /\ Fault \/ NoFault
  BY DEF ConfirmStep, ConfirmLookup, ConfirmCache, ConfirmReplay, NoFault
<1>2. PICK pc \in {"idle", "cache"}, latest \in Nat, lapses \in Nat :
        /\ confirm' = [confirm EXCEPT ![b] = ConfirmAt(pc, latest)]
        /\ offers' = [offers EXCEPT ![b] = lapses]
        /\ OfferInTime(b)'
        /\ Document(b)
  <2>1. CASE ConfirmLookup(b)
    <3>1. /\ confirm' = [confirm EXCEPT ![b] = ConfirmAt("cache", now + MaxLatency)]
          /\ offers' = [offers EXCEPT ![b] = offers[b]]
          /\ now + Skew <= bookings[b].hold_expires_at
          /\ now + MaxLatency \in Nat
      BY <2>1, <1>0 DEF ConfirmLookup, BookingTypeOK, AppNow
    <3>2. OfferInTime(b)'
      <4>1. confirm'[b].pc = "cache" /\ confirm'[b].latest = now + MaxLatency
        BY <3>1 DEF BookingTypeOK, ConfirmAt
      <4>2. UNCHANGED << now, bookings, offers[b] >> BY <2>1 DEF ConfirmLookup
      <4>3. QED BY <4>1, <4>2, <3>1, <1>0 DEF OfferInTime
    <3>3. Document(b) BY <2>1 DEF ConfirmLookup, Document
    <3>4. QED BY <3>1, <3>2, <3>3, <1>0
  <2>2. CASE ConfirmCache(b)
    <3>1. PICK lapses \in {now + CacheSeconds, offers[b]} :
            /\ offers' = [offers EXCEPT ![b] = lapses]
            /\ confirm' = [confirm EXCEPT ![b] = ConfirmAt("idle", 0)]
      BY <2>2 DEF ConfirmCache, BookingTypeOK
    <3>2. confirm'[b].pc = "idle" /\ offers'[b] = lapses
      BY <3>1 DEF BookingTypeOK, ConfirmAt
    <3>3. OfferInTime(b)' BY <2>2, <1>0, <1>1, <3>1, <3>2 DEF OfferInTime, ConfirmCache
    <3>4. Document(b) BY <2>2 DEF ConfirmCache, ActsOnDocument
    <3>5. lapses \in Nat BY <1>0
    <3>6. QED BY <3>1, <3>3, <3>4, <3>5
  <2>3. CASE ConfirmReplay(b)
    <3>1. /\ confirm' = [confirm EXCEPT ![b] = ConfirmAt(confirm[b].pc, confirm[b].latest)]
          /\ offers' = [offers EXCEPT ![b] = offers[b]]
          /\ confirm' = confirm /\ offers' = offers
      BY <2>3, <1>0 DEF ConfirmReplay, ReplayKeeps, ConfirmAt, BookingTypeOK
    <3>2. OfferInTime(b)' BY <1>1, <3>1, OfferKept
    <3>3. Document(b) BY <2>3, <1>0 DEF ConfirmReplay, ActsOnDocument
    <3>4. QED BY <3>1, <3>2, <3>3, <1>0
  <2>4. QED BY <2>1, <2>2, <2>3 DEF ConfirmStep
<1>3. BookingTypeOK' BY <1>1, <1>2, FaultsGrow DEF BookingTypeOK, TypeOK, ConfirmAt
<1>4. ASSUME NEW o \in Bookings \ {b} PROVE CallInv(o)'
  <2>1. confirm'[o] = confirm[o] /\ offers'[o] = offers[o] BY <1>2 DEF BookingTypeOK
  <2>2. QED BY <1>1, <2>1, OthersKeep, FaultsGrow
<1>5. CallInv(b)'
  <2>1. HoldInv(b)' BY <1>1, HoldKept, FaultsGrow DEF Document
  <2>2. SeatInv(b)' BY <1>1, SeatsKept, FaultsGrow DEF ReleaseUnsaved
  <2>3. ActsOnDocument(b)' BY <1>1, <1>2 DEF ActsOnDocument, Document
  <2>4. QED BY <1>2, <2>1, <2>2, <2>3
<1>6. \A o \in Bookings : OneDocument(o)' BY <1>1, DocumentsKeep DEF Document
<1>7. QED BY <1>3, <1>4, <1>5, <1>6

(* The steps of whoever ends a booking, or pays for it: they release its   *)
(* seats or save its status, and leave the requests of holdSeats and       *)
(* confirmBooking alone.                                                   *)
LEMMA SettlingKeeps ==
  ASSUME BookingInv, NEW b \in Bookings, BookingTypeOK',
         UNCHANGED << now, hold, confirmVars >>,
         \A o \in Bookings : NoneGained(o) /\ bookings'[o].hold_expires_at = bookings[o].hold_expires_at,
         \A o \in Bookings \ {b} : UNCHANGED << bookings[o], cancel[o] >>,
         \A o \in Bookings \ {b} : (o \in cron'.queue => o \in cron.queue)
                                   /\ (cron'.saving = o => cron.saving = o),
         faults' = 0 => faults = 0,
         Document(b), Document(b)', GivenUp(b)'
  PROVE  BookingInv'
<1> USE DEF BookingInv, CallInv, confirmVars
<1>1. ASSUME NEW o \in Bookings \ {b} PROVE CallInv(o)'
  BY <1>1, OthersKeep
<1>2. CallInv(b)'
  <2>1. HoldInv(b)' BY HoldKept
  <2>2. OwnSeatsOnly(b)' BY DEF SeatInv, OwnSeatsOnly, NoneGained, List
  <2>3. ActsOnDocument(b)' BY DEF ActsOnDocument
  <2>4. OfferInTime(b)' BY OfferKept
  <2>5. QED BY <2>1, <2>2, <2>3, <2>4 DEF SeatInv
<1>3. \A o \in Bookings : Document(o)' => Document(o) BY DEF Document
<1>4. QED BY <1>1, <1>2, <1>3, DocumentsKeep

(* save() of a loaded document.                                            *)
LEMMA SaveOutcome ==
  ASSUME BookingTypeOK, NEW b \in Bookings,
         NEW status \in {"confirmed", "cancelled", "expired"}, Document(b),
         SaveStatus(b, status) \/ UNCHANGED bookings
  PROVE  /\ bookings' \in [Bookings -> [status: {"none", "pending", "confirmed", "cancelled", "expired"},
                                        hold_expires_at: Int]]
         /\ \A o \in Bookings : bookings'[o].hold_expires_at = bookings[o].hold_expires_at
         /\ \A o \in Bookings \ {b} : bookings'[o] = bookings[o]
         /\ Document(b)'
         /\ bookings'[b].status = status \/ UNCHANGED bookings
<1>1. CASE UNCHANGED bookings BY <1>1 DEF BookingTypeOK, Document
<1>2. CASE SaveStatus(b, status)
  <2> DEFINE statuses == {"none", "pending", "confirmed", "cancelled", "expired"}
             saved == [status |-> status, hold_expires_at |-> bookings[b].hold_expires_at]
  <2>1. bookings \in [Bookings -> [status: statuses, hold_expires_at: Int]]
    BY DEF BookingTypeOK
  <2>2. bookings' = [bookings EXCEPT ![b] = saved]
    <3>1. [bookings[b] EXCEPT !.status = status] = saved BY <2>1
    <3>2. QED BY <3>1, <1>2 DEF SaveStatus
  <2>3. saved \in [status: statuses, hold_expires_at: Int] BY <2>1
  <2>4. QED BY <2>1, <2>2, <2>3 DEF Document
<1>3. QED BY <1>1, <1>2

(* The steps of one cancelBooking call.                                    *)
LEMMA CancelKeeps ==
  ASSUME BookingInv, NEW b \in Bookings, CancelStep(b)
  PROVE  BookingInv'
<1> USE DEF BookingInv, CallInv, SeatInv
<1>1. \A pc : CancelGoesTo(b, pc) =>
        cancel'[b] = pc /\ \A o \in Bookings \ {b} : UNCHANGED cancel[o]
  BY DEF CancelGoesTo, BookingTypeOK
<1>2. CASE CancelLookup(b)
  <2>1. BookingTypeOK' /\ Document(b)
    BY <1>2 DEF CancelLookup, CancelGoesTo, BookingTypeOK, TypeOK, store, confirmVars, Document
  <2>2. GivenUp(b)' /\ \A o \in Bookings : NoneGained(o)
    BY <1>1, <1>2 DEF CancelLookup, GivenUp, ReleaseUnsaved, Gone, NoneGained, OwnsSeat, store
  <2>3. QED BY <1>1, <1>2, <2>1, <2>2, SettlingKeeps DEF CancelLookup, Document
<1>3. CASE CancelRelease(b)
  <2>1. BookingTypeOK'
    BY <1>3, ReleaseOutcome DEF CancelRelease, CancelGoesTo, BookingTypeOK, confirmVars
  <2>2. GivenUp(b)' /\ Document(b)
    BY <1>3, ReleaseOutcome DEF CancelRelease, GivenUp, ActsOnDocument
  <2>3. QED BY <1>1, <1>3, <2>1, <2>2, ReleaseOutcome, SettlingKeeps DEF CancelRelease, Document
<1>4. CASE CancelSave(b)
  <2>1. Document(b) /\ (SaveStatus(b, "cancelled") \/ UNCHANGED bookings) /\ (Fault \/ NoFault)
    BY <1>4 DEF CancelSave, ActsOnDocument
  <2>2. BookingTypeOK'
    BY <1>4, <2>1, SaveOutcome, FaultsGrow
       DEF CancelSave, CancelGoesTo, BookingTypeOK, TypeOK, confirmVars, store
  <2>3. GivenUp(b)' /\ \A o \in Bookings : NoneGained(o)
    BY <1>4, <2>1, FaultsGrow
       DEF CancelSave, GivenUp, ReleaseUnsaved, Gone, NoneGained, OwnsSeat, store
  <2>4. QED BY <1>1, <1>4, <2>1, <2>2, <2>3, SaveOutcome, FaultsGrow, SettlingKeeps DEF CancelSave
<1>5. QED BY <1>2, <1>3, <1>4 DEF CancelStep

(* The steps of the cron job.                                              *)
LEMMA CronFindKeeps ==
  ASSUME BookingInv, CronFind
  PROVE  BookingInv'
<1> USE DEF BookingInv, CallInv, CronFind, confirmVars
<1>1. BookingTypeOK' BY DEF BookingTypeOK, TypeOK, store
<1>2. ASSUME NEW b \in Bookings PROVE CallInv(b)'
  <2>1. NoneGained(b) BY DEF NoneGained, OwnsSeat, store
  <2>2. cron'.saving = cron.saving BY DEF BookingTypeOK
  <2>3. b \in cron'.queue => Document(b) BY DEF Overdue, Document, BookingTypeOK
  <2>4. HoldInv(b)' BY <2>1, HoldKept DEF Document
  <2>5. SeatInv(b)' BY <2>1, <2>2, SeatsKept DEF ReleaseUnsaved
  <2>6. ActsOnDocument(b)' BY <2>2, <2>3 DEF ActsOnDocument, Document
  <2>7. OfferInTime(b)' BY OfferKept
  <2>8. QED BY <2>4, <2>5, <2>6, <2>7
<1>3. \A b \in Bookings : OneDocument(b)' BY DocumentsKeep DEF Document
<1>4. QED BY <1>1, <1>2, <1>3

(* The cron job releases a booking's seats: nothing of them is left when   *)
(* it goes on to save, unless the release failed.                          *)
LEMMA CronReleaseKeeps ==
  ASSUME BookingInv, NEW b \in Bookings, CronRelease(b)
  PROVE  BookingInv'
<1> USE DEF BookingInv, CallInv, SeatInv, CronRelease
<1>1. cron'.saving = b /\ cron'.queue \subseteq cron.queue OBVIOUS
<1>2. BookingTypeOK' BY ReleaseOutcome DEF BookingTypeOK, confirmVars
<1>3. GivenUp(b)' /\ Document(b) BY ReleaseOutcome DEF GivenUp, ActsOnDocument
<1>4. QED BY <1>1, <1>2, <1>3, ReleaseOutcome, SettlingKeeps DEF Document

(* The cron job saves a status; it released the seats the step before.     *)
LEMMA CronSaveKeeps ==
  ASSUME BookingInv, CronSave
  PROVE  BookingInv'
<1>1. PICK b \in Bookings : b = cron.saving BY DEF CronSave, BookingInv, BookingTypeOK
<1> USE DEF BookingInv, CallInv, SeatInv
<1>2. Document(b) /\ (SaveStatus(b, "expired") \/ UNCHANGED bookings) /\ (Fault \/ NoFault)
  BY <1>1 DEF CronSave, ActsOnDocument
<1>3. cron' = [queue |-> cron.queue, saving |-> NoBooking]
  BY DEF CronSave, BookingTypeOK
<1>4. BookingTypeOK'
  BY <1>1, <1>2, <1>3, SaveOutcome, FaultsGrow
     DEF CronSave, BookingTypeOK, TypeOK, confirmVars, store
<1>5. GivenUp(b)'
  BY <1>1, <1>2, FaultsGrow DEF CronSave, GivenUp, ReleaseUnsaved, Gone, OwnsSeat, store
<1>6. \A o \in Bookings : NoneGained(o) BY DEF CronSave, NoneGained, OwnsSeat, store
<1>7. \A o \in Bookings : o # NoBooking BY Lists
<1>8. QED BY <1>1, <1>2, <1>3, <1>4, <1>5, <1>6, <1>7, SaveOutcome, FaultsGrow, SettlingKeeps
          DEF CronSave

(* Time passes: neither a deadline on its way nor an answer about to be    *)
(* cached becomes older than MaxLatency.                                   *)
LEMMA ClockKeeps ==
  ASSUME BookingInv, ClockStep
  PROVE  BookingInv'
<1> USE DEF BookingInv, CallInv, ClockStep, callVars, confirmVars
<1>1. now' = now + 1 /\ UNCHANGED store BY DEF Tick
<1>2. /\ now \in Nat /\ MaxLatency \in Nat /\ HoldSeconds \in Nat /\ Skew \in Int
  BY ClockAssumption DEF BookingTypeOK, TypeOK
<1>3. BookingTypeOK' BY <1>1, <1>2 DEF BookingTypeOK, TypeOK, store
<1>4. ASSUME NEW b \in Bookings PROVE CallInv(b)'
  <2>1. SentInTime(b)'
    <3>1. SUFFICES ASSUME hold[b].pc = "reserve"
                   PROVE  \E late \in 0..MaxLatency : hold[b].deadline = AppNow' + HoldSeconds - late
      BY DEF SentInTime
    <3>2. PICK late \in 0..MaxLatency : hold[b].deadline = AppNow + HoldSeconds - late
      BY <3>1 DEF HoldInv, SentInTime
    <3>3. AppNow + HoldSeconds < hold[b].deadline + MaxLatency BY <3>1
    <3>4. late + 1 \in 0..MaxLatency BY <3>2, <3>3, <1>2 DEF AppNow
    <3>5. hold[b].deadline = AppNow' + HoldSeconds - (late + 1)
      BY <3>2, <1>1, <1>2 DEF AppNow
    <3>6. QED BY <3>4, <3>5, Zenon
  <2>2. HoldProgress(b)' /\ HoldUndisturbed(b)'
    BY <1>1 DEF HoldInv, HoldProgress, HoldUndisturbed, Document, Gone, OwnsSeat, store
  <2>3. SeatInv(b)' BY <1>1, SeatsKept DEF NoneGained, OwnsSeat, store, ReleaseUnsaved
  <2>4. ActsOnDocument(b)' BY DEF ActsOnDocument, Document
  <2>5. OfferInTime(b)'
    <3>1. confirm[b].latest \in Nat BY DEF BookingTypeOK
    <3>2. confirm[b].pc = "cache" => now + 1 <= confirm[b].latest
      BY <1>2, <3>1
    <3>3. QED BY <1>1, <3>2 DEF OfferInTime
  <2>6. QED BY <2>1, <2>2, <2>3, <2>4, <2>5 DEF HoldInv
<1>5. \A b \in Bookings : OneDocument(b)' BY DocumentsKeep DEF Document
<1>6. QED BY <1>3, <1>4, <1>5

(* A restart loses calls, and is a fault.                                  *)
LEMMA CrashKeeps ==
  ASSUME BookingInv, BookingCrash
  PROVE  BookingInv'
<1> USE DEF BookingInv, CallInv, BookingCrash
<1>1. faults' # 0 /\ faults' \in 0..MaxFaults BY FaultsGrow
<1>2. BookingTypeOK'
  <2>1. HoldAt("lost", 0) \in [pc: {"lost"}, deadline: Int] BY DEF HoldAt
  <2>2. QED BY <1>1, <2>1 DEF BookingTypeOK, TypeOK, store, ConfirmAt, CronIdle
<1>3. ASSUME NEW b \in Bookings PROVE CallInv(b)'
  <2>1. hold'[b].pc = "lost" \/ (~ InProgress(b) /\ hold'[b] = hold[b]) BY DEF HoldAt
  <2>2. HoldInv(b)'
    BY <1>1, <2>1 DEF HoldInv, SentInTime, HoldProgress, HoldUndisturbed, Document, Gone, OwnsSeat,
                      store, InProgress
  <2>3. SeatInv(b)' BY <1>1 DEF SeatInv, OwnSeatsOnly, GivenUp, OwnsSeat, store, List
  <2>4. ActsOnDocument(b)'
    BY Lists DEF ActsOnDocument, Document, ConfirmAt, CronIdle
  <2>5. OfferInTime(b)' BY DEF OfferInTime, ConfirmAt
  <2>6. QED BY <2>2, <2>3, <2>4, <2>5
<1>4. \A b \in Bookings : OneDocument(b)' BY DocumentsKeep DEF Document
<1>5. QED BY <1>2, <1>3, <1>4

(* Every step of the service keeps the invariant.                          *)
LEMMA BookingInvStep ==
  ASSUME BookingInv, BookingStep \/ BookingCrash
  PROVE  BookingInv'
BY HoldKeeps, ConfirmKeeps, CancelKeeps, CronFindKeeps, CronReleaseKeeps, CronSaveKeeps,
   ClockKeeps, CrashKeeps
   DEF BookingStep, CronStep

(* It holds before the first request: no documents, no seats, no calls.    *)
LEMMA BookingInvInit ==
  ASSUME BookingInit
  PROVE  BookingInv
<1> USE DEF BookingInit
<1>1. BookingTypeOK
  BY TypeInit, ClockAssumption DEF BookingTypeOK, HoldAt, ConfirmAt, CronIdle
<1>2. \A b \in Bookings : Gone(b)
  BY SeatsAssumption DEF Gone, OwnsSeat, Init, Free, Seat
<1>3. ASSUME NEW b \in Bookings PROVE CallInv(b) /\ OneDocument(b)
  BY <1>2, Lists
     DEF CallInv, HoldInv, SentInTime, HoldProgress, HoldUndisturbed, SeatInv, OwnSeatsOnly, GivenUp,
         ReleaseUnsaved, ActsOnDocument, OfferInTime, OneDocument, Document, HoldAt, ConfirmAt,
         CronIdle, Gone
<1>4. QED BY <1>1, <1>3 DEF BookingInv

(* The idle step of the runs' bounded time changes nothing.                *)
LEMMA BookingInvEnd ==
  ASSUME BookingInv, UNCHANGED bookingVars
  PROVE  BookingInv'
<1> USE DEF BookingInv, CallInv, bookingVars, callVars, confirmVars
<1>1. BookingTypeOK' BY DEF BookingTypeOK, TypeOK
<1>2. \A b \in Bookings : CallInv(b)' BY OthersKeep DEF NoneGained, OwnsSeat
<1>3. \A b \in Bookings : OneDocument(b)' BY DocumentsKeep DEF Document
<1>4. QED BY <1>1, <1>2, <1>3

(***************************************************************************)
(* The properties the runs check                                           *)
(***************************************************************************)
(* BookingInv is an invariant of the booking service.                      *)
LEMMA BookingInvHolds == BookingSpec => []BookingInv
<1>1. BookingInv /\ [BookingNext]_bookingVars => BookingInv'
  BY BookingInvStep, BookingInvEnd DEF BookingNext, BookingEnd
<1>2. QED BY <1>1, BookingInvInit, PTL DEF BookingSpec

(* What follows from the invariant alone, for whatever composes bookings   *)
(* with other components.                                                  *)
LEMMA BookingSafety ==
  ASSUME BookingInv
  PROVE  /\ BookingTypeOK /\ RefusedOwnsNothing /\ OneClaimPerKey
         /\ ClosedOwnsNothing /\ OffersLapse
<1> USE DEF BookingInv, CallInv
<1>1. RefusedOwnsNothing
  BY DEF RefusedOwnsNothing, HoldInv, HoldProgress, HoldUndisturbed, Gone
<1>2. ASSUME NEW b \in Bookings, NEW s \in Seats, OwnsSeat(b, s), faults = 0, ~ InProgress(b)
      PROVE  Document(b)
  <2>1. hold[b].pc \in {"idle", "answered", "held", "refused", "lost"}
    BY <1>2 DEF BookingTypeOK, InProgress
  <2>2. QED BY <1>2, <2>1 DEF HoldInv, HoldProgress, HoldUndisturbed, Gone
<1>3. OneClaimPerKey BY <1>2 DEF OneClaimPerKey, OneDocument, Document
<1>4. ClosedOwnsNothing BY DEF ClosedOwnsNothing, SeatInv, GivenUp, Gone
<1>5. OffersLapse BY DEF OffersLapse, OfferInTime
<1>6. QED BY <1>1, <1>3, <1>4, <1>5

(* Types, for every number of requests.                                    *)
THEOREM BookingTypeCorrect == BookingSpec => []BookingTypeOK
BY BookingInvHolds, BookingSafety, PTL

(* A request of holdSeats that ends in an error, or is answered with an    *)
(* earlier booking, leaves no seat behind unless a fault came between.     *)
THEOREM RefusedClean == BookingSpec => []RefusedOwnsNothing
BY BookingInvHolds, BookingSafety, PTL

(* However many retries of holdSeats share an idempotency key, and however *)
(* they overlap, at most one of them ends up with a document and with      *)
(* seats.                                                                  *)
THEOREM SingleClaim == BookingSpec => []OneClaimPerKey
BY BookingInvHolds, BookingSafety, PTL

(* Whichever of the user and the cron job ends a booking, its seats are    *)
(* gone from Redis by the time MongoDB says so, and stay gone.             *)
THEOREM ClosedClean == BookingSpec => []ClosedOwnsNothing
BY BookingInvHolds, BookingSafety, PTL

(* A cached payment URL lapses a fixed time after the hold it was given    *)
(* out for, whatever the clocks differ by.                                 *)
THEOREM OffersAreTimely == BookingSpec => []OffersLapse
BY BookingInvHolds, BookingSafety, PTL

(* What the booking service asks of the store, with calls that arrive late *)
(* and replies that are lost, stays within what the store promises.        *)
LEMMA BookingLedgerStep ==
  ASSUME BookingInv, BookingInv', [BookingNext]_bookingVars
  PROVE  [Ledger!LedgerNext]_ledgerOf
<1> USE DEF BookingInv, CallInv, HoldInv, BookingTypeOK
<1>1. [Next]_vars
  BY BookingStoreStep DEF BookingNext, BookingEnd, bookingVars, vars
<1>2. QED BY <1>1, LedgerStep

(* The booking service uses the store within what the ledger allows: a     *)
(* seat under a live hold is never handed over, and it comes back only by  *)
(* a release in its holder's name.                                         *)
THEOREM BookingsImplementLedger == BookingSpec => LedgerSpec
<1>1. BookingInit => Ledger!LedgerInit
  BY DEF BookingInit, Init, Ledger!LedgerInit, LedgerEntry, Ledger!Nobody, Ledger!Entry, Free, Seat
<1>2. BookingInv /\ BookingInv' /\ [BookingNext]_bookingVars => [Ledger!LedgerNext]_ledgerOf
  BY BookingLedgerStep
<1>3. QED
  BY <1>1, <1>2, BookingInvHolds, PTL DEF BookingSpec, LedgerSpec, Ledger!LedgerSpec, ledgerOf

(***************************************************************************)
(* A live booking owns its seats.  The invariant is about the call that is *)
(* about to create the document as well, and about deadlines: what Redis   *)
(* has is no earlier than what the booking was promised.                   *)
(***************************************************************************)
Live(b) == hold[b].pc = "create" \/ (bookings[b].status = "pending" /\ ~ ReleaseUnsaved(b))
Promised(b) ==
  (IF hold[b].pc = "create" THEN hold[b].deadline ELSE bookings[b].hold_expires_at) - MaxLatency
HoldsSeat(b, s) ==
  seats[s].status = "held" /\ seats[s].booking_id = b /\ seats[s].held_until >= Promised(b)

LiveOwnsItsSeats(b) ==
  faults = 0 /\ Live(b) /\ Promised(b) > now => \A s \in Range(List(b)) : HoldsSeat(b, s)
LiveInv == BookingInv /\ \A b \in Bookings : LiveOwnsItsSeats(b)

(* Nobody else's call takes a seat whose hold has not run out.             *)
LiveSeatsStay(b) ==
  \A s \in Seats :
    seats[s].status = "held" /\ seats[s].booking_id = b /\ seats[s].held_until > now
      => seats'[s] = seats[s]

(* Every seat has a deadline to compare with, a free one as well.          *)
LEMMA HoldDeadlines ==
  ASSUME TypeOK
  PROVE  \A s \in Seats : seats[s].held_until \in Int
BY DEF TypeOK, SeatData, Missing, Free, Seat

(* A script in the name of another booking leaves a seat alone whose hold  *)
(* has not run out: a reservation refuses it, a release compares the       *)
(* owner.                                                                  *)
LEMMA OthersLeaveSeats ==
  ASSUME BookingTypeOK, NEW b \in Bookings, NEW o \in Bookings \ {b},
         \/ \E until : BatchReserve(o, List(o), until)
         \/ ReleaseSeats(o, List(o))
         \/ UNCHANGED store
  PROVE  LiveSeatsStay(b)
<1>1. ASSUME NEW until, BatchReserve(o, List(o), until) PROVE LiveSeatsStay(b)
  <2>1. \A s \in Range(List(o)) : Reservable(s)
    BY <1>1 DEF BatchReserve, CanReserve, Range
  <2>2. \A s \in Seats : seats[s].held_until \in Int /\ now \in Int
    BY HoldDeadlines DEF BookingTypeOK, TypeOK
  <2>3. \A s \in Seats : s \notin Range(List(o)) => seats'[s] = seats[s]
    BY <1>1 DEF BatchReserve
  <2>4. QED BY <2>1, <2>2, <2>3 DEF Reservable, LiveSeatsStay
<1>2. CASE ReleaseSeats(o, List(o))
  BY <1>2 DEF ReleaseSeats, Released, Releasable, LiveSeatsStay
<1>3. CASE UNCHANGED store BY <1>3 DEF store, LiveSeatsStay
<1>4. QED BY <1>1, <1>2, <1>3

(* A live booking keeps its seats through every step that leaves them and  *)
(* its promise alone.                                                      *)
LEMMA LiveKept ==
  ASSUME BookingTypeOK, BookingTypeOK', NEW b \in Bookings, LiveOwnsItsSeats(b), LiveSeatsStay(b),
         now' >= now, faults' = 0 => faults = 0,
         Live(b)' => Live(b) /\ Promised(b)' = Promised(b)
  PROVE  LiveOwnsItsSeats(b)'
<1>1. SUFFICES ASSUME faults' = 0, Live(b)', Promised(b)' > now', NEW s \in Range(List(b))
               PROVE  HoldsSeat(b, s)'
  BY DEF LiveOwnsItsSeats, List
<1>2. Promised(b) \in Int /\ now \in Int /\ now' \in Int
  BY ClockAssumption DEF Promised, BookingTypeOK, TypeOK
<1>3. s \in Seats /\ seats[s].held_until \in Int
  <2>1. s \in Seats BY Lists
  <2>2. QED BY <2>1, HoldDeadlines DEF BookingTypeOK
<1>4. HoldsSeat(b, s) /\ Promised(b) > now
  BY <1>1, <1>2 DEF LiveOwnsItsSeats
<1>5. seats'[s] = seats[s] BY <1>2, <1>3, <1>4 DEF HoldsSeat, LiveSeatsStay
<1>6. QED BY <1>1, <1>4, <1>5 DEF HoldsSeat

(* holdSeats: a reservation gives a booking all its seats, with a deadline *)
(* no earlier than the promise that goes into the document.                *)
LEMMA LiveHoldStep ==
  ASSUME BookingInv, BookingInv', NEW o \in Bookings, HoldSeatsStep(o),
         NEW b \in Bookings, LiveOwnsItsSeats(b)
  PROVE  LiveOwnsItsSeats(b)'
<1> USE DEF BookingInv, CallInv
<1>1. /\ UNCHANGED << now, confirmVars, cancel, cron >>
      /\ faults' = 0 => faults = 0
      /\ now \in Int
  BY FaultsGrow DEF HoldSeatsStep, HoldLookup, HoldReserve, HoldCreate, HoldCache, HoldRollback,
                    BatchReserve, ReleaseOrError, ReleaseSeats, NoFault, BookingTypeOK, TypeOK
<1>2. CASE o # b
  <2>1. UNCHANGED << hold[b], bookings[b] >>
    BY <1>2 DEF HoldSeatsStep, HoldLookup, HoldReserve, HoldCreate, HoldCache, HoldRollback,
                HoldGoesTo, HoldWith, BookingTypeOK
  <2>2. \/ \E until : BatchReserve(o, List(o), until)
        \/ ReleaseSeats(o, List(o))
        \/ UNCHANGED store
    BY DEF HoldSeatsStep, HoldLookup, HoldReserve, HoldCreate, HoldCache, HoldRollback, ReleaseOrError
  <2>3. QED BY <1>1, <1>2, <2>1, <2>2, OthersLeaveSeats, LiveKept
            DEF Live, Promised, ReleaseUnsaved
<1>3. CASE o = b
  <2>1. CASE HoldReserve(b) /\ hold'[b].pc = "create"
    <3>1. BatchReserve(b, List(b), hold[b].deadline) /\ HoldWith(b, "create", AppNow + HoldSeconds)
      BY <2>1 DEF HoldReserve, HoldGoesTo, HoldWith, HoldAt, BookingTypeOK
    <3>2. hold'[b] = HoldAt("create", AppNow + HoldSeconds)
      BY <3>1 DEF HoldWith, BookingTypeOK
    <3>3. PICK late \in 0..MaxLatency : hold[b].deadline = AppNow + HoldSeconds - late
      BY <2>1 DEF HoldReserve, HoldInv, SentInTime
    <3>4. Promised(b)' <= hold[b].deadline
      BY <1>1, <3>2, <3>3, ClockAssumption DEF Promised, HoldAt, AppNow
    <3>5. \A s \in Range(List(b)) : seats'[s] = Held(b, hold[b].deadline)
      BY <3>1, Lists DEF BatchReserve
    <3>6. QED BY <3>4, <3>5 DEF LiveOwnsItsSeats, HoldsSeat, Held, Seat, List
  <2>2. CASE HoldCreate(b)
    <3>1. /\ hold[b].pc = "create"
          /\ bookings[b].status = "none"
          /\ \/ UNCHANGED bookings
             \/ bookings'[b] = [status |-> "pending", hold_expires_at |-> hold[b].deadline]
          /\ hold'[b].pc # "create"
      BY <2>2 DEF HoldCreate, HoldInv, HoldProgress, Document, HoldGoesTo, HoldWith, HoldAt,
                  BookingTypeOK
    <3>2. LiveSeatsStay(b) BY <2>2 DEF HoldCreate, store, LiveSeatsStay
    <3>3. QED BY <1>1, <3>1, <3>2, LiveKept DEF Live, Promised
  <2>3. CASE HoldCache(b)
    <3>1. hold[b].pc = "cache" /\ hold'[b].pc # "create" /\ UNCHANGED << store, bookings >>
      BY <2>3 DEF HoldCache, HoldGoesTo, HoldWith, HoldAt, BookingTypeOK
    <3>2. LiveSeatsStay(b) BY <3>1 DEF store, LiveSeatsStay
    <3>3. QED BY <1>1, <3>1, <3>2, LiveKept DEF Live, Promised, ReleaseUnsaved
  <2>4. CASE ~ (HoldCreate(b) \/ HoldCache(b)) /\ hold'[b].pc # "create"
    <3>1. faults = 0 => bookings[b].status = "none" /\ UNCHANGED bookings
      BY <1>3, <2>4 DEF HoldSeatsStep, HoldLookup, HoldReserve, HoldRollback, HoldInv, HoldProgress,
                        HoldUndisturbed, Document
    <3>2. QED BY <1>1, <2>4, <3>1 DEF LiveOwnsItsSeats, Live
  <2>5. CASE (HoldLookup(b) \/ HoldRollback(b)) /\ hold'[b].pc = "create"
    BY <2>5 DEF HoldLookup, HoldRollback, HoldGoesTo, HoldWith, HoldAt, BookingTypeOK
  <2>6. QED BY <1>3, <2>1, <2>2, <2>3, <2>4, <2>5 DEF HoldSeatsStep
<1>4. QED BY <1>2, <1>3

(* cancelBooking: once a release was sent the booking is live no more.     *)
LEMMA LiveCancelStep ==
  ASSUME BookingInv, BookingInv', NEW o \in Bookings, CancelStep(o),
         NEW b \in Bookings, LiveOwnsItsSeats(b)
  PROVE  LiveOwnsItsSeats(b)'
<1> USE DEF BookingInv, CallInv
<1>1. /\ UNCHANGED << now, hold, cron >>
      /\ faults' = 0 => faults = 0
      /\ now \in Int
  BY FaultsGrow DEF CancelStep, CancelLookup, CancelRelease, CancelSave,
                    ReleaseOrError, ReleaseSeats, NoFault, BookingTypeOK, TypeOK
<1>2. CASE o # b
  <2>1. UNCHANGED << cancel[b], bookings[b] >>
    BY <1>2 DEF CancelStep, CancelLookup, CancelRelease, CancelSave, CancelGoesTo, SaveStatus,
                BookingTypeOK
  <2>2. ReleaseSeats(o, List(o)) \/ UNCHANGED store
    BY DEF CancelStep, CancelLookup, CancelRelease, CancelSave, ReleaseOrError
  <2>3. QED BY <1>1, <1>2, <2>1, <2>2, OthersLeaveSeats, LiveKept
            DEF Live, Promised, ReleaseUnsaved
<1>3. CASE o = b
  <2>1. cancel[b] # "idle" => hold[b].pc # "create"
    BY DEF ActsOnDocument, HoldInv, HoldProgress
  <2>2. CASE CancelLookup(b)
    <3>1. LiveSeatsStay(b) /\ UNCHANGED bookings /\ cancel[b] # "save"
      BY <2>2 DEF CancelLookup, store, LiveSeatsStay
    <3>2. QED BY <1>1, <3>1, LiveKept DEF Live, Promised, ReleaseUnsaved
  <2>3. CASE CancelRelease(b)
    <3>1. cancel'[b] = "save" /\ hold'[b].pc # "create"
      BY <1>1, <2>1, <2>3 DEF CancelRelease, CancelGoesTo, BookingTypeOK
    <3>2. QED BY <3>1 DEF LiveOwnsItsSeats, Live, ReleaseUnsaved
  <2>4. CASE CancelSave(b)
    <3>1. hold'[b].pc # "create" /\ Document(b) BY <1>1, <2>1, <2>4 DEF CancelSave, ActsOnDocument
    <3>2. faults' = 0 => bookings'[b].status # "pending"
      <4>1. faults' = 0 => SaveStatus(b, "cancelled")
        BY <2>4, FaultsGrow DEF CancelSave
      <4>2. QED BY <4>1 DEF SaveStatus, BookingTypeOK
    <3>3. QED BY <3>1, <3>2 DEF LiveOwnsItsSeats, Live
  <2>5. QED BY <1>3, <2>2, <2>3, <2>4 DEF CancelStep
<1>4. QED BY <1>2, <1>3

(* The cron job: the same, for the one booking it is working on.           *)
LEMMA LiveCronStep ==
  ASSUME BookingInv, BookingInv', CronStep, NEW b \in Bookings, LiveOwnsItsSeats(b)
  PROVE  LiveOwnsItsSeats(b)'
<1> USE DEF BookingInv, CallInv
<1>1. /\ UNCHANGED << now, hold, cancel >>
      /\ faults' = 0 => faults = 0
      /\ now \in Int
  BY FaultsGrow DEF CronStep, CronFind, CronRelease, CronSave,
                    ReleaseOrError, ReleaseSeats, NoFault, BookingTypeOK, TypeOK
<1>2. cron.saving = b => hold[b].pc # "create"
  BY DEF ActsOnDocument, HoldInv, HoldProgress
<1>3. CASE CronFind
  <2>1. LiveSeatsStay(b) /\ UNCHANGED bookings /\ cron'.saving = cron.saving
    BY <1>3 DEF CronFind, store, LiveSeatsStay, BookingTypeOK
  <2>2. QED BY <1>1, <2>1, LiveKept DEF Live, Promised, ReleaseUnsaved
<1>4. CASE CronSave
  <2>1. CASE cron.saving = b
    <3>1. hold'[b].pc # "create" /\ Document(b) BY <1>1, <1>2, <2>1 DEF ActsOnDocument
    <3>2. faults' = 0 => SaveStatus(b, "expired") BY <1>4, <2>1, FaultsGrow DEF CronSave
    <3>3. faults' = 0 => bookings'[b].status # "pending"
      BY <3>2 DEF SaveStatus, BookingTypeOK
    <3>4. QED BY <3>1, <3>3 DEF LiveOwnsItsSeats, Live
  <2>2. CASE cron.saving # b
    <3>1. bookings'[b] = bookings[b]
      BY <1>4, <2>2 DEF CronSave, SaveStatus, BookingTypeOK
    <3>2. LiveSeatsStay(b) BY <1>4 DEF CronSave, store, LiveSeatsStay
    <3>3. QED BY <1>1, <2>2, <3>1, <3>2, LiveKept DEF Live, Promised, ReleaseUnsaved
  <2>3. QED BY <2>1, <2>2
<1>5. ASSUME NEW o \in Bookings, CronRelease(o) PROVE LiveOwnsItsSeats(b)'
  <2>1. UNCHANGED bookings /\ cron'.saving = o /\ cron.saving = NoBooking
    BY <1>5 DEF CronRelease
  <2>2. CASE o = b
    <3>1. hold'[b].pc # "create"
      BY <1>1, <1>5, <2>2 DEF CronRelease, ActsOnDocument, HoldInv, HoldProgress
    <3>2. QED BY <2>1, <2>2, <3>1 DEF LiveOwnsItsSeats, Live, ReleaseUnsaved
  <2>3. CASE o # b
    <3>1. ReleaseSeats(o, List(o)) \/ UNCHANGED store
      BY <1>5 DEF CronRelease, ReleaseOrError
    <3>2. LiveSeatsStay(b) BY <2>3, <3>1, OthersLeaveSeats
    <3>3. b # NoBooking BY Lists
    <3>4. QED BY <1>1, <2>1, <2>3, <3>2, <3>3, LiveKept DEF Live, Promised, ReleaseUnsaved
  <2>4. QED BY <2>2, <2>3
<1>6. QED BY <1>3, <1>4, <1>5 DEF CronStep

(* Every step keeps the seats of a live booking: others leave them alone,  *)
(* time only makes promises lapse, a restart is a fault.                   *)
LEMMA LiveStep ==
  ASSUME BookingInv, BookingInv', BookingStep \/ BookingCrash \/ UNCHANGED bookingVars,
         NEW b \in Bookings, LiveOwnsItsSeats(b)
  PROVE  LiveOwnsItsSeats(b)'
<1> USE DEF BookingInv, callVars, confirmVars
<1>1. CASE \E o \in Bookings : ConfirmStep(o)
  <2>1. UNCHANGED << store, now, bookings, hold, cancel, cron >> /\ (Fault \/ NoFault)
    BY <1>1 DEF ConfirmStep, ConfirmLookup, ConfirmCache, ConfirmReplay, NoFault
  <2>2. now' >= now BY <2>1 DEF BookingTypeOK, TypeOK
  <2>3. LiveSeatsStay(b) BY <2>1 DEF store, LiveSeatsStay
  <2>4. QED BY <2>1, <2>2, <2>3, FaultsGrow, LiveKept DEF Live, Promised, ReleaseUnsaved
<1>2. CASE ClockStep
  <2>1. UNCHANGED << store, bookings, hold, cancel, cron, faults >> /\ now' = now + 1
    BY <1>2 DEF ClockStep, Tick
  <2>2. now' >= now BY <2>1 DEF BookingTypeOK, TypeOK
  <2>3. LiveSeatsStay(b) BY <2>1 DEF store, LiveSeatsStay
  <2>4. QED BY <2>1, <2>2, <2>3, LiveKept DEF Live, Promised, ReleaseUnsaved
<1>3. CASE BookingCrash
  BY <1>3, FaultsGrow DEF BookingCrash, LiveOwnsItsSeats
<1>4. CASE UNCHANGED bookingVars
  <2>1. now' >= now BY <1>4 DEF bookingVars, BookingTypeOK, TypeOK
  <2>2. LiveSeatsStay(b) BY <1>4 DEF bookingVars, LiveSeatsStay
  <2>3. QED BY <1>4, <2>1, <2>2, LiveKept DEF bookingVars, Live, Promised, ReleaseUnsaved
<1>5. QED
  BY <1>1, <1>2, <1>3, <1>4, LiveHoldStep, LiveCancelStep, LiveCronStep DEF BookingStep

(* A booking that is live after a step without a fault has lost no seat    *)
(* that was booked for it: a release in its own name ends its being live.  *)
LEMMA LiveKeepsBooked ==
  ASSUME BookingInv, BookingStep \/ BookingCrash, NEW b \in Bookings, faults' = 0, Live(b)'
  PROVE  \A s \in Seats : seats[s] = Booked(b) => seats'[s] = Booked(b)
<1> USE DEF BookingInv, CallInv
<1>1. ASSUME NEW o \in Bookings, HoldRollback(o) \/ CancelRelease(o) \/ CronRelease(o)
      PROVE  \A s \in Seats : seats[s] = Booked(b) => seats'[s] = Booked(b)
  <2>1. ReleaseOrError(o) BY <1>1 DEF HoldRollback, CancelRelease, CronRelease
  <2>2. o # b
    <3>1. HoldRollback(b) => ~ Live(b)'
      <4>1. HoldRollback(b) => hold[b].pc = "rollback" /\ hold'[b].pc = "refused" /\ UNCHANGED bookings
        BY DEF HoldRollback, HoldGoesTo, HoldWith, HoldAt, BookingTypeOK
      <4>2. HoldRollback(b) => faults = 0
        BY FaultsGrow DEF HoldRollback, ReleaseOrError
      <4>3. HoldRollback(b) => ~ Document(b)
        BY <4>1, <4>2 DEF HoldInv, HoldProgress, HoldUndisturbed, Document
      <4>4. QED BY <4>1, <4>3 DEF Live, Document
    <3>2. CancelRelease(b) => ~ Live(b)'
      BY DEF CancelRelease, CancelGoesTo, BookingTypeOK, ActsOnDocument, HoldInv, HoldProgress,
             Live, ReleaseUnsaved
    <3>3. CronRelease(b) => ~ Live(b)'
      BY DEF CronRelease, ActsOnDocument, HoldInv, HoldProgress, Live, ReleaseUnsaved
    <3>4. QED BY <1>1, <3>1, <3>2, <3>3
  <2>3. QED
    BY <2>1, <2>2 DEF ReleaseOrError, ReleaseSeats, Released, Releasable, Booked, Seat, store
<1>2. ASSUME NEW o \in Bookings, HoldReserve(o)
      PROVE  \A s \in Seats : seats[s] = Booked(b) => seats'[s] = Booked(b)
  <2>1. \A s \in Range(List(o)) : CanReserve(List(o)) => seats[s].status # "booked"
    BY DEF CanReserve, Reservable, Range
  <2>2. QED BY <1>2, <2>1 DEF HoldReserve, BatchReserve, Booked, Seat, store
<1>3. CASE UNCHANGED store BY <1>3 DEF store
<1>4. QED
  BY <1>1, <1>2, <1>3
     DEF BookingStep, HoldSeatsStep, HoldLookup, HoldCreate, HoldCache, ConfirmStep, ConfirmLookup,
         ConfirmCache, ConfirmReplay, CancelStep, CancelLookup, CancelSave, CronStep, CronFind,
         CronSave, ClockStep, Tick, BookingCrash

(* A pending booking whose seats nobody has released is live, and promised *)
(* what its document says.                                                 *)
LEMMA PendingIsLive ==
  ASSUME BookingInv, NEW b \in Bookings, bookings[b].status = "pending", ~ ReleaseUnsaved(b)
  PROVE  Live(b) /\ Promised(b) = bookings[b].hold_expires_at - MaxLatency
<1>1. hold[b].pc # "create" BY DEF BookingInv, CallInv, HoldInv, HoldProgress, Document
<1>2. QED BY <1>1 DEF Live, Promised

(* While the document of a booking says pending and its hold has not run   *)
(* out, by the Redis clock and short of the latency of the call that       *)
(* reserved, Redis has all its seats in its name.                          *)
THEOREM PendingOwnsSeats == BookingSpec => []PendingOwnsItsSeats
<1>1. BookingInit => LiveInv
  BY BookingInvInit DEF BookingInit, LiveInv, LiveOwnsItsSeats, Live, HoldAt
<1>2. ASSUME LiveInv, [BookingNext]_bookingVars PROVE LiveInv'
  <2>1. BookingInv' BY <1>2, BookingInvStep, BookingInvEnd DEF BookingNext, BookingEnd, LiveInv
  <2>2. QED BY <1>2, <2>1, LiveStep DEF LiveInv, BookingNext, BookingEnd
<1>3. LiveInv => PendingOwnsItsSeats
  <2>1. SUFFICES ASSUME LiveInv, NEW b \in Bookings, faults = 0, bookings[b].status = "pending",
                        bookings[b].hold_expires_at - MaxLatency > now, ~ ReleaseUnsaved(b)
                 PROVE  OwnsAll(b)
    BY DEF PendingOwnsItsSeats
  <2>2. Live(b) /\ Promised(b) > now BY <2>1, PendingIsLive DEF LiveInv
  <2>3. \A s \in Range(List(b)) : HoldsSeat(b, s)
    BY <2>1, <2>2 DEF LiveInv, LiveOwnsItsSeats
  <2>4. QED BY <2>3 DEF HoldsSeat, OwnsAll, OwnsSeat
<1>4. QED BY <1>1, <1>2, <1>3, PTL DEF BookingSpec
================================================================================
