# Verification of fs-booking

fs-booking sells cinema seats. Seats are claimed in Redis by Lua scripts, bookings and payments are
MongoDB documents, and a payment gateway reports through webhooks whether a payment was made. Nothing
joins the two stores in one transaction, so most of what can go wrong happens between a script and a
save. This directory holds TLA+ modules translated from the source, TLC configurations that check them on
small instances, and TLAPS proofs of the facts that hold for every instance.

## 1. The system

| Component | Source | State | Operations |
|---|---|---|---|
| Seat store | `modules/redis/seat-reservation.service.ts`, `lua-scripts/*.lua` | per showtime: hash `showtime:{id}:seats`, counter `showtime:{id}:available` | reserve (batch, single), confirm, release, clean expired holds, read status (which cleans too), extend a hold, initialise, delete |
| Booking service | `modules/booking/booking.service.ts`, `booking.schema.ts` | collection `bookings`, caches `idempotency:hold:{key}`, `idempotency:confirm:{key}` | `holdSeats`, `confirmBooking`, `cancelBooking`, cron `releaseExpiredHolds`, `confirmSeatsAfterPayment`, `releaseSeatsAfterPaymentFailure`, queries |
| Payment service | `modules/payment/payment.service.ts`, `payment.schema.ts` | collection `payments` | `createPayment`, `handleWebhook` |
| Idempotency service | `modules/payment/idempotency.service.ts` | collection `idempotency_keys` with a TTL | check, complete, fail a key |
| Showtime service | `modules/showtime/showtime.service.ts` | collection `showtimes`; the two Redis keys of a showtime | initialise, sync, delete |
| Distributed lock | `modules/redis/distributed-lock.service.ts` | one Redis key per resource | acquire with retries, release, extend, `withLock` |
| Redis connection | `modules/redis/redis.module.ts`, `redis.service.ts`, `seat-reservation.service.ts` | one ioredis client, the SHAs of the scripts | connect, reconnect, give up; load scripts, `executeScript` |
| Health checks | `modules/health/` | none | ask MongoDB and Redis side by side |
| Gateway | external | transactions | reports success or failure, late, repeatedly, in any order |
| Guards, filters, decorators, controllers, DTOs, catalogue, seeder | `common/`, `modules/{cinema,movie}`, `seeds/` | none of their own | validation and reads |

How they interact:

* `holdSeats` calls the reserve script, then inserts a `pending` document, then writes the cache; a failure
  after the script calls the release script. Each arrow is an `await` at which any other request may run.
* `createPayment` reads the booking, searches the payments, inserts one and calls the gateway.
* The gateway calls `handleWebhook`, which updates the payment conditionally and then calls the booking
  service, which runs the confirm or the release script and saves the booking.
* The cron job queries overdue `pending` documents once and releases and saves them one after another,
  from the documents as they were loaded.
* Redis judges holds by its own clock; the deadlines come from the application's.

What is hard: requests, webhooks and the cron job interleave at every await; documents are decided on
after they have gone stale; a reply may be lost after its script ran; the process may stop between a script
and a save; webhooks are repeated and reordered; a payment lives longer (15 minutes) than the hold it pays
for (10); two clocks; requests may repeat a seat. `PROJECT.json` lists each hazard at its line.

What makes each component correct:

* seat store: a request gets all its seats or none; a live hold is never transferred; only the booking that
  holds a seat buys it; a sold seat leaves only by that booking's own release; the counter is right;
* booking service: one claim per idempotency key; a refused request leaves nothing; a live pending booking
  has its seats; no booking is pending for ever;
* payments: what is sold is paid for; one webhook settles a payment; a confirmed booking has its seats;
* idempotency keys: one execution, one body, one answer and one payment per key;
* showtime keys: one call that fills them in, and is sent once, takes no seat from anyone; a hash is complete or is
  not there;
* connection: a call's script runs again only if a reply was lost; a lost script cache costs nothing; every
  request is answered;
* lock: clients that mind the latency are alone; only the owner extends and releases.

## 2. Modules

| Module | Models | Main correspondence |
|---|---|---|
| `SeatLedger` | what the seat store promises, with no clock, counter or hash fields | a seat is free, protected, lapsing or sold |
| `SeatReservation` | the hash, the counter, the Redis clock, every script | one action per script (Redis runs a script without interruption): `BatchReserve`, `SingleReserve`, `ConfirmSeats`, `ReleaseSeats`, `CleanupExpiredHolds`, `GetSeatsStatus`, `ExtendHold` |
| `KeyPromise` | what idempotency keys promise the clients of `createPayment`: a key is unused, busy with one body, or settled with that body and one answer | `PaymentIdempotency` implements it (`PromiseSpec`) |
| `BookingService` (extends `SeatReservation`) | bookings, the cache, one process per `holdSeats`, `confirmBooking` and `cancelBooking` call, the cron job, restarts | `HoldLookup`, `HoldReserve`, `HoldCreate`, `HoldCache`, `HoldRollback`; `ConfirmLookup`, `ConfirmCache`, `ConfirmReplay`; `CancelLookup`, `CancelRelease`, `CancelSave`; `CronFind`, `CronRelease`, `CronSave`; `BookingCrash` |
| `PaymentService` (extends `BookingService`) | payments, `createPayment`, the gateway, webhook handlers: the whole system | `CheckoutLookup`, `CheckoutCreate`, `CheckoutGateway`; `WebhookLookup` (whatever the gateway, which is external, may report), `WebhookComplete`/`WebhookFail`, `WebhookConfirm`, `WebhookSaveConfirmed`, `WebhookLoad`, `WebhookRelease`, `WebhookSaveCancelled` |
| `PaymentIdempotency` | `IdempotencyService` and every path of `createPayment` that uses it: a key, its record and TTL, the payments made under it | `CheckKey`, `InsertKey`, `Validate`, `SearchPayment`, `CreatePayment`, `CallGateway`, `CompleteKey`, `FailKey`; `RecordLapses`, `BookingCloses` (external) |
| `ShowtimeStore` (extends `SeatReservation`, `SeatLayout`) | how the hash and the counter come and go under clients' feet: the pipeline of `initializeShowtime`, several at once, sent again or broken off, deletion, expiry, eviction | `InitializeShowtime`, `PipelineCommand`, `PipelineAnswered`, `PipelineResent` (ioredis), `PipelineBroken`, `DeleteShowtime`, `HashDropped`, `CounterDropped`; `ClientStep` is any script |
| `SeatLayout` | the seats the seeder makes of a screen's layout, and the ids `HoldSeatsDto` accepts | `GenerateSeatId`, `SetSeat`, `GenerateSeatsMap` (the two loops as one recursive function), `MatchesSeatId`: operators, no state |
| `RedisClient` | the connection to Redis, the start-up, `executeScript` and the health check over it | `Send`, `RedisExecutes`, `Answer` for every command; `FallsBackTo`, `AfterEval` for NOSCRIPT; `RetryFails`, `Reconnects`, `GivesUp`, `FailsRequests` for ioredis as it is configured; `PingMongo` |
| `DistributedLock` | `DistributedLockService` on one resource | `Acquire`, `AcquireScript`, `Granted`, `NotGranted`, `ExtendScript`, `ExtendReply`, `Release` |
| `SeatReservation_proof`, `BookingService_proof`, `PaymentService_proof` | theorems about the three layers, each built on the one before | section 4 |
| `PaymentIdempotency_proof`, `ShowtimeStore_proof`, `SeatLayout_proof`, `RedisClient_proof`, `DistributedLock_proof` | theorems about the component they are named after | section 4 |
| `MC...` | small instances | values for the constants |

Seat names, users, prices, codes, response texts and logging are left out. A seat value is a record of
status, owner and deadline. A request that validation refuses changes nothing and does not appear. A script
that finds nothing to do is a stuttering step. An absent counter reads and increments as 0 in Redis, so the
models do not distinguish the two.

An operation is split where another process could observe or disturb it. Two reads that are adjacent in
the code are one step where splitting them adds no outcome (the comments say why).

Some definitions are variants of the one they precede and used by no action (`KeyAlwaysFree`,
`ReleasableByAnyone`, `EveryEntry`...). Each is a plausible mistake in that code. Putting one in the place
of its original makes TLC report a named property, which shows that the property constrains the code;
`PROJECT.json` pairs them under "mutants".

## 3. Runs

All bounds are constants of the modules: `MaxTime`, `MaxDeadline`, `MinAvailable` (clock, extended holds,
counter driven down by repeated seats), `MaxLatency` (seconds a reserve call may take), `MaxFaults` (lost
replies, failed writes, restarts), `MaxResends` (times a pipeline is sent again). `HoldOffsets` says how far ahead of the Redis clock a deadline may lie that
reaches the store; an assumption of `BookingService` makes it large enough for what `HoldSeconds`, the skew and
the latency can produce, so it bounds no booking. Times are scaled: a hold of 1 or 2 units stands for 600 s; what matters is
that holds end, start anew and are confirmed in their last unit within the modelled time.

| Run | Question | Instance |
|---|---|---|
| `SeatReservation` | type; the counter never overcounts and drifts only by lists that repeat a seat; refinement of `SeatLedger` | 3 seats, 2 bookings, overlapping lists and one with a repeated seat, holds of 1 or 2, extensions, time 3 |
| `BookingRetries` | what retries with one key leave; do live pending bookings have their seats; do cached payment URLs lapse | 2 retries and a rival, a confirm, 2 cancels, cron, 2 seats, skew -1, latency 1, 1 fault |
| `BookingOrphans` | are expired holds released: no | 2 rivals, 1 fault |
| `PaymentWebhooks` | sold is paid, one settlement, closed bookings leave nothing and stay closed, confirmed ones own their seats, who pays in time is served, and the ledger still holds | 2 rivals for 1 seat with a payment each, 2 handlers, a gateway that reports both ways, a cancel, no faults |
| `SystemRecovery` | does every pending booking end; what two payments of one booking do to its seats | 1 booking of 2 seats, 2 payments, 1 handler, both outcomes, confirm, cancel, 2 faults, fair cron |
| `PaymentOverbooking` | zero overbooking: no | 2 rivals for 1 seat, 2 handlers |
| `PaymentDoubleCharge` | one charge per booking: no | 1 booking, 2 payments |
| `PaymentBookedForGood` | are booked seats kept: no | 1 booking, 1 fault |
| `IdempotencyRetries` | what the requests under one key do and get, what leaves a key stuck, whether a payment answered without its URL gets one, and refinement of `KeyPromise` | 3 requests with one key (one with another body), a request with its own key for the same booking, webhooks, lapsing records, 1 fault |
| `ShowtimeRecovery` | who can lose a seat when keys are filled, filled again, dropped and overwritten; is a hash complete; when may the counter overpromise; can every seat of the screen be asked for | a screen of 26 rows with 2 seats left available, 2 bookings, 2 initialisations at once, each sent again once at most, 1 loss |
| `RedisOutages` | what a call of Redis may come to | the start-up, 2 calls, 1 health check, 10 and 3 retries as configured, 2 disruptions |
| `DistributedLock` | exclusion, unbroken extension, bounded attempts | 2 clients with 2 calls each, TTL 3, latency 1, 1 retry, time 5 |

Two bookings suffice for every conflict over a seat, which is between an owner and one rival; the third
booking of `BookingRetries` lets a retry lose to a stranger after its twin succeeded. Two handlers suffice for
what separates them (a conditional update of one document). Handlers are interchangeable, and so are the first
two requests of `IdempotencyRetries`, and the clients and the calls of `ShowtimeRecovery`; `HandlerSymmetry`,
`RetrySymmetry` and `StoreSymmetry` are used only in runs without liveness properties.
`RefusedOwnsNothing`, `PendingOwnsItsSeats`, `ClosedOwnsNothing`, `PendingCanBeSold`, `ClosedStaysClosed`, `StuckOnlyByFault` and
`UrlFollows` are claimed without faults and say so themselves; with a fault the first release or save that fails breaks them. `PaymentWebhooks` spends its states on two handlers and two rivals and has no faults;
`SystemRecovery` has the faults of the whole system on one booking. Elsewhere 1 or 2 are enough for each
kind of fault at each place.

`BookingFairSpec` and `SystemFairSpec` assume that time passes, that the scheduler runs the cron job (`@Cron(EVERY_MINUTE)`) and
that an accepted request runs to its end. Nobody is obliged to send a request, a cancel or a payment, and the gateway need not report.
`BookingOrphans` and `SystemRecovery` use them. `ClientSpec` assumes that a connected Redis executes
and answers and that the client goes on trying to reconnect until it gives up; Redis need not come back. Every
other run is about safety and assumes no fairness. The clock
of a run is bounded, but the cron job goes on after the last tick, so `PendingEnds` is decided for every
booking whose hold ends within the modelled time, and all do.

`IdempotencyRetries` has no clock: the TTL index removes a record at any time after the request that made it
has ended (24 hours against seconds). `DistributedLock` has one clock for Redis and clients and assumes that a
reply is read within `MaxLatency` or lost; it needs no bound for requests under way, nor for the time a client
spends in its critical section.

`CHECK_DEADLOCK FALSE` is given where the modelled time ends or calls run out: `DistributedLock.cfg`, `RedisOutages.cfg`. The
other specifications end in an explicit idle step, or can always run a script.

### What the violated runs show

* `PaymentOverbooking` (README.md:3 "Zero overbooking guaranteed"). `cancelBooking` loads a pending document
  (booking.service.ts:497) and checks it. Before its release call, the webhook confirms the seat and saves
  `confirmed`. The release script looks at the booking id only, so it frees the booked seat. A rival reserves
  it, pays, and is confirmed: two confirmed bookings, paid, for one seat, until the late cancel saves its
  status over `confirmed`.
* `PaymentDoubleCharge` (README.md:46 "no duplicate charges"). Two payment requests for one booking, with two
  keys, both search for an active payment (payment.service.ts:129) before either inserts one. The unique index
  is on the key, so both are inserted, both reach the gateway, and both webhooks complete.
* `PaymentBookedForGood` (seat-reservation.service.ts:48 "permanently booked after successful payment"). Between
  the confirm script and the save of the booking the document is still `pending`; when its hold has run out,
  the cron job finds it and releases the booked seats. The same follows from a stop or a failed save there.
* `BookingOrphans` (README.md:47 "Expired holds automatically released"). A reserve call whose reply is lost
  leaves a hold in the hash and no document. The cron job searches documents, and nothing schedules
  `cleanupExpiredHolds`. The seat can still be taken over by a reservation, but the counter does not come
  back until someone reads the status of the seats.

Seen in the models, without a run of their own:

* A list that repeats a seat (hold-seats.dto.ts:39 does not ask for unique entries) is subtracted from the
  counter once per entry and given back once. `OnlyRepeatsMiscount` shows that nothing else makes the counter
  drift.
* `HoldCache` sits in the try block of the insert (booking.service.ts:185): when the cache write alone fails,
  the seats are given back and the pending document stays. The retry is answered with that booking.
* A record that says `failed` is replayed as an answer (idempotency.service.ts:212), where the flow at
  README.md:377 says "Allow retry"; the comment at idempotency.service.ts:211 wants a new key.
* A request that finds another request's payment before the gateway answered is given an empty `payment_url`
  (payment.service.ts:146), and that answer is stored under its key.
* A key that is used again a day later, when its record has lapsed, is answered with the payment made under it the
  first time (payment.service.ts:190), also when the new body names another booking. `KeyPromise` allows it by name
  (the second way an answer can be `Truthful`).
* A release of seats that repeats a seat frees them and then reports an error, since its script counts fewer seats
  than the list is long; so does the confirmation. `PendingCanBeSold` is claimed for lists without repeats only.
* A client that reserves while `initializeShowtime` is filling the hash is overtaken by the final SET of the
  counter, which then promises seats that are taken. A pipeline that breaks off leaves a showtime that counts
  as initialised and lacks seats. `syncShowtimeToRedis` makes sold seats available again.
* The connection breaks when Redis has executed the pipeline of `initializeShowtime` and no reply has come. ioredis
  sends unanswered commands again (redis.module.ts:26-47 does not turn it off), so all HSETs and the SET run a second
  time, over the seats that clients of other servers took meanwhile. One initialisation, not overwriting anything, is
  enough. `TakenSeatsKept` names this as one of the ways a seat is lost. An overwriting call deletes first both times.
* The release of a cancellation or of the cron job that fails is logged and the status is saved all the same: a
  booking then ends cancelled or expired with its seats held, or sold, for ever (booking.service.ts:532, :669).
* A repeated `confirmBooking` is answered with the payment URL of a booking that is cancelled or expired by then
  (booking.service.ts:341). The payment it names, `PAY_{key}`, is no document, so a webhook about it finds none.
* After some five seconds without Redis the client gives up for good (redis.module.ts:29) and the process lives
  on: every request fails until someone restarts it. The health check then says `error`, but its status is 200
  (health.controller.ts:22), and Docker asks for `/health` while the routes have the prefix `api` (main.ts).
* An EVAL whose SCRIPT LOAD then fails is reported as a failure although the script ran
  (seat-reservation.service.ts:151); a script whose reply was lost is sent again and refused by its own first run.
  `BookingService` takes both as a call that ran and failed.
* The seats of a screen's 27th row and beyond, which cinema.schema.ts allows, get ids no client can ask for, and
  the seeder fills no Redis keys, so its showtimes cannot be booked before someone initialises them.
* `acquireLock` retries after a lost reply with the same value and is refused by its own lock.

## 4. Proofs

Every theorem is about the same definitions TLC runs, for every value of the constants that satisfies the named
assumptions of the module. There is no bound on seats, requests, handlers, initialisations or calls; `MaxTime`,
`MaxFaults`, `MaxDisruptions` and the like remain in the guards, but they are arbitrary numbers.

### The store: `SeatReservation_proof`

* `TypeCorrect`: `Spec => []TypeOK`. It is inductive as it stands.
* `MiscountOnlyByRepeats`: `Spec => OnlyRepeatsMiscount`; `NeverOvercounts`: `Spec => []CounterNeverOvercounts`;
  `ExactCounter`: the counter is exact when lists are injective. All three follow from one lemma,
  `ShortfallStep`, about the number by which the counter falls short of the available seats: a step leaves it
  alone, or is a reservation that repeats a seat and makes it larger. The lemmas under it compare what a script
  adds to the counter with what it adds to the set of available seats (`ReservedCount`, `FreedCount`).
* `ImplementsLedger`: `Spec => LedgerSpec`. `LedgerStep` maps each script to a ledger step: reserving to
  `Grant`, confirming to `Sell`, releasing to `GiveBack`, the clock to `Lapse`, cleaning and
  extending to a stutter. It needs `TypeOK` (a deadline is a number, only a held seat has one) and the assumption
  that a hold is not born expired (`HoldOffsets` are positive).

### Bookings: `BookingService_proof`

None of the booking properties is inductive, because each speaks of finished calls and breaks in the middle of
them. `BookingInv` says where every call is and what there is of its booking by then:

* `HoldProgress`, `HoldUndisturbed`: a `holdSeats` call has no document before the insert and no seats before the
  reservation; without faults, one that is being rolled back or was refused never got its document;
* `OwnSeatsOnly`, `GivenUp`: a booking owns seats of its own list only, and none once a cancellation or the cron
  job has released them. Nothing gives it new ones, since a reservation comes before the document and whoever
  gives a booking up has found its document (`ActsOnDocument`);
* `OneDocument`: the unique index on the key; `SentInTime`, `OfferInTime`: how old a deadline and a cached payment
  URL may be.

There is a lemma for each step of each call; `OthersKeep` deals with all the calls that are not moving. From the
invariant follow `RefusedClean`, `SingleClaim`, `ClosedClean` and `OffersAreTimely` (`BookingSafety`), and
`BookingsImplementLedger`: each step is a step of `SeatReservation` (`BookingStoreStep`) and `LedgerStep` does the
rest. Here a deadline that is sent late must still be one the store allows, which is `OffsetsAssumption`.

`PendingOwnsSeats` needs more: that nobody takes the seats of a live booking. `LiveInv` adds that the call about to
insert the document has the seats already (the property alone is not inductive: the insert would create a live
booking out of nothing), and that the deadline in Redis is no earlier than the document's, less the latency.
Then `OthersLeaveSeats` is the argument: while the deadline is ahead a rival's script refuses the seat, and a release
compares the owner.

### The whole system: `PaymentService_proof`

`PaymentInv` adds to `BookingInv` what handlers and payment requests know: a payment with a transaction was sent to
the gateway for a booking that exists (`CheckoutProgress`, `HookProgress`); a handler that confirms or saves
`confirmed` has completed its payment, and no other handler does so for the same payment (`SettlesAlone`, by the
conditional update); what a handler is about to save is what its script did (`SavesTheTruth`). `SoldSeatsArePaid`,
`SettledOnce`, `ConfirmedOwnsSeats` and, with webhooks running, the booking properties follow. `NoneSold` is the
bridge: no step of the booking service books a seat or confirms a booking. `SystemImplementsLedger` says that
everything in the system, webhooks included, stays within the ledger. The double booking of section 3 does not
contradict it: the ledger promises that a seat is taken back only by its own booking, and there it is.

Two theorems say how far "Zero overbooking guaranteed" is true. `OverbookingNeedsARelease`: two confirmed bookings
share a seat only if booked seats were released in the name of one of them, which is what `PaymentOverbooking`
shows. There is no other way while the keys of the showtime stay as they are: `SystemSpec` has no initialisation and
no eviction, which can lose sold seats too (`ShowtimeStore`). `ClosedIsForGood` (an action property): without faults, a booking that was given
up becomes confirmed only after such a release. A handler that saves `confirmed` has seen its own script book all
the seats (`SavesTheTruth`), and a booking that was given up has none (`GoneOwnsNone`): both can be true only if
somebody released booked seats in between.

`PaidInTimeIsServed` proves `PendingCanBeSold`, the promise to a client who pays in time. It is not inductive,
because it speaks of documents and the seats were taken before the document was there, and because a second
payment of the same booking may have booked them. `SaleInv` adds `Sellable`: a booking in time has either all
its seats held under a deadline that is long enough, or all of them booked with a handler at the save. It rests
on `LiveOwnsItsSeats` from the layer below (a call about to insert the document has the seats). Per step: a step
of the booking service, a restart or `createPayment` leaves the seats (`SellableBystander`), a handler's confirm
script books all of them (`SellableConfirm`), its release leads to `FailureUnsaved` (`SellableRelease`), a save
that closes the booking ends the claim (`SellableSave`). Two conditions of the property are there because the
proof, and TLC before it, cannot do without: `FailureUnsaved` and `ReleaseUnsaved`, since every release comes
before its save, and lists without repeats, since a script fails on a list that has one after it has done its
work.

### Idempotency keys: `PaymentIdempotency_proof`

`IdemInv` relates each request to its record. One in progress has the record with its own body, still processing
unless a fault settled it early (`Executing`); no other request with the key is in progress (`Alone`); every answer
that was given is in the record until it lapses (`Known`). A record only grows (`RecordGrows`): the insert needs an
absent record and both updates a processing one, which is what makes one request's step harmless to the others
(`OtherRequestKeeps`). `OneExecution`, `OneBody`, `SameAnswer`, `OnePayment` follow.

`KeysKeepThePromise`: `IdemSpec => PromiseSpec`, the refinement of `KeyPromise`. The mapping reads a key's phase off
the status of its record, what was made off the payments, and what was given off the requests that have ended.
`KeyInv` is what the steps need beyond `IdemInv`: a record that is not there is empty; an answer about to be stored
is `Truthful`, and stays so because payments are not deleted (`TruthStays`); no key is stuck without a fault. There
is a lemma for each kind of step (`InsertIsPromised` is `Take`, `PaymentIsPromised` is `Pay`, `SettleIsPromised` is
`Settle`, with or without `Give`; a request that goes on, or is lost in a restart, is a stutter or an error given).
`StuckNeedsAFault` is the last part of `KeyInv`, and a theorem about hazard idempotency.service.ts:202.

A request that finds the payment another one is making is answered without a URL, and that answer is stored and
replayed. `UrlIsNotLost` says how long this lasts: the payment has its URL by now, or its creator is still at the
gateway, unless there was a fault. `UrlInv` says it of every payment, answered or not (`UrlComes`), and that
answers, stored or given, name payments that exist (`Named`). The creator has to have left the gateway through
the update: one that goes on without it (`GatewayUnrecorded`) breaks the property.

### Showtime keys: `ShowtimeStore_proof`

A pipeline is a list of commands that is a function of how many are left (`Remaining`), so "this call will still
fill in seat s" is arithmetic on positions (`FillsLater`). With it:

* `FillsMissingOnly`: until another call fills in a seat beside it, a call finds no seat where it puts one, unless
  its commands were sent again and do not begin by deleting (`SentAgain`; an overwriting call that is sent again
  has all its commands left, the DEL first: `ResentEffect`). `SeatsStayTaken` (an action property) follows;
* `BecomesComplete`: in a hash that no loss has maimed, every missing seat will still be filled in. `HashComplete`
  is the case with nobody at work;
* `CounterBecomesTrue`: without losses and early clients, either nobody at work has executed a command, or each seat
  is free or still to be filled in (`BecomesFree`), and a final SET of the counter is to come. A call that is sent
  again makes it so by itself (`ResentKeeps`). `OvercountsNeedARace` follows.

The seats themselves come from `SeatLayout_proof`. `EachSeatOnce`: for every layout, `GenerateSeatsMap` makes each seat
of the grid that is not unavailable, once, and no other. The library's induction theorems take a predicate as a
parameter, which the provers cannot instantiate; `CountingUp` is induction stated over a set of numbers instead,
derived from `WFMin` and the well-foundedness of `<`. `LoopExists` uses it to show that the function the loop is
written as exists (a recursive function is a CHOOSE), and `EachSeatOnce` for the seats made by each turn.
`SeatAtFacts` is the arithmetic: quotient and remainder give each position its own row and column.
`OfferedSeatsAreTheScreens` follows: the hash offers what the screen has, under ids a client can ask for. The only
assumptions about seats left are that `Seats` is what the layout gives and that the screen has at most 26 rows.

### Connection and lock

`RedisClient_proof`, for any number of calls, health checks and outages: `Counted` bounds the runs of a script by
where its call is (until a command that runs it has its answer on the way, every run so far has lost its reply),
`Sound` says that a request that waits on a broken connection has seen trouble. `RunsBounded`, `ResultsComeFromRuns`
and `FailuresNeedTrouble` follow.

`DistributedLock_proof`, for every set of clients, TTL, latency and number of retries:

* `LockTypeCorrect`, with the bound on attempts;
* `LockExcludes`: `LockSpec => []MutualExclusion`, and `ExtensionProves`: `LockSpec => ExtensionMeansUnbroken`.
  Neither is inductive: exclusion follows from what each client knows alone. `Leased` says it: for a TTL from
  the script the key has the client's value; his own deadline is at most a latency later than that; a reply
  under way is at most a latency old; a client that was overtaken never finds his value in the key again.
  `OthersLeased` shows that no client's step disturbs another's lease (this is where the compared value is
  needed), `OwnLeased` and `TickLeased` do the rest.

### Only model-checked

* `PendingEnds` and `RequestsEnd`: liveness under fairness is beyond the prover.
* The four violated properties, of which TLC's counterexamples are the point.

## 5. Not modelled

* Authentication, signatures, DTO validation, filters: they refuse requests before anything changes.
* Prices and amounts: they are copied, never compared.
* Queries: reads without effect.
* The MongoDB document of a showtime (nothing updates its seat statuses after creation).
* The seeder's clearing and filling of the collections, a development tool that runs alone.
* Commands of a broken connection that Redis executes after the client has sent them again on the next one: what a
  connection leaves behind is executed before, or not at all (`ShowtimeStore`, `RedisClient`).
* The order in which ioredis sends queued commands, and its first connection: the server starts connected.
* An extension of a lock by another TTL than the one it was taken with, and a request to Redis that arrives
  after the client gave up on it.
* Replication and persistence of Redis and MongoDB: each is one store that executes one command at a time.

## 6. Plan

1. Done: seat store with its ledger and proofs, booking service with `confirmBooking`, payment service and
   the liveness of the whole system, idempotency keys, showtime store with concurrent initialisations, seat
   layouts, Redis connection and health checks, distributed lock with proofs.
2. Done: every safety invariant, action property and refinement of the passing runs proved: the ledger carried up
   through bookings to the whole system, the promise of the idempotency keys, the seats of every layout. What
   overbooking needs, and who is served when he pays in time, as theorems.
3. Left: what the other violated properties keep when their cause is excluded (booked for good while nothing
   releases a sold seat, one charge where one booking has one key); `deleteIdempotencyKey`, should a caller be added.
