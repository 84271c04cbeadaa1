---------------------------- MODULE SeatReservation ----------------------------
(***************************************************************************)
(* The seats of one showtime in Redis: the hash showtime:{id}:seats, the   *)
(* counter showtime:{id}:available, and the Lua scripts that              *)
(* SeatReservationService runs on them.  Redis executes a script without   *)
(* interruption, so a script is one action.  `now' is the Redis clock in   *)
(* seconds; the deadline of a hold comes from the caller's clock.          *)
(*                                                                         *)
(* A script that rejects its input, or finds nothing to do, changes        *)
(* nothing: those calls are the stuttering steps of the specification.     *)
(*                                                                         *)
(* Definitions named as slips of the one they precede (BookedKeeping...,   *)
(* EveryEntry, ...ByAnyone) are used by no action: each is a plausible     *)
(* mistake in that code, kept to see that a property notices it.           *)
(***************************************************************************)
EXTENDS Integers, Sequences, FiniteSets, Functions

CONSTANTS
  Seats,        \* seat ids of the showtime
  Bookings,     \* booking ids that callers pass to the scripts
  SeatLists,    \* the seat lists of requests; the DTO lets a list repeat a seat
  HoldOffsets,  \* caller's clock + hold duration - Redis clock, in seconds
  Extensions,   \* the seconds extendHold may add
  NoBooking,    \* a seat without booking_id
  MaxTime,      \* bound on the Redis clock
  MaxDeadline,  \* bound on held_until (extendHold may be called for ever)
  MinAvailable  \* bound on the counter (repeated seats drive it down for ever)

ASSUME SeatsAssumption == IsFiniteSet(Seats) /\ NoBooking \notin Bookings

ASSUME ListsAssumption == \A l \in SeatLists : l \in Seq(Seats) /\ l # << >>

(* The hold is longer than the two clocks are apart, so no hold is born    *)
(* expired (600 s in the code).                                            *)
ASSUME NumbersAssumption ==
  /\ HoldOffsets \subseteq Nat \ {0}
  /\ Extensions \subseteq Nat \ {0}
  /\ MaxTime \in Nat
  /\ MaxDeadline \in Nat
  /\ MinAvailable \in Int

VARIABLES
  seats,      \* the hash: seat id -> decoded JSON value
  available,  \* the counter; an absent counter reads, and is incremented, as 0
  now         \* redis.call('TIME')[1]

store == << seats, available >>
vars == << seats, available, now >>

Seat(status, booking, until) ==
  [status |-> status, booking_id |-> booking, held_until |-> until]
Missing == Seat("missing", NoBooking, 0)   \* HGET returned nil
Free == Seat("available", NoBooking, 0)
Held(b, until) == Seat("held", b, until)
BookedKeepingDeadline(b) == Seat("booked", b, now)
Booked(b) == Seat("booked", b, 0)

(* The set of seats whose hash field says the seat can be sold.            *)
AvailableSeats == {s \in Seats : seats[s].status = "available"}

(***************************************************************************)
(* batch-seat-reservation.lua and seat-reservation.lua                     *)
(***************************************************************************)
Reservable(s) ==
  \/ seats[s].status = "available"
  \/ seats[s].status = "held" /\ seats[s].held_until <= now

(* Phase 1: every seat of the request must be reservable.                  *)
CanReserve(list) == \A i \in DOMAIN list : Reservable(list[i])

(* Phase 2 counts list entries that were available in phase 1: a seat      *)
(* named twice counts twice, a lapsed hold does not count.                 *)
EveryEntry(list) == DOMAIN list
FirstAvailableEntry(list) == {i \in {1} : seats[list[i]].status = "available"}
AvailableEntries(list) == {i \in DOMAIN list : seats[list[i]].status = "available"}

BatchReserve(b, list, hold_expire) ==
  /\ CanReserve(list)
  /\ available - Cardinality(AvailableEntries(list)) >= MinAvailable
  /\ seats' = [s \in Seats |-> IF s \in Range(list) THEN Held(b, hold_expire) ELSE seats[s]]
  /\ available' = available - Cardinality(AvailableEntries(list))
  /\ UNCHANGED now

SingleReserve(b, s, hold_expire) ==
  /\ Reservable(s)
  /\ seats' = [seats EXCEPT ![s] = Held(b, hold_expire)]
  /\ available' = available - (IF seats[s].status = "available" THEN 1 ELSE 0)
  /\ UNCHANGED now

(***************************************************************************)
(* confirm-seats.lua.  Each seat is confirmed or reported on its own; the  *)
(* reply says success only when no entry failed, and the second entry of a *)
(* seat named twice fails: the first has made it booked.                   *)
(***************************************************************************)
ConfirmableByAnyone(b, s) == seats[s].status = "held" /\ seats[s].held_until >= now
Confirmable(b, s) ==
  /\ seats[s].status = "held"
  /\ seats[s].booking_id = b
  /\ seats[s].held_until >= now

ConfirmSucceeds(b, list) ==
  IsInjective(list) /\ \A i \in DOMAIN list : Confirmable(b, list[i])

ConfirmSeats(b, list) ==
  /\ seats' = [s \in Seats |-> IF s \in Range(list) /\ Confirmable(b, s)
                               THEN Booked(b) ELSE seats[s]]
  /\ UNCHANGED << available, now >>

(***************************************************************************)
(* release-seats.lua.  The script looks at the booking id only: a held     *)
(* seat, lapsed or not, and a booked seat are released alike.              *)
(***************************************************************************)
ReleasableByAnyone(b, s) == seats[s].status \in {"held", "booked"}
Releasable(b, s) == seats[s].booking_id = b

ReleaseSucceeds(b, list) ==
  IsInjective(list) /\ \A i \in DOMAIN list : Releasable(b, list[i])

Released(b, list) == {s \in Range(list) : Releasable(b, s)}

ReleaseSeats(b, list) ==
  /\ seats' = [s \in Seats |-> IF s \in Released(b, list) THEN Free ELSE seats[s]]
  /\ available' = available + Cardinality(Released(b, list))
  /\ UNCHANGED now

(***************************************************************************)
(* cleanup-expired-holds.lua, and the lazy cleanup of get-seats-status.lua *)
(* over the requested seats (an empty request stands for all of them).     *)
(***************************************************************************)
Expired(s) == seats[s].status = "held" /\ seats[s].held_until < now

Sweep(S) ==
  LET swept == {s \in S : Expired(s)}
  IN  /\ seats' = [s \in Seats |-> IF s \in swept THEN Free ELSE seats[s]]
      /\ available' = available + Cardinality(swept)
      /\ UNCHANGED now

CleanupExpiredHolds == Sweep(Seats)

GetSeatsStatus(requested) == Sweep(IF requested = {} THEN Seats ELSE requested)

(***************************************************************************)
(* The inline script of extendHold: an entry extends its seat, so a seat   *)
(* named twice is extended twice.                                          *)
(***************************************************************************)
Extendable(b, s) ==
  /\ seats[s].status = "held"
  /\ seats[s].booking_id = b
  /\ seats[s].held_until > now

Entries(list, s) == Cardinality({i \in DOMAIN list : list[i] = s})

Extended(list, s, additional) == seats[s].held_until + additional * Entries(list, s)

ExtendHold(b, list, additional) ==
  /\ \A s \in Range(list) : Extended(list, s, additional) <= MaxDeadline
  /\ seats' = [s \in Seats |-> IF s \in Range(list) /\ Extendable(b, s)
                               THEN Held(b, Extended(list, s, additional)) ELSE seats[s]]
  /\ UNCHANGED << available, now >>

(* The Redis clock.                                                        *)
Tick ==
  /\ now < MaxTime
  /\ now' = now + 1
  /\ UNCHANGED store

(***************************************************************************)
(* The showtime as initializeShowtime leaves it, and the calls that any    *)
(* number of clients make.                                                 *)
(***************************************************************************)
Init ==
  /\ seats = [s \in Seats |-> Free]
  /\ available = Cardinality(Seats)
  /\ now = 0

Next ==
  \/ \E b \in Bookings, list \in SeatLists, d \in HoldOffsets : BatchReserve(b, list, now + d)
  \/ \E b \in Bookings, list \in SeatLists, d \in HoldOffsets :
       Len(list) = 1 /\ SingleReserve(b, list[1], now + d)
  \/ \E b \in Bookings, list \in SeatLists : ConfirmSeats(b, list) \/ ReleaseSeats(b, list)
  \/ \E b \in Bookings, list \in SeatLists, x \in Extensions : ExtendHold(b, list, x)
  \/ CleanupExpiredHolds
  \/ \E requested \in SUBSET Seats : GetSeatsStatus(requested)
  \/ Tick

Spec == Init /\ [][Next]_vars

(***************************************************************************)
(* Properties                                                              *)
(***************************************************************************)

(* Every seat is one of the values the scripts write, the counter is an    *)
(* integer (it may be negative), the clock a number of seconds.            *)
SeatData ==
  {Missing, Free}
    \cup [status: {"held"}, booking_id: Bookings, held_until: Nat]
    \cup [status: {"booked"}, booking_id: Bookings, held_until: {0}]
TypeOK ==
  /\ seats \in [Seats -> SeatData]
  /\ available \in Int
  /\ now \in Nat

(* The counter never offers more seats than the hash does, whatever lists  *)
(* the callers send: reserving counts down at least once for every seat    *)
(* that stops being available, and every path that frees a seat (release,  *)
(* cleanup, lazy cleanup) counts it up exactly once.                       *)
CounterNeverOvercounts == available <= Cardinality(AvailableSeats)

(* By how much the counter promises fewer seats than the hash has.         *)
Shortfall == Cardinality(AvailableSeats) - available

(* The counter drifts from the seats in one way only: a reservation whose  *)
(* list repeats a seat subtracts it once per entry, and nothing ever gives *)
(* the difference back.  Holds that lapse and are taken over, released,    *)
(* swept or found expired by a query are counted once, whichever script    *)
(* gets to them first.                                                     *)
RepeatingReserve ==
  \E b \in Bookings, list \in SeatLists, d \in HoldOffsets :
    ~IsInjective(list) /\ BatchReserve(b, list, now + d)
OnlyRepeatsMiscount ==
  [][Shortfall' = Shortfall \/ (Shortfall' > Shortfall /\ RepeatingReserve)]_vars

(* So with requests that name a seat once the counter is the number of     *)
(* available seats.                                                        *)
DistinctLists == \A l \in SeatLists : IsInjective(l)
CounterExact == available = Cardinality(AvailableSeats)

(* The store implements the ledger: a request gets all its seats or none,  *)
(* a live hold is never transferred, a seat is sold only to the booking    *)
(* whose hold it is, a sold seat leaves that booking only by the booking's *)
(* own release, and time alone frees nothing but lapsed holds.  The last   *)
(* second of a hold is the ledger's "lapsing" state: reservation already   *)
(* treats the hold as over while confirmation still accepts it.            *)
LedgerEntry(s) ==
  CASE seats[s].status = "booked" ->
         [state |-> "sold", booking |-> seats[s].booking_id]
    [] seats[s].status = "held" /\ seats[s].held_until > now ->
         [state |-> "protected", booking |-> seats[s].booking_id]
    [] seats[s].status = "held" /\ seats[s].held_until = now ->
         [state |-> "lapsing", booking |-> seats[s].booking_id]
    [] OTHER -> [state |-> "free", booking |-> NoBooking]

Ledger == INSTANCE SeatLedger WITH
  SeatSets <- {Range(l) : l \in SeatLists},
  ledger <- [s \in Seats |-> LedgerEntry(s)]
LedgerSpec == Ledger!LedgerSpec
================================================================================
