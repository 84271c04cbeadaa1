------------------------- MODULE SeatReservation_proof -------------------------
(***************************************************************************)
(* Theorems about the Lua scripts on the seats of one showtime, for every  *)
(* set of seats, booking ids, requests, offsets and bounds.                *)
(***************************************************************************)
EXTENDS SeatReservation, FiniteSetTheorems, TLAPS

(* The number of entries of a request that satisfy a test is a natural     *)
(* number: a request is a finite sequence.                                 *)
LEMMA EntriesFinite ==
  ASSUME NEW l \in SeatLists
  PROVE  /\ \A s : Entries(l, s) \in Nat
         /\ IsFiniteSet(AvailableEntries(l))
         /\ Cardinality(AvailableEntries(l)) \in Nat
         /\ Range(l) \subseteq Seats
<1>1. l \in Seq(Seats) BY ListsAssumption
<1>2. DOMAIN l = 1..Len(l) /\ Len(l) \in Nat BY <1>1
<1>3. IsFiniteSet(DOMAIN l) BY <1>2, FS_Interval
<1>4. \A T \in SUBSET DOMAIN l : IsFiniteSet(T) /\ Cardinality(T) \in Nat
  BY <1>3, FS_Subset, FS_CardinalityType
<1>5. IsFiniteSet(AvailableEntries(l)) /\ Cardinality(AvailableEntries(l)) \in Nat
  <2>1. AvailableEntries(l) \in SUBSET DOMAIN l BY DEF AvailableEntries
  <2>2. QED BY <2>1, <1>4
<1>6. ASSUME NEW s PROVE Entries(l, s) \in Nat
  <2>1. {i \in DOMAIN l : l[i] = s} \in SUBSET DOMAIN l OBVIOUS
  <2>2. QED BY <2>1, <1>4 DEF Entries
<1>7. Range(l) \subseteq Seats BY <1>1, <1>2 DEF Range
<1>8. QED BY <1>5, <1>6, <1>7

(* Sets of seats have a size.                                              *)
LEMMA SeatSetsFinite ==
  ASSUME NEW S \in SUBSET Seats
  PROVE  IsFiniteSet(S) /\ Cardinality(S) \in Nat
BY SeatsAssumption, FS_Subset, FS_CardinalityType

(* A hold deadline that a caller computes is a positive number.            *)
LEMMA Deadlines ==
  ASSUME NEW d \in HoldOffsets, TypeOK
  PROVE  now + d \in Nat /\ now + d > now
BY NumbersAssumption DEF TypeOK

(* What extendHold writes is a deadline no earlier than the one it read.   *)
LEMMA ExtendedDeadline ==
  ASSUME TypeOK, NEW l \in SeatLists, NEW s \in Seats, NEW x \in Extensions
  PROVE  Extended(l, s, x) \in Nat /\ Extended(l, s, x) >= seats[s].held_until
<1>1. Entries(l, s) \in Nat /\ x \in Nat BY EntriesFinite, NumbersAssumption
<1>2. x * Entries(l, s) \in Nat BY <1>1
<1>3. seats[s].held_until \in Nat BY DEF TypeOK, SeatData, Missing, Free, Seat
<1>4. QED BY <1>2, <1>3 DEF Extended

(* Every script leaves each seat in one of the four shapes and the counter *)
(* an integer.                                                             *)
LEMMA TypeStep ==
  ASSUME TypeOK, [Next]_vars
  PROVE  TypeOK'
<1> USE DEF TypeOK, SeatData, Held, Booked, Free, Missing, Seat
<1>1. ASSUME NEW b \in Bookings, NEW l \in SeatLists, NEW d \in HoldOffsets,
             BatchReserve(b, l, now + d)
      PROVE  TypeOK'
  BY <1>1, EntriesFinite, Deadlines DEF BatchReserve
<1>2. ASSUME NEW b \in Bookings, NEW l \in SeatLists, NEW d \in HoldOffsets,
             SingleReserve(b, l[1], now + d)
      PROVE  TypeOK'
  <2>1. seats' = [seats EXCEPT ![l[1]] = Held(b, now + d)] /\ Held(b, now + d) \in SeatData
    BY <1>2, Deadlines DEF SingleReserve
  <2>2. available' \in Int /\ now' \in Nat BY <1>2 DEF SingleReserve
  <2>3. QED BY <2>1, <2>2
<1>3. ASSUME NEW b \in Bookings, NEW l \in SeatLists, ConfirmSeats(b, l)
      PROVE  TypeOK'
  BY <1>3 DEF ConfirmSeats
<1>4. ASSUME NEW b \in Bookings, NEW l \in SeatLists, ReleaseSeats(b, l)
      PROVE  TypeOK'
  <2>1. Released(b, l) \in SUBSET Seats BY EntriesFinite DEF Released
  <2>2. Cardinality(Released(b, l)) \in Nat BY <2>1, SeatSetsFinite
  <2>3. QED BY <1>4, <2>2 DEF ReleaseSeats
<1>5. ASSUME NEW b \in Bookings, NEW l \in SeatLists, NEW x \in Extensions,
             ExtendHold(b, l, x)
      PROVE  TypeOK'
  BY <1>5, ExtendedDeadline DEF ExtendHold
<1>6. ASSUME NEW S \in SUBSET Seats, Sweep(S) PROVE TypeOK'
  <2>1. {s \in S : Expired(s)} \in SUBSET Seats OBVIOUS
  <2>2. Cardinality({s \in S : Expired(s)}) \in Nat BY <2>1, SeatSetsFinite
  <2>3. QED BY <1>6, <2>2 DEF Sweep
<1>7. CASE Tick BY <1>7 DEF Tick, store
<1>8. CASE UNCHANGED vars BY <1>8 DEF vars
<1>9. QED
  BY <1>1, <1>2, <1>3, <1>4, <1>5, <1>6, <1>7, <1>8
     DEF Next, CleanupExpiredHolds, GetSeatsStatus

(* At the start every seat is available.                                   *)
LEMMA TypeInit == Init => TypeOK
BY SeatSetsFinite DEF Init, TypeOK, SeatData, Free, Seat

(* Type correctness, in every reachable state.                             *)
THEOREM TypeCorrect == Spec => []TypeOK
BY TypeInit, TypeStep, PTL DEF Spec

(* What a reservation takes out of the set of available seats: at most one *)
(* seat per available entry of the request, exactly one when the request   *)
(* names no seat twice.                                                    *)
LEMMA ReservedCount ==
  ASSUME TypeOK, NEW l \in SeatLists
  PROVE  LET left == Cardinality(AvailableSeats \ Range(l))
             count == Cardinality(AvailableSeats) - Cardinality(AvailableEntries(l))
         IN  left >= count /\ (IsInjective(l) => left = count)
<1> DEFINE E == AvailableEntries(l)
           T == AvailableSeats \cap Range(l)
           f == [i \in E |-> l[i]]
<1>1. IsFiniteSet(E) BY EntriesFinite
<1>2. f \in Surjection(E, T)
  <2>1. \A i \in E : l[i] \in T
    BY EntriesFinite DEF AvailableEntries, AvailableSeats, Range
  <2>2. \A t \in T : \E i \in E : l[i] = t
    BY DEF AvailableEntries, AvailableSeats, Range
  <2>3. QED BY <2>1, <2>2 DEF Surjection
<1>3. /\ Cardinality(T) <= Cardinality(E)
      /\ f \in Injection(E, T) => Cardinality(T) = Cardinality(E)
  BY <1>1, <1>2, FS_Surjection
<1>4. IsInjective(l) => f \in Injection(E, T)
  <2>1. f \in [E -> T] BY <1>2 DEF Surjection
  <2>2. E \subseteq DOMAIN l BY DEF AvailableEntries
  <2>3. QED BY <2>1, <2>2 DEF IsInjective, Injection
<1>5. Cardinality(AvailableSeats \ Range(l)) = Cardinality(AvailableSeats) - Cardinality(T)
  BY SeatSetsFinite, FS_Difference DEF AvailableSeats
<1>6. /\ Cardinality(T) \in Nat
      /\ Cardinality(E) \in Nat
      /\ Cardinality(AvailableSeats) \in Nat
  BY SeatSetsFinite, EntriesFinite DEF AvailableSeats
<1>7. QED BY <1>3, <1>4, <1>5, <1>6

(* Freeing seats that were not available makes the set grow by as many.    *)
LEMMA FreedCount ==
  ASSUME NEW S \in SUBSET Seats, S \cap AvailableSeats = {}
  PROVE  Cardinality(AvailableSeats \cup S) = Cardinality(AvailableSeats) + Cardinality(S)
<1>1. IsFiniteSet(S) /\ IsFiniteSet(AvailableSeats) BY SeatSetsFinite DEF AvailableSeats
<1>2. Cardinality(AvailableSeats \cap S) = 0 BY FS_EmptySet
<1>3. /\ Cardinality(S) \in Nat
      /\ Cardinality(AvailableSeats) \in Nat
  BY SeatSetsFinite DEF AvailableSeats
<1>4. Cardinality(AvailableSeats \cup S)
        = Cardinality(AvailableSeats) + Cardinality(S) - Cardinality(AvailableSeats \cap S)
  BY <1>1, FS_Union
<1>5. QED BY <1>2, <1>3, <1>4

(* A step leaves the shortfall alone, or is a reservation that repeats a   *)
(* seat and makes it larger.                                               *)
LEMMA ShortfallStep ==
  ASSUME TypeOK, TypeOK', [Next]_vars
  PROVE  Shortfall' = Shortfall \/ (Shortfall' > Shortfall /\ RepeatingReserve)
<1> DEFINE Kept == Shortfall' = Shortfall \/ (Shortfall' > Shortfall /\ RepeatingReserve)
<1> USE DEF Held, Booked, Free, Missing, Seat
<1>0. /\ Cardinality(AvailableSeats) \in Nat
      /\ AvailableSeats \in SUBSET Seats
      /\ available \in Int
  BY SeatSetsFinite DEF AvailableSeats, TypeOK
<1>1. ASSUME NEW b \in Bookings, NEW l \in SeatLists, NEW d \in HoldOffsets,
             BatchReserve(b, l, now + d)
      PROVE  Kept
  <2>1. AvailableSeats' = AvailableSeats \ Range(l)
    BY <1>1 DEF BatchReserve, AvailableSeats
  <2>2. available' = available - Cardinality(AvailableEntries(l))
    BY <1>1 DEF BatchReserve
  <2>3. /\ Cardinality(AvailableSeats') \in Nat
        /\ Cardinality(AvailableEntries(l)) \in Nat
    BY <2>1, <1>0, SeatSetsFinite, EntriesFinite
  <2>4. CASE IsInjective(l)
    <3>1. Shortfall' = Shortfall
      BY <1>0, <2>1, <2>2, <2>3, <2>4, ReservedCount DEF Shortfall
    <3>2. QED BY <3>1
  <2>5. CASE ~IsInjective(l)
    <3>1. Shortfall' >= Shortfall /\ Shortfall \in Int /\ Shortfall' \in Int
      BY <1>0, <2>1, <2>2, <2>3, ReservedCount DEF Shortfall
    <3>2. RepeatingReserve BY <1>1, <2>5 DEF RepeatingReserve
    <3>3. QED BY <3>1, <3>2
  <2>6. QED BY <2>4, <2>5
<1>2. ASSUME NEW b \in Bookings, NEW l \in SeatLists, NEW d \in HoldOffsets,
             SingleReserve(b, l[1], now + d), Len(l) = 1
      PROVE  Kept
  <2>1. l[1] \in Seats BY <1>2, ListsAssumption
  <2>2. AvailableSeats' = AvailableSeats \ {l[1]}
    BY <1>2, <2>1 DEF SingleReserve, AvailableSeats, TypeOK
  <2>3. Cardinality(AvailableSeats') = IF l[1] \in AvailableSeats
                                       THEN Cardinality(AvailableSeats) - 1
                                       ELSE Cardinality(AvailableSeats)
    BY <2>2, <1>0, SeatSetsFinite, FS_RemoveElement
  <2>4. available' = IF l[1] \in AvailableSeats THEN available - 1 ELSE available
    BY <1>2, <2>1, <1>0 DEF SingleReserve, AvailableSeats
  <2>5. QED BY <1>0, <2>3, <2>4 DEF Shortfall
<1>3. ASSUME NEW b \in Bookings, NEW l \in SeatLists, ConfirmSeats(b, l)
      PROVE  Kept
  <2>1. AvailableSeats' = AvailableSeats
    BY <1>3 DEF ConfirmSeats, Confirmable, AvailableSeats
  <2>2. QED BY <1>0, <1>3, <2>1 DEF ConfirmSeats, Shortfall
<1>4. ASSUME NEW S \in SUBSET Seats, S \cap AvailableSeats = {},
             seats' = [s \in Seats |-> IF s \in S THEN Free ELSE seats[s]],
             available' = available + Cardinality(S)
      PROVE  Kept
  <2>1. AvailableSeats' = AvailableSeats \cup S BY <1>4 DEF AvailableSeats
  <2>2. Cardinality(S) \in Nat BY SeatSetsFinite
  <2>3. QED BY <1>0, <1>4, <2>1, <2>2, FreedCount DEF Shortfall
<1>5. ASSUME NEW b \in Bookings, NEW l \in SeatLists, ReleaseSeats(b, l)
      PROVE  Kept
  <2>1. Released(b, l) \in SUBSET Seats BY EntriesFinite DEF Released
  <2>2. Released(b, l) \cap AvailableSeats = {}
    BY SeatsAssumption DEF Released, Releasable, AvailableSeats, TypeOK, SeatData
  <2>3. QED BY <1>4, <1>5, <2>1, <2>2 DEF ReleaseSeats
<1>6. ASSUME NEW S \in SUBSET Seats, Sweep(S) PROVE Kept
  <2> DEFINE swept == {s \in S : Expired(s)}
  <2>1. swept \in SUBSET Seats OBVIOUS
  <2>2. swept \cap AvailableSeats = {} BY DEF Expired, AvailableSeats
  <2>3. QED BY <1>4, <1>6, <2>1, <2>2 DEF Sweep
<1>7. ASSUME NEW b \in Bookings, NEW l \in SeatLists, NEW x \in Extensions,
             ExtendHold(b, l, x)
      PROVE  Kept
  <2>1. AvailableSeats' = AvailableSeats
    BY <1>7 DEF ExtendHold, Extendable, AvailableSeats
  <2>2. QED BY <1>0, <1>7, <2>1 DEF ExtendHold, Shortfall
<1>8. CASE Tick \/ UNCHANGED vars
  <2>1. AvailableSeats' = AvailableSeats /\ available' = available
    BY <1>8 DEF Tick, store, vars, AvailableSeats
  <2>2. QED BY <1>0, <2>1 DEF Shortfall
<1>9. QED
  BY <1>1, <1>2, <1>3, <1>5, <1>6, <1>7, <1>8
     DEF Next, CleanupExpiredHolds, GetSeatsStatus

(* At the start the counter is exact.                                      *)
LEMMA ShortfallInit == Init => Shortfall = 0
<1>1. Init => AvailableSeats = Seats /\ available = Cardinality(Seats)
  BY DEF Init, AvailableSeats, Free, Seat
<1>2. Cardinality(Seats) \in Nat BY SeatSetsFinite
<1>3. QED BY <1>1, <1>2 DEF Shortfall

(* The shortfall is a number.                                              *)
LEMMA ShortfallType == TypeOK => Shortfall \in Int
BY SeatSetsFinite DEF Shortfall, AvailableSeats, TypeOK

(* The counter drifts from the seats only through a reservation that       *)
(* repeats a seat, and only downwards.                                     *)
THEOREM MiscountOnlyByRepeats == Spec => OnlyRepeatsMiscount
<1>1. TypeOK /\ TypeOK' /\ [Next]_vars =>
        [Shortfall' = Shortfall \/ (Shortfall' > Shortfall /\ RepeatingReserve)]_vars
  BY ShortfallStep
<1>2. QED BY <1>1, TypeCorrect, PTL DEF Spec, OnlyRepeatsMiscount

(* The counter never promises a seat the hash does not have, even when     *)
(* requests repeat seats.                                                  *)
THEOREM NeverOvercounts == Spec => []CounterNeverOvercounts
<1>1. Init => Shortfall >= 0 BY ShortfallInit
<1>2. ASSUME TypeOK, TypeOK', Shortfall >= 0, [Next]_vars PROVE (Shortfall >= 0)'
  <2>1. Shortfall \in Int BY <1>2, ShortfallType
  <2>2. Shortfall' \in Int
    <3>1. Cardinality(AvailableSeats') \in Nat BY SeatSetsFinite DEF AvailableSeats
    <3>2. QED BY <1>2, <3>1 DEF Shortfall, TypeOK
  <2>3. QED BY <1>2, <2>1, <2>2, ShortfallStep
<1>3. TypeOK /\ Shortfall >= 0 => CounterNeverOvercounts
  BY SeatSetsFinite DEF Shortfall, CounterNeverOvercounts, AvailableSeats, TypeOK
<1>4. QED BY <1>1, <1>2, <1>3, TypeCorrect, PTL DEF Spec

(* With requests that name a seat once the counter is the number of        *)
(* available seats in every reachable state.                               *)
THEOREM ExactCounter ==
  ASSUME DistinctLists
  PROVE  Spec => []CounterExact
<1>1. Init => Shortfall = 0 BY ShortfallInit
<1>2. ~RepeatingReserve BY DEF DistinctLists, RepeatingReserve
<1>3. ASSUME TypeOK, TypeOK', Shortfall = 0, [Next]_vars PROVE (Shortfall = 0)'
  BY <1>2, <1>3, ShortfallStep
<1>4. TypeOK /\ Shortfall = 0 => CounterExact
  BY SeatSetsFinite DEF Shortfall, CounterExact, AvailableSeats, TypeOK
<1>5. QED BY <1>1, <1>3, <1>4, TypeCorrect, PTL DEF Spec

(* Which ledger entry a seat stands for, by the shape of its hash field.   *)
LEMMA EntryCases ==
  ASSUME TypeOK, NEW s \in Seats
  PROVE  /\ seats[s].status \in {"missing", "available"} =>
              LedgerEntry(s) = Ledger!Nobody
         /\ seats[s].status = "booked" =>
              LedgerEntry(s) = Ledger!Entry("sold", seats[s].booking_id)
         /\ seats[s].status = "held" =>
              /\ seats[s].held_until > now =>
                   LedgerEntry(s) = Ledger!Entry("protected", seats[s].booking_id)
              /\ seats[s].held_until = now =>
                   LedgerEntry(s) = Ledger!Entry("lapsing", seats[s].booking_id)
              /\ seats[s].held_until < now => LedgerEntry(s) = Ledger!Nobody
<1>1. /\ seats[s].status \in {"missing", "available", "held", "booked"}
      /\ seats[s].held_until \in Nat
      /\ now \in Nat
  BY DEF TypeOK, SeatData, Missing, Free, Seat
<1>2. QED BY <1>1 DEF LedgerEntry, Ledger!Nobody, Ledger!Entry

(* The ledger that the store stands for.                                   *)
ledgerOf == [s \in Seats |-> LedgerEntry(s)]

(* Every step of the scripts and of the clock is a step of the ledger, or  *)
(* leaves the ledger as it is.                                             *)
LEMMA LedgerStep ==
  ASSUME TypeOK, TypeOK', [Next]_vars
  PROVE  Ledger!LedgerNext \/ UNCHANGED ledgerOf
<1> DEFINE Simulated == Ledger!LedgerNext \/ UNCHANGED ledgerOf
<1> USE DEF Held, Booked, Free, Missing, Seat
<1>0. \A s \in Seats : /\ seats[s] \in SeatData
                       /\ seats'[s] \in SeatData
                       /\ seats[s].held_until \in Nat
                       /\ now \in Nat
                       /\ now' \in Nat
  BY DEF TypeOK, SeatData
<1>1. ASSUME NEW b \in Bookings, NEW l \in SeatLists, NEW until \in Nat, until > now,
             \A s \in Range(l) : Reservable(s),
             seats' = [s \in Seats |-> IF s \in Range(l) THEN Held(b, until) ELSE seats[s]],
             UNCHANGED now
      PROVE  Ledger!Grant(b, Range(l))
  <2>1. \A s \in Range(l) : Ledger!Grantable(s)
    BY <1>1, <1>0, EntriesFinite, EntryCases
       DEF Reservable, Ledger!Grantable, Ledger!Nobody, Ledger!Entry
  <2>2. ASSUME NEW s \in Seats
        PROVE  LedgerEntry(s)' = IF s \in Range(l) THEN Ledger!Entry("protected", b)
                                                  ELSE LedgerEntry(s)
    BY <1>1, <1>0, <2>2 DEF LedgerEntry, Ledger!Entry
  <2>3. QED BY <2>1, <2>2 DEF Ledger!Grant
<1>2. ASSUME NEW b \in Bookings, NEW l \in SeatLists, NEW d \in HoldOffsets,
             BatchReserve(b, l, now + d)
      PROVE  Simulated
  <2>1. \A s \in Range(l) : Reservable(s) BY <1>2 DEF BatchReserve, CanReserve, Range
  <2>2. Ledger!Grant(b, Range(l)) BY <1>1, <1>2, <2>1, Deadlines DEF BatchReserve
  <2>3. QED BY <2>2 DEF Ledger!LedgerNext
<1>3. ASSUME NEW b \in Bookings, NEW l \in SeatLists, NEW d \in HoldOffsets,
             SingleReserve(b, l[1], now + d), Len(l) = 1
      PROVE  Simulated
  <2>1. Range(l) = {l[1]} /\ l[1] \in Seats BY <1>3, ListsAssumption DEF Range
  <2>2. seats' = [s \in Seats |-> IF s \in Range(l) THEN Held(b, now + d) ELSE seats[s]]
    BY <1>3, <2>1 DEF SingleReserve, TypeOK
  <2>3. Ledger!Grant(b, Range(l)) BY <1>1, <1>3, <2>1, <2>2, Deadlines DEF SingleReserve
  <2>4. QED BY <2>3 DEF Ledger!LedgerNext
<1>4. ASSUME NEW b \in Bookings, NEW l \in SeatLists, ConfirmSeats(b, l)
      PROVE  Simulated
  <2> DEFINE S == {s \in Seats : s \in Range(l) /\ Confirmable(b, s)}
  <2>1. \A s \in S : LedgerEntry(s) \in {Ledger!Entry("protected", b), Ledger!Entry("lapsing", b)}
    BY <1>0, EntryCases DEF Confirmable
  <2>2. ASSUME NEW s \in Seats
        PROVE  LedgerEntry(s)' = IF s \in S THEN Ledger!Entry("sold", b) ELSE LedgerEntry(s)
    BY <1>4, <1>0, <2>2 DEF ConfirmSeats, LedgerEntry, Ledger!Entry
  <2>3. Ledger!Sell(b, S) BY <2>1, <2>2 DEF Ledger!Sell
  <2>4. QED BY <2>3 DEF Ledger!LedgerNext
<1>5. ASSUME NEW b \in Bookings, NEW l \in SeatLists, ReleaseSeats(b, l)
      PROVE  Simulated
  <2> DEFINE S == {s \in Released(b, l) : LedgerEntry(s).booking = b}
  <2>1. Released(b, l) \in SUBSET Seats BY EntriesFinite DEF Released
  <2>2. ASSUME NEW s \in Seats
        PROVE  LedgerEntry(s)' = IF s \in S THEN Ledger!Nobody ELSE LedgerEntry(s)
    <3>1. CASE s \in Released(b, l)
      <4>1. LedgerEntry(s)' = Ledger!Nobody
        BY <1>5, <3>1, <2>2 DEF ReleaseSeats, LedgerEntry, Ledger!Nobody, Ledger!Entry
      <4>2. LedgerEntry(s) = Ledger!Nobody \/ LedgerEntry(s).booking = b
        BY <3>1, <1>0, EntryCases, SeatsAssumption
           DEF Released, Releasable, Ledger!Entry, SeatData
      <4>3. QED BY <4>1, <4>2, <3>1
    <3>2. CASE s \notin Released(b, l)
      BY <1>5, <3>2, <2>2 DEF ReleaseSeats, LedgerEntry
    <3>3. QED BY <3>1, <3>2
  <2>3. Ledger!GiveBack(b, S) BY <2>1, <2>2 DEF Ledger!GiveBack
  <2>4. S \in SUBSET Seats BY <2>1
  <2>5. QED BY <2>3, <2>4 DEF Ledger!LedgerNext
<1>6. ASSUME NEW S \in SUBSET Seats, Sweep(S) PROVE Simulated
  <2>1. ASSUME NEW s \in Seats PROVE LedgerEntry(s)' = LedgerEntry(s)
    BY <1>6, <1>0, <2>1 DEF Sweep, Expired, LedgerEntry
  <2>2. QED BY <2>1 DEF ledgerOf
<1>7. ASSUME NEW b \in Bookings, NEW l \in SeatLists, NEW x \in Extensions,
             ExtendHold(b, l, x)
      PROVE  Simulated
  <2>1. ASSUME NEW s \in Seats PROVE LedgerEntry(s)' = LedgerEntry(s)
    BY <1>7, <1>0, <2>1, ExtendedDeadline DEF ExtendHold, Extendable, LedgerEntry
  <2>2. QED BY <2>1 DEF ledgerOf
<1>8. CASE Tick
  <2> DEFINE P == {s \in Seats : seats[s].status = "held" /\ seats[s].held_until = now + 1}
             L == {s \in Seats : seats[s].status = "held" /\ seats[s].held_until = now}
  <2>1. now' = now + 1 /\ seats' = seats BY <1>8 DEF Tick, store
  <2>2. \A s \in P : LedgerEntry(s).state = "protected"
    BY <1>0, EntryCases DEF Ledger!Entry
  <2>3. \A s \in L : LedgerEntry(s).state = "lapsing"
    BY <1>0, EntryCases DEF Ledger!Entry
  <2>4. ASSUME NEW s \in Seats
        PROVE  LedgerEntry(s)' = IF s \in P THEN Ledger!Entry("lapsing", LedgerEntry(s).booking)
                                 ELSE IF s \in L THEN Ledger!Nobody
                                 ELSE LedgerEntry(s)
    BY <1>0, <2>1, <2>4 DEF LedgerEntry, Ledger!Entry, Ledger!Nobody
  <2>5. Ledger!Lapse
    <3>1. P \in SUBSET Seats /\ L \in SUBSET Seats OBVIOUS
    <3> HIDE DEF P, L
    <3>2. QED BY <3>1, <2>2, <2>3, <2>4, Zenon DEF Ledger!Lapse
  <2>6. QED BY <2>5 DEF Ledger!LedgerNext
<1>9. CASE UNCHANGED vars BY <1>9 DEF vars, ledgerOf, LedgerEntry
<1>10. QED
  BY <1>2, <1>3, <1>4, <1>5, <1>6, <1>7, <1>8, <1>9
     DEF Next, CleanupExpiredHolds, GetSeatsStatus

(* The scripts implement the ledger: requests are all-or-nothing, a live   *)
(* hold is never handed to another booking, only the holder buys, and a    *)
(* sold seat comes back only through its own booking's release.            *)
THEOREM ImplementsLedger == Spec => LedgerSpec
<1>1. Init => Ledger!LedgerInit
  BY DEF Init, Ledger!LedgerInit, LedgerEntry, Ledger!Nobody, Ledger!Entry, Free, Seat
<1>2. TypeOK /\ TypeOK' /\ [Next]_vars => [Ledger!LedgerNext]_ledgerOf
  BY LedgerStep
<1>3. QED
  BY <1>1, <1>2, TypeCorrect, PTL DEF Spec, LedgerSpec, Ledger!LedgerSpec, ledgerOf
================================================================================
