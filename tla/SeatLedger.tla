------------------------------ MODULE SeatLedger ------------------------------
(***************************************************************************)
(* What the seat store of one showtime promises its callers, with no       *)
(* clock, no counter and no hash fields: a seat is nobody's, protected     *)
(* for one booking while its hold lives, still confirmable by that booking *)
(* in the instant its hold ends, or sold to it.                            *)
(***************************************************************************)
CONSTANTS Seats, Bookings, SeatSets, NoBooking

VARIABLE ledger

Entry(state, booking) == [state |-> state, booking |-> booking]
Nobody == Entry("free", NoBooking)

LedgerInit == ledger = [s \in Seats |-> Nobody]

(* Only a seat nobody has a live hold on, and nobody bought, is granted.   *)
Grantable(s) == ledger[s].state \in {"free", "lapsing"}

(* All seats of the request become the booking's, or none does.            *)
Grant(b, S) ==
  /\ \A s \in S : Grantable(s)
  /\ ledger' = [s \in Seats |-> IF s \in S THEN Entry("protected", b) ELSE ledger[s]]

(* A booking buys only seats it still has a claim on.                      *)
Sell(b, S) ==
  /\ \A s \in S : ledger[s] \in {Entry("protected", b), Entry("lapsing", b)}
  /\ ledger' = [s \in Seats |-> IF s \in S THEN Entry("sold", b) ELSE ledger[s]]

(* A booking gives back only seats that are its own; a sold one included.  *)
GiveBack(b, S) ==
  /\ \A s \in S : ledger[s].booking = b
  /\ ledger' = [s \in Seats |-> IF s \in S THEN Nobody ELSE ledger[s]]

(* Time passes: a protected seat may begin to lapse, a lapsing seat may    *)
(* become free; a sold seat does not lapse.                                *)
Lapse ==
  \E P, L \in SUBSET Seats :
    /\ \A s \in P : ledger[s].state = "protected"
    /\ \A s \in L : ledger[s].state = "lapsing"
    /\ ledger' = [s \in Seats |-> IF s \in P THEN Entry("lapsing", ledger[s].booking)
                                  ELSE IF s \in L THEN Nobody
                                  ELSE ledger[s]]

LedgerNext ==
  \/ \E b \in Bookings, S \in SeatSets : Grant(b, S)
  \/ \E b \in Bookings, S \in SUBSET Seats : Sell(b, S) \/ GiveBack(b, S)
  \/ Lapse

LedgerSpec == LedgerInit /\ [][LedgerNext]_ledger
================================================================================
