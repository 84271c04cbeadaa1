SPECIFICATION Spec
CONSTANTS
  s1 = s1
  s2 = s2
  s3 = s3
  b1 = b1
  b2 = b2
  NoBooking = NoBooking
  Seats <- ThreeSeats
  Bookings <- MCBookings
  SeatLists <- MCSeatLists
  HoldOffsets = {1, 2}
  Extensions = {1}
  MaxTime = 3
  MaxDeadline = 4
  MinAvailable <- CounterFloor
INVARIANTS TypeOK CounterNeverOvercounts
PROPERTIES OnlyRepeatsMiscount LedgerSpec
