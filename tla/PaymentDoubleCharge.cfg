SPECIFICATION SystemSpec
CONSTANTS
  s1 = s1
  s2 = s2
  b1 = b1
  b2 = b2
  k1 = k1
  k2 = k2
  p1 = p1
  p2 = p2
  w1 = w1
  w2 = w2
  NoPayment = NoPayment
  NoBooking = NoBooking
  Seats <- TwoSeats
  SeatLists <- TwoSeatLists
  Bookings <- OneBooking
  RequestedSeats <- Pair
  KeyOf <- OneKey
  Cancellable <- NoBookings
  Confirming = {}
  CacheSeconds = 2
  HoldSeconds = 1
  Skew = 0
  MaxLatency = 0
  HoldOffsets = {1}
  Extensions = {1}
  MaxTime = 3
  MaxDeadline = 3
  MinAvailable = 0
  MaxFaults = 0
  Payments <- TwoPayments
  PaidBooking <- PaySameTwice
  Handlers <- OneHandler
  GatewayOutcomes = {"success"}
INVARIANTS NoDuplicateCharge
