SPECIFICATION BookingFairSpec
CONSTANTS
  s1 = s1
  s2 = s2
  b1 = b1
  b2 = b2
  b3 = b3
  k1 = k1
  k2 = k2
  NoBooking = NoBooking
  Seats <- MCSeats
  SeatLists <- MCSeatLists
  Bookings <- TwoBookings
  RequestedSeats <- RivalRequests
  KeyOf <- RivalKeys
  Cancellable <- TwoBookings
  Confirming = {}
  CacheSeconds = 2
  HoldSeconds = 2
  Skew = 0
  MaxLatency = 1
  HoldOffsets = {1, 2}
  Extensions = {1}
  MaxTime = 5
  MaxDeadline = 6
  MinAvailable = 0
  MaxFaults = 1
PROPERTIES ExpiredHoldsReleased
