SPECIFICATION BookingSpec
CONSTANTS
  s1 = s1
  s2 = s2
  b1 = b1
  b2 = b2
  b3 = b3
  k1 = k1
  k2 = k2
  NoBooking = NoBooking
  Seats <- MCSeats
  SeatLists <- MCSeatLists
  Bookings <- ThreeBookings
  RequestedSeats <- ChangedRequests
  KeyOf <- RetryKeys
  Cancellable <- TwoBookings
  Confirming <- OneBooking
  CacheSeconds = 2
  HoldSeconds = 3
  Skew <- Behind
  MaxLatency = 1
  HoldOffsets = {1, 2}
  Extensions = {1}
  MaxTime = 6
  MaxDeadline = 6
  MinAvailable = 0
  MaxFaults = 1
INVARIANTS BookingTypeOK RefusedOwnsNothing OneClaimPerKey OffersLapse PendingOwnsItsSeats
