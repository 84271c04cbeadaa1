SPECIFICATION SystemSpec
CONSTANTS
  s1 = s1
  s2 = s2
  b1 = b1
  b2 = b2
  k1 = k1
  k2 = k2
  p1 = p1
  p2 = p2
  w1 = w1
  w2 = w2
  NoPayment = NoPayment
  NoBooking = NoBooking
  Seats <- OneSeat
  SeatLists <- OneSeatLists
  Bookings <- TwoBookings
  RequestedSeats <- SameSeat
  KeyOf <- TwoKeys
  Cancellable <- OneBooking
  Confirming = {}
  CacheSeconds = 2
  HoldSeconds = 1
  Skew = 0
  MaxLatency = 0
  HoldOffsets = {1}
  Extensions = {1}
  MaxTime = 4
  MaxDeadline = 4
  MinAvailable = 0
  MaxFaults = 0
  Payments <- TwoPayments
  PaidBooking <- PayEach
  Handlers <- TwoHandlers
  GatewayOutcomes = {"success"}
SYMMETRY HandlerSymmetry
INVARIANTS ZeroOverbooking
