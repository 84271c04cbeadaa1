SPECIFICATION StoreSpec
CONSTANTS
  b1 = b1
  b2 = b2
  i1 = i1
  i2 = i2
  NoBooking = NoBooking
  Seats <- TwoSeats
  Screen <- TallScreen
  Bookings <- TwoBookings
  SeatLists <- SeatRequests
  HoldOffsets = {1}
  Extensions = {1}
  MaxTime = 2
  MaxDeadline = 2
  MinAvailable <- CounterFloor
  Overwrites = {TRUE, FALSE}
  Initialisers <- TwoInitialisers
  MaxResends = 1
  MaxLosses = 1
INVARIANTS StoreTypeOK CompleteUnlessMaimed OvercountsOnlyAfterARace SeatsCanBeAskedFor
PROPERTIES TakenSeatsKept
SYMMETRY StoreSymmetry
