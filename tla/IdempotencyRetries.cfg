SPECIFICATION IdemSpec
CONSTANTS
  r1 = r1
  r2 = r2
  r3 = r3
  r4 = r4
  k1 = k1
  k2 = k2
  b1 = b1
  b2 = b2
  h1 = h1
  h2 = h2
  NoRequest = NoRequest
  Requests <- FourRequests
  KeyOf <- ChangedKeys
  BodyOf <- ChangedBodies
  BookingOf <- ChangedBookings
  MaxFaults = 1
INVARIANTS IdemTypeOK OneExecutionPerKey SameKeySameAnswer OnePaymentPerKey OneBodyPerKey StuckOnlyByFault UrlFollows
PROPERTIES PromiseSpec
SYMMETRY RetrySymmetry
