SPECIFICATION ClientSpec
CONSTANTS
  c1 = c1
  c2 = c2
  h1 = h1
  Startup = Startup
  Calls <- TwoCalls
  Probes <- OneProbe
  MaxRetries = 10
  RetriesPerRequest = 3
  MaxDisruptions = 2
INVARIANTS ClientTypeOK RunsRepeatOnlyLostReplies ResultComesFromARun FailsOnlyInTrouble
PROPERTIES RequestsEnd
CHECK_DEADLOCK FALSE
