SPECIFICATION Spec
CONSTANTS
  Callers = {"cron", "api1", "api2"}
  MaxRetries = 2
  MaxRevision = 2
INVARIANT FreshInv
PROPERTY GetReturns
