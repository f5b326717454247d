\* Four requests, accepted and refused, race over two accounts; any statement
\* may fail.
SPECIFICATION Spec
CONSTANTS
  a1 = a1  a2 = a2  u1 = u1  u2 = u2  t1 = t1  USD = USD  EUR = EUR
  Account = {a1, a2}  User = {u1, u2}  Currency = {USD, EUR}  Transfer = {t1}
  NoTransfer = NoTransfer  NoRequest = NoRequest
  Owner <- MCOwner  CurrencyOf <- MCCurrencyOf
  Amount = {0, 1, 2}
  Request = {r1, r2, r3, r4}
  Calls <- RacingCalls
  PoolSize = 4
  DbFaults = TRUE
SYMMETRY Symmetry
INVARIANTS TypeOK NonNegativeBalance AppliedOnce OkMeansEntered
PROPERTIES LedgerSpec ClosedIsFrozen
