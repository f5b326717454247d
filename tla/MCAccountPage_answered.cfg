\* Two requests share two connections, with a tab that shows the account or
\* the list of accounts, and no statement fails: a request is only cut off
\* when all connections wait for one another.
SPECIFICATION PageSpec
CONSTANTS
  a1 = a1  a2 = a2  u1 = u1  u2 = u2  t1 = t1  USD = USD  EUR = EUR
  Account = {a1}  User = {u1}  Currency = {USD, EUR}  Transfer = {t1}
  NoTransfer = NoTransfer  NoRequest = NoRequest
  Owner <- MCOwner  CurrencyOf <- MCCurrencyOf
  Amount = {0, 2}
  Request = {r1, r2}
  Calls <- WaitingCalls
  PoolSize = 2
  DbFaults = FALSE
  Page = {p1}
  AccountOf <- MCAccountOf
  Viewer <- MCViewer
INVARIANTS ClosedBalanceIsFinal
PROPERTIES Answered OwnEntriesShown
