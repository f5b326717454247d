\* One worker; the answer to one call is lost.
SPECIFICATION Spec
CONSTANTS
  a1 = a1  a2 = a2  USD = USD  tz = tz
  Account = {a1, a2}  Currency = {USD}  Amount = {0, 2}
  NoTransfer = NoTransfer
  CurrencyOf <- MCCurrencyOf  From <- MCFrom  To <- MCTo
  AmountOf <- MCAmountOf  TransferCurrency <- MCTransferCurrency
  Transfer = {t1}
  Worker = {w1}
  Closable = {}
  UserRows = 1
  MaxFaults <- Lost1
INVARIANT FailedMeansRefused
