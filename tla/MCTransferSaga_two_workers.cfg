\* Two workers and no fault; the source is funded while they run.
SPECIFICATION Spec
CONSTANTS
  a1 = a1  a2 = a2  USD = USD  tz = tz
  Account = {a1, a2}  Currency = {USD}  Amount = {0, 2}
  NoTransfer = NoTransfer
  CurrencyOf <- MCCurrencyOf  From <- MCFrom  To <- MCTo
  AmountOf <- MCAmountOf  TransferCurrency <- MCTransferCurrency
  Transfer = {t1}
  Worker = {w1, w2}
  Closable = {}
  UserRows = 1
  MaxFaults <- NoFaults
INVARIANT Settled
